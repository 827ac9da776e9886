---------------------------- MODULE Suite_proofs ----------------------------
(***************************************************************************)
(* Proofs about run_tests, for every list of work items, every set of      *)
(* fixtures, any number of directories and reporters and any --parallel,   *)
(* and the proof that it implements SuiteSpec.                             *)
(*                                                                         *)
(* The invariant says of each unit exactly when it has ended: a fixture    *)
(* when its loop is past its directory, a test when it has been pulled and *)
(* is no longer in flight.  Everything else follows from it.               *)
(*                                                                         *)
(* The second part is about TestRun, what happens in one unit: every        *)
(* attempt starts afresh and the result is that of the last, for all       *)
(* chains, names and settings.                                             *)
(*                                                                         *)
(* The third is about Snapshot, what a unit writes back: every file whose  *)
(* attributes stand above headers, every answer, any number of tests of    *)
(* one file and of edits.  Such a file has a layout (Layout): gaps of      *)
(* attributes, headers and bodies, one after the other.  The parser finds  *)
(* its sections there (SectionsLaid), what is written has the layout again *)
(* with some bodies replaced (Relaid), and each is parsed as the messages  *)
(* it was written for (BodyIs).  The rest is to count: a RESPONSE is dealt *)
(* as many messages as it reads, or all that are left.  The steps of the   *)
(* tests and the editor only decide which lines are written over which     *)
(* (SnapshotInv).  What the recursive functions of the model come to is    *)
(* proved by SetInduction: a function that satisfies the recursion exists, *)
(* so CHOOSE picks one.                                                    *)
(***************************************************************************)
EXTENDS SuiteRun, TestRun, Snapshot, FiniteSetTheorems, SequenceTheorems, WellFoundedInduction, TLAPS

-----------------------------------------------------------------------------
(* The inductive invariant                                                 *)

\* What each phase leaves at rest.
Phases ==
    /\ phase # "collect" => work # <<>>
    /\ phase \in {"collect", "tests", "flush"} => dir = 1
    /\ phase \in {"collect", "setup"} => next = 1 /\ running = {}
    /\ phase \in {"teardown", "flush"} => next = Len(work) + 1 /\ running = {}
    /\ exit_code # "none" => phase = "flush" \/ (phase = "collect" /\ work = <<>>)

\* The fixture of d in the loop of this phase is behind.
SetupBehind(d) == phase \in {"tests", "teardown", "flush"} \/ (phase = "setup" /\ d < dir)
TeardownBehind(d) == phase = "flush" \/ (phase = "teardown" /\ d < dir)

SetupsEnded ==
    \A d \in Dirs : <<"setup", d>> \in Ended <=> d \in active_dirs \cap setups /\ SetupBehind(d)
TeardownsEnded ==
    \A d \in Dirs :
        <<"teardown", d>> \in Ended <=> d \in active_dirs \cap teardowns /\ TeardownBehind(d)
TestsEnded ==
    /\ running \subseteq 1..(next - 1)
    /\ \A i \in DOMAIN work : <<"test", i>> \in Ended <=> i < next /\ i \notin running

\* No unit has both passed and failed, and a set-up's outcome is remembered.
Fixtures ==
    /\ passed \cap failed = {}
    /\ \A d \in Dirs : /\ d \in dir_setup_vars <=> <<"setup", d>> \in passed
                       /\ d \in dirs_setup_failed <=> <<"setup", d>> \in failed

\* A test that was started knows its directory's set-up, one that passed was not
\* doomed.
Seeding ==
    /\ seeded \subseteq 1..(next - 1)
    /\ \A i \in DOMAIN work :
        i < next => (i \in seeded <=> ~work[i].error /\ work[i].dir \in dir_setup_vars)
    /\ \A i \in DOMAIN work :
        <<"test", i>> \in passed => ~work[i].error /\ work[i].dir \notin dirs_setup_failed

Counted == IsFiniteSet(Ended) /\ reported = Cardinality(Ended)

Exited ==
    /\ exit_code = "0" => phase = "flush" /\ flushed = NumReporters /\ failed = {}
    /\ exit_code = "1" => work = <<>> \/ flushed < NumReporters \/ failed # {}

IInv ==
    /\ TypeOK /\ Phases /\ SetupsEnded /\ TeardownsEnded /\ TestsEnded
    /\ Fixtures /\ Seeding /\ Counted /\ Exited

-----------------------------------------------------------------------------
(* Lemmas                                                                  *)

\* The plan is a list of work items over a range of directories.
LEMMA PlanType ==
    ASSUME work \in Works, parallel \in Parallels
    PROVE  /\ NumDirs \in Nat /\ NumReporters \in Nat
           /\ work \in Seq(WorkItem) /\ Len(work) \in Nat /\ DOMAIN work = 1..Len(work)
           /\ \A i \in DOMAIN work : work[i].dir \in Dirs /\ work[i].error \in BOOLEAN
           /\ active_dirs \subseteq Dirs
           /\ parallel_jobs \in Nat /\ parallel_jobs >= 1
<1>1. NumDirs \in Nat /\ NumReporters \in Nat /\ work \in Seq(WorkItem) /\ parallel \in Nat
  BY SuiteAssumption
<1>2. Len(work) \in Nat /\ DOMAIN work = 1..Len(work)
  BY <1>1
<1>3. \A i \in DOMAIN work : work[i] \in WorkItem
  BY <1>1
<1>4. \A i \in DOMAIN work : work[i].dir \in Dirs /\ work[i].error \in BOOLEAN
  BY <1>3 DEF WorkItem
<1> QED
  BY <1>1, <1>2, <1>4 DEF active_dirs, parallel_jobs

\* It does not change.
LEMMA PlanFixed ==
    ASSUME UNCHANGED plan
    PROVE  /\ parallel' = parallel /\ work' = work /\ setups' = setups /\ teardowns' = teardowns
           /\ active_dirs' = active_dirs /\ parallel_jobs' = parallel_jobs /\ Units' = Units
           /\ total_reported' = total_reported
BY DEF plan, active_dirs, parallel_jobs, Units, total_reported

\* A unit that ends is one more in the ledger.
LEMMA RecordEnds ==
    ASSUME NEW u, NEW ok \in BOOLEAN, Record(u, ok), Counted, u \notin Ended, passed \cap failed = {}
    PROVE  /\ Ended' = Ended \cup {u} /\ passed' \cap failed' = {} /\ Counted'
           /\ passed' = IF ok THEN passed \cup {u} ELSE passed
           /\ failed' = IF ok THEN failed ELSE failed \cup {u}
<1>1. Ended' = Ended \cup {u}
  BY DEF Record, Ended
<1>2. IsFiniteSet(Ended \cup {u}) /\ Cardinality(Ended \cup {u}) = Cardinality(Ended) + 1
  BY FS_AddElement DEF Counted
<1> QED
  BY <1>1, <1>2 DEF Record, Ended, Counted

LEMMA InitIInv == Init => IInv
<1> SUFFICES ASSUME Init PROVE IInv
  OBVIOUS
<1> USE DEF Init
<1>1. NumDirs \in Nat /\ NumReporters \in Nat /\ Len(work) \in Nat /\ parallel_jobs \in Nat /\ parallel_jobs >= 1
  BY PlanType
<1>2. IsFiniteSet({}) /\ Cardinality({}) = 0
  BY FS_EmptySet
<1>3. TypeOK
  BY <1>1, <1>2 DEF TypeOK
<1>4. Ended = {}
  BY DEF Ended
<1>5. Phases /\ SetupsEnded /\ TeardownsEnded /\ TestsEnded
  BY <1>4, PlanType DEF Phases, SetupsEnded, TeardownsEnded, TestsEnded, SetupBehind, TeardownBehind
<1>6. Fixtures /\ Seeding /\ Counted /\ Exited
  BY <1>2, <1>4, PlanType DEF Fixtures, Seeding, Counted, Exited
<1> QED
  BY <1>3, <1>5, <1>6 DEF IInv

-----------------------------------------------------------------------------
(* Steps that end no unit                                                  *)

LEMMA CollectStep == ASSUME IInv, Collect PROVE IInv'
<1> USE DEF Collect, tests, fixtures, results
<1>1. UNCHANGED plan /\ Ended' = Ended
  BY DEF Ended
<1>2. TypeOK'
  BY <1>1, PlanFixed DEF IInv, TypeOK
<1>3. NumDirs \in Nat /\ Dirs = 1..NumDirs /\ dir = 1
  BY PlanType DEF IInv, TypeOK, Dirs, Phases
<1>4. Phases'
  BY <1>1, PlanFixed DEF IInv, Phases
<1>5. SetupsEnded' /\ TeardownsEnded'
  BY <1>1, <1>3, PlanFixed DEF IInv, SetupsEnded, TeardownsEnded, SetupBehind, TeardownBehind
<1>6. TestsEnded' /\ Fixtures' /\ Seeding' /\ Counted'
  BY <1>1, PlanFixed DEF IInv, TestsEnded, Fixtures, Seeding, Counted
<1>7. Exited'
  BY <1>1, PlanFixed DEF IInv, Exited
<1> QED
  BY <1>2, <1>4, <1>5, <1>6, <1>7 DEF IInv

LEMMA SkipDirStep == ASSUME IInv, SkipDir PROVE IInv'
<1> USE DEF SkipDir, tests, fixtures, results
<1>1. UNCHANGED plan /\ Ended' = Ended
  BY DEF Ended
<1>2. NumDirs \in Nat /\ Dirs = 1..NumDirs /\ dir \in Nat
  BY PlanType DEF IInv, TypeOK, Dirs
<1>3. TypeOK'
  <2>1. dir' \in 1..(NumDirs + 1)
    BY <1>2
  <2>2. phase' \in {"collect", "setup", "tests", "teardown", "flush"}
    BY DEF IInv, TypeOK
  <2> QED
    BY <2>1, <2>2, <1>1, PlanFixed DEF IInv, TypeOK
<1>4. Phases'
  BY <1>1, PlanFixed DEF IInv, Phases
<1>5. SetupsEnded' /\ TeardownsEnded'
  BY <1>1, <1>2, PlanFixed DEF IInv, SetupsEnded, TeardownsEnded, SetupBehind, TeardownBehind
<1>6. TestsEnded' /\ Fixtures' /\ Seeding' /\ Counted' /\ Exited'
  BY <1>1, PlanFixed DEF IInv, TestsEnded, Fixtures, Seeding, Counted, Exited
<1> QED
  BY <1>3, <1>4, <1>5, <1>6 DEF IInv

LEMMA EndOfLoopStep == ASSUME IInv, EndOfLoop PROVE IInv'
<1> USE DEF EndOfLoop, tests, fixtures, results
<1>1. UNCHANGED plan /\ Ended' = Ended
  BY DEF Ended
<1>2. NumDirs \in Nat /\ Dirs = 1..NumDirs /\ dir = NumDirs + 1
  BY PlanType DEF IInv, TypeOK, Dirs
<1>3. TypeOK'
  <2>1. dir' \in 1..(NumDirs + 1)
    BY <1>2
  <2>2. phase' \in {"collect", "setup", "tests", "teardown", "flush"}
    BY DEF IInv, TypeOK
  <2> QED
    BY <2>1, <2>2, <1>1, PlanFixed DEF IInv, TypeOK
<1>4. Phases'
  BY <1>1, PlanFixed DEF IInv, Phases
<1>5. SetupsEnded' /\ TeardownsEnded'
  BY <1>1, <1>2, PlanFixed DEF IInv, SetupsEnded, TeardownsEnded, SetupBehind, TeardownBehind
<1>6. TestsEnded' /\ Fixtures' /\ Seeding' /\ Counted' /\ Exited'
  BY <1>1, PlanFixed DEF IInv, TestsEnded, Fixtures, Seeding, Counted, Exited, Phases
<1> QED
  BY <1>3, <1>4, <1>5, <1>6 DEF IInv

LEMMA TestsDrainedStep == ASSUME IInv, TestsDrained PROVE IInv'
<1> USE DEF TestsDrained, tests, fixtures, results
<1>1. UNCHANGED plan /\ Ended' = Ended
  BY DEF Ended
<1>2. NumDirs \in Nat /\ Dirs = 1..NumDirs /\ dir = 1 /\ Len(work) \in Nat /\ next = Len(work) + 1
  BY PlanType DEF IInv, TypeOK, Dirs, Phases
<1>3. TypeOK'
  BY <1>1, PlanFixed DEF IInv, TypeOK
<1>4. Phases'
  BY <1>1, <1>2, PlanFixed DEF IInv, Phases
<1>5. SetupsEnded' /\ TeardownsEnded'
  BY <1>1, <1>2, PlanFixed DEF IInv, SetupsEnded, TeardownsEnded, SetupBehind, TeardownBehind
<1>6. TestsEnded' /\ Fixtures' /\ Seeding' /\ Counted' /\ Exited'
  BY <1>1, PlanFixed DEF IInv, TestsEnded, Fixtures, Seeding, Counted, Exited, Phases
<1> QED
  BY <1>3, <1>4, <1>5, <1>6 DEF IInv

LEMMA StartTestStep == ASSUME IInv, StartTest PROVE IInv'
<1> USE DEF StartTest, fixtures, results
<1>1. UNCHANGED plan /\ Ended' = Ended
  BY DEF Ended
<1>2. /\ NumDirs \in Nat /\ Len(work) \in Nat /\ DOMAIN work = 1..Len(work) /\ next \in 1..Len(work)
      /\ parallel_jobs \in Nat /\ phase = "tests"
  BY PlanType DEF IInv, TypeOK
<1>3. running \subseteq 1..(next - 1) /\ running \subseteq DOMAIN work
  BY DEF IInv, TestsEnded, TypeOK
<1>4. IsFiniteSet(running)
  <2>1. IsFiniteSet(1..Len(work))
    BY <1>2, FS_Interval
  <2> QED
    BY <2>1, <1>2, <1>3, FS_Subset
<1>5. Cardinality(running \cup {next}) <= parallel_jobs
  <2>1. next \notin running
    BY <1>2, <1>3
  <2>2. Cardinality(running \cup {next}) = Cardinality(running) + 1 /\ Cardinality(running) \in Nat
    BY <2>1, <1>4, FS_AddElement, FS_CardinalityType
  <2> QED
    BY <2>2, <1>2 DEF Room
<1>6. TypeOK'
  BY <1>1, <1>2, <1>5, PlanFixed DEF IInv, TypeOK
<1>7. Phases' /\ Exited'
  BY <1>1, PlanFixed DEF IInv, Phases, Exited
<1>8. SetupsEnded' /\ TeardownsEnded' /\ Fixtures' /\ Counted'
  BY <1>1, PlanFixed DEF IInv, SetupsEnded, TeardownsEnded, SetupBehind, TeardownBehind, Fixtures, Counted
<1>9. TestsEnded'
  BY <1>1, <1>2, <1>3, PlanFixed DEF IInv, TestsEnded
<1>10. Seeding'
  <2>1. ASSUME NEW i \in DOMAIN work, i < next + 1
        PROVE  i \in seeded' <=> ~work[i].error /\ work[i].dir \in dir_setup_vars
    <3>1. CASE i = next
      <4>1. i \notin seeded
        BY <3>1, <1>2 DEF IInv, Seeding
      <4> QED
        BY <3>1, <4>1
    <3>2. CASE i < next
      BY <3>2, <1>2 DEF IInv, Seeding
    <3> QED
      BY <3>1, <3>2, <2>1, <1>2
  <2>2. seeded' \subseteq 1..(next' - 1)
    <3>1. seeded' \subseteq seeded \cup {next} /\ next' = next + 1
      OBVIOUS
    <3>2. seeded \subseteq 1..(next - 1)
      BY DEF IInv, Seeding
    <3>3. next \in Nat /\ next >= 1 /\ next' - 1 = next
      BY <3>1, <1>2
    <3>4. ASSUME NEW i \in seeded' PROVE i \in 1..next
      BY <3>1, <3>2, <3>3
    <3> QED
      BY <3>3, <3>4
  <2>3. \A i \in DOMAIN work : <<"test", i>> \in passed => ~work[i].error /\ work[i].dir \notin dirs_setup_failed
    BY DEF IInv, Seeding
  <2> QED
    BY <2>1, <2>2, <2>3, <1>1, PlanFixed DEF Seeding
<1> QED
  BY <1>6, <1>7, <1>8, <1>9, <1>10 DEF IInv

LEMMA FlushStep == ASSUME IInv, NEW ok \in BOOLEAN, Flush(ok) PROVE IInv'
<1> USE DEF Flush, tests, fixtures, results
<1>1. UNCHANGED plan /\ Ended' = Ended
  BY DEF Ended
<1>2. NumReporters \in Nat /\ flushed \in Nat /\ flushed < NumReporters
  BY PlanType DEF IInv, TypeOK
<1>3. TypeOK'
  BY <1>1, <1>2, PlanFixed DEF IInv, TypeOK
<1>4. Phases'
  BY <1>1, PlanFixed DEF IInv, Phases
<1>5. SetupsEnded' /\ TeardownsEnded'
  BY <1>1, PlanFixed DEF IInv, SetupsEnded, TeardownsEnded, SetupBehind, TeardownBehind
<1>6. TestsEnded' /\ Fixtures' /\ Seeding' /\ Counted'
  BY <1>1, PlanFixed DEF IInv, TestsEnded, Fixtures, Seeding, Counted
<1>7. Exited'
  BY <1>1, <1>2, PlanFixed DEF IInv, Exited
<1> QED
  BY <1>3, <1>4, <1>5, <1>6, <1>7 DEF IInv

LEMMA ExitStep == ASSUME IInv, Exit PROVE IInv'
<1> USE DEF Exit, tests, fixtures, results
<1>1. UNCHANGED plan /\ Ended' = Ended
  BY DEF Ended
<1>2. TypeOK'
  BY <1>1, PlanFixed DEF IInv, TypeOK
<1>3. Phases' /\ Exited'
  BY <1>1, PlanFixed DEF IInv, Phases, Exited
<1>4. SetupsEnded' /\ TeardownsEnded'
  BY <1>1, PlanFixed DEF IInv, SetupsEnded, TeardownsEnded, SetupBehind, TeardownBehind
<1>5. TestsEnded' /\ Fixtures' /\ Seeding' /\ Counted'
  BY <1>1, PlanFixed DEF IInv, TestsEnded, Fixtures, Seeding, Counted
<1> QED
  BY <1>2, <1>3, <1>4, <1>5 DEF IInv

-----------------------------------------------------------------------------
(* Steps that end a unit                                                   *)

LEMMA RunSetupStep == ASSUME IInv, NEW ok \in BOOLEAN, RunSetup(ok) PROVE IInv'
<1> DEFINE u == <<"setup", dir>>
<1>1. /\ UNCHANGED <<parallel, work, setups, teardowns, phase, next, running, seeded, flushed, exit_code>>
      /\ UNCHANGED plan
      /\ phase = "setup" /\ dir \in active_dirs \cap setups /\ dir' = dir + 1 /\ Record(u, ok)
      /\ dir_setup_vars' = IF ok THEN dir_setup_vars \cup {dir} ELSE dir_setup_vars
      /\ dirs_setup_failed' = IF ok THEN dirs_setup_failed ELSE dirs_setup_failed \cup {dir}
  BY DEF RunSetup, plan, tests
<1>2. /\ NumDirs \in Nat /\ Dirs = 1..NumDirs /\ dir \in Dirs /\ next = 1 /\ running = {}
      /\ DOMAIN work = 1..Len(work) /\ Len(work) \in Nat
  BY <1>1, PlanType DEF IInv, TypeOK, Dirs, Phases
<1>3. u \notin Ended
  BY <1>1, <1>2 DEF IInv, SetupsEnded, SetupBehind
<1>4. /\ Ended' = Ended \cup {u} /\ passed' \cap failed' = {} /\ Counted'
      /\ passed' = IF ok THEN passed \cup {u} ELSE passed
      /\ failed' = IF ok THEN failed ELSE failed \cup {u}
  BY <1>1, <1>3, RecordEnds DEF IInv, Fixtures
<1>5. \A e \in passed \cup failed : e \in Ended
  BY DEF Ended
<1>6. TypeOK'
  <2>1. dir' \in 1..(NumDirs + 1)
    BY <1>1, <1>2
  <2>2. u \in Units /\ passed' \subseteq Units /\ failed' \subseteq Units
    BY <1>2, <1>4 DEF Units, IInv, TypeOK
  <2>3. reported' \in Nat
    BY <1>1 DEF Record, IInv, TypeOK
  <2>4. dir_setup_vars' \subseteq Dirs /\ dirs_setup_failed' \subseteq Dirs
    BY <1>1, <1>2 DEF IInv, TypeOK
  <2> QED
    BY <2>1, <2>2, <2>3, <2>4, <1>1, PlanFixed DEF IInv, TypeOK
<1>7. Phases'
  BY <1>1, PlanFixed DEF IInv, Phases
<1>8. SetupsEnded'
  <2>1. ASSUME NEW d \in Dirs
        PROVE  <<"setup", d>> \in Ended' <=> d \in active_dirs \cap setups /\ d < dir + 1
    <3>1. <<"setup", d>> \in Ended <=> d \in active_dirs \cap setups /\ d < dir
      BY <1>1 DEF IInv, SetupsEnded, SetupBehind
    <3>2. <<"setup", d>> = u <=> d = dir
      OBVIOUS
    <3> QED
      BY <3>1, <3>2, <1>1, <1>2, <1>4
  <2> QED
    BY <2>1, <1>1, PlanFixed DEF SetupsEnded, SetupBehind
<1>9. TeardownsEnded'
  BY <1>1, <1>4, PlanFixed DEF IInv, TeardownsEnded, TeardownBehind
<1>10. TestsEnded'
  BY <1>1, <1>4, PlanFixed DEF IInv, TestsEnded
<1>11. Fixtures'
  <2>1. ASSUME NEW d \in Dirs
        PROVE  /\ d \in dir_setup_vars' <=> <<"setup", d>> \in passed'
               /\ d \in dirs_setup_failed' <=> <<"setup", d>> \in failed'
    <3>1. /\ d \in dir_setup_vars <=> <<"setup", d>> \in passed
          /\ d \in dirs_setup_failed <=> <<"setup", d>> \in failed
      BY DEF IInv, Fixtures
    <3>2. <<"setup", d>> = u <=> d = dir
      OBVIOUS
    <3> QED
      BY <3>1, <3>2, <1>1, <1>4
  <2> QED
    BY <2>1, <1>4 DEF Fixtures
<1>12. Seeding'
  <2>1. ASSUME NEW i \in DOMAIN work PROVE <<"test", i>> \notin Ended
    <3>1. ~(i < next)
      BY <1>2
    <3> QED
      BY <3>1 DEF IInv, TestsEnded
  <2>2. \A i \in DOMAIN work : <<"test", i>> \notin passed'
    BY <2>1, <1>4 DEF Ended
  <2>3. \A i \in DOMAIN work : ~(i < next)
    BY <1>2
  <2> QED
    BY <2>2, <2>3, <1>1, PlanFixed DEF IInv, Seeding
<1>13. Exited'
  BY <1>1, <1>2 DEF IInv, Exited, Phases
<1> QED
  BY <1>4, <1>6, <1>7, <1>8, <1>9, <1>10, <1>11, <1>12, <1>13 DEF IInv

LEMMA RunTeardownStep == ASSUME IInv, NEW ok \in BOOLEAN, RunTeardown(ok) PROVE IInv'
<1> DEFINE u == <<"teardown", dir>>
<1>1. /\ UNCHANGED <<parallel, work, setups, teardowns, phase, next, running, seeded, flushed, exit_code,
                    dir_setup_vars, dirs_setup_failed>>
      /\ UNCHANGED plan
      /\ phase = "teardown" /\ dir \in active_dirs \cap teardowns /\ dir' = dir + 1 /\ Record(u, ok)
  BY DEF RunTeardown, plan, tests, fixtures
<1>2. /\ NumDirs \in Nat /\ Dirs = 1..NumDirs /\ dir \in Dirs
      /\ DOMAIN work = 1..Len(work) /\ Len(work) \in Nat
  BY <1>1, PlanType DEF IInv, TypeOK, Dirs
<1>3. u \notin Ended
  BY <1>1, <1>2 DEF IInv, TeardownsEnded, TeardownBehind
<1>4. /\ Ended' = Ended \cup {u} /\ passed' \cap failed' = {} /\ Counted'
      /\ passed' = IF ok THEN passed \cup {u} ELSE passed
      /\ failed' = IF ok THEN failed ELSE failed \cup {u}
  BY <1>1, <1>3, RecordEnds DEF IInv, Fixtures
<1>5. TypeOK'
  <2>1. dir' \in 1..(NumDirs + 1)
    BY <1>1, <1>2
  <2>2. u \in Units /\ passed' \subseteq Units /\ failed' \subseteq Units
    BY <1>2, <1>4 DEF Units, IInv, TypeOK
  <2>3. reported' \in Nat
    BY <1>1 DEF Record, IInv, TypeOK
  <2> QED
    BY <2>1, <2>2, <2>3, <1>1, PlanFixed DEF IInv, TypeOK
<1>6. Phases'
  BY <1>1, PlanFixed DEF IInv, Phases
<1>7. SetupsEnded'
  BY <1>1, <1>4, PlanFixed DEF IInv, SetupsEnded, SetupBehind
<1>8. TeardownsEnded'
  <2>1. ASSUME NEW d \in Dirs
        PROVE  <<"teardown", d>> \in Ended' <=> d \in active_dirs \cap teardowns /\ d < dir + 1
    <3>1. <<"teardown", d>> \in Ended <=> d \in active_dirs \cap teardowns /\ d < dir
      BY <1>1 DEF IInv, TeardownsEnded, TeardownBehind
    <3>2. <<"teardown", d>> = u <=> d = dir
      OBVIOUS
    <3> QED
      BY <3>1, <3>2, <1>1, <1>2, <1>4
  <2> QED
    BY <2>1, <1>1, PlanFixed DEF TeardownsEnded, TeardownBehind
<1>9. TestsEnded'
  BY <1>1, <1>4, PlanFixed DEF IInv, TestsEnded
<1>10. Fixtures'
  BY <1>1, <1>4 DEF IInv, Fixtures
<1>11. Seeding'
  BY <1>1, <1>4, PlanFixed DEF IInv, Seeding
<1>12. Exited'
  BY <1>1 DEF IInv, Exited, Phases
<1> QED
  BY <1>4, <1>5, <1>6, <1>7, <1>8, <1>9, <1>10, <1>11, <1>12 DEF IInv

LEMMA EndTestStep ==
    ASSUME IInv, NEW j \in DOMAIN work, NEW ok \in BOOLEAN, EndTest(j, ok) PROVE IInv'
<1> DEFINE u == <<"test", j>>
<1>1. /\ UNCHANGED <<parallel, work, setups, teardowns, phase, dir, next, seeded, flushed, exit_code,
                    dir_setup_vars, dirs_setup_failed>>
      /\ UNCHANGED plan
      /\ j \in running /\ running' = running \ {j} /\ Record(u, ok)
      /\ ok => ~work[j].error /\ work[j].dir \notin dirs_setup_failed
  BY DEF EndTest, item_skipped_by_setup, plan, fixtures
<1>2. /\ DOMAIN work = 1..Len(work) /\ Len(work) \in Nat /\ next \in Nat
      /\ running \subseteq 1..(next - 1) /\ phase = "tests" /\ parallel_jobs \in Nat
  <2>1. phase = "tests"
    BY <1>1 DEF IInv, TypeOK, Phases
  <2> QED
    BY <2>1, PlanType DEF IInv, TypeOK, TestsEnded
<1>3. u \notin Ended
  BY <1>1 DEF IInv, TestsEnded
<1>4. /\ Ended' = Ended \cup {u} /\ passed' \cap failed' = {} /\ Counted'
      /\ passed' = IF ok THEN passed \cup {u} ELSE passed
      /\ failed' = IF ok THEN failed ELSE failed \cup {u}
  BY <1>1, <1>3, RecordEnds DEF IInv, Fixtures
<1>5. Cardinality(running') <= parallel_jobs
  <2>1. IsFiniteSet(1..Len(work))
    BY <1>2, FS_Interval
  <2>2. IsFiniteSet(running) /\ running \subseteq 1..Len(work) /\ Cardinality(running) <= parallel_jobs
    BY <2>1, <1>2, FS_Subset DEF IInv, TypeOK
  <2>3. Cardinality(running) \in Nat /\ Cardinality(running \ {j}) = Cardinality(running) - 1
    BY <2>2, <1>1, FS_RemoveElement, FS_CardinalityType
  <2> QED
    BY <2>2, <2>3, <1>1, <1>2
<1>6. TypeOK'
  <2>1. u \in Units /\ passed' \subseteq Units /\ failed' \subseteq Units
    BY <1>2, <1>4 DEF Units, IInv, TypeOK
  <2>2. reported' \in Nat
    BY <1>1 DEF Record, IInv, TypeOK
  <2> QED
    BY <2>1, <2>2, <1>1, <1>5, PlanFixed DEF IInv, TypeOK
<1>7. Phases'
  BY <1>1, <1>2, PlanFixed DEF IInv, Phases
<1>8. SetupsEnded' /\ TeardownsEnded'
  BY <1>1, <1>4, PlanFixed DEF IInv, SetupsEnded, SetupBehind, TeardownsEnded, TeardownBehind
<1>9. TestsEnded'
  <2>1. ASSUME NEW i \in DOMAIN work PROVE <<"test", i>> \in Ended' <=> i < next /\ i \notin running'
    <3>1. <<"test", i>> \in Ended <=> i < next /\ i \notin running
      BY DEF IInv, TestsEnded
    <3>2. <<"test", i>> = u <=> i = j
      OBVIOUS
    <3>3. j < next
      BY <1>1, <1>2
    <3> QED
      BY <3>1, <3>2, <3>3, <1>1, <1>4
  <2> QED
    BY <2>1, <1>1, <1>2, PlanFixed DEF TestsEnded
<1>10. Fixtures'
  BY <1>1, <1>4 DEF IInv, Fixtures
<1>11. Seeding'
  BY <1>1, <1>4, PlanFixed DEF IInv, Seeding
<1>12. Exited'
  BY <1>1, <1>2 DEF IInv, Exited, Phases
<1> QED
  BY <1>4, <1>6, <1>7, <1>8, <1>9, <1>10, <1>11, <1>12 DEF IInv

LEMMA NextIInv == ASSUME IInv, [Next]_vars PROVE IInv'
<1>1. CASE UNCHANGED vars
  <2>1. UNCHANGED plan /\ Ended' = Ended
    BY <1>1 DEF vars, results, Ended
  <2> QED
    BY <1>1, <2>1, PlanFixed DEF vars, tests, fixtures, results, IInv, TypeOK, Phases, SetupsEnded,
       SetupBehind, TeardownsEnded, TeardownBehind, TestsEnded, Fixtures, Seeding, Counted, Exited
<1>2. CASE Next
  BY <1>2, CollectStep, RunSetupStep, RunTeardownStep, SkipDirStep, EndOfLoopStep, StartTestStep,
     EndTestStep, TestsDrainedStep, FlushStep, ExitStep DEF Next, Step, Fixture
<1> QED
  BY <1>1, <1>2

LEMMA Invariance == Spec => []IInv
BY InitIInv, NextIInv, PTL DEF Spec

-----------------------------------------------------------------------------
(* Theorems                                                                *)

\* Type correctness of run_tests: in particular buffer_unordered never holds more
\* than parallel_jobs tests, whatever --parallel says.
THEOREM TypeCorrect == Spec => []TypeOK
<1>1. IInv => TypeOK
  BY DEF IInv
<1> QED
  BY <1>1, Invariance, PTL

LEMMA SetUpInv == IInv => PassedTestsWereSetUp
<1> SUFFICES ASSUME IInv, NEW i \in DOMAIN work, <<"test", i>> \in passed, work[i].dir \in setups
             PROVE  <<"setup", work[i].dir>> \in passed /\ i \in seeded
  BY DEF PassedTestsWereSetUp
<1>1. <<"test", i>> \in Ended
  BY DEF Ended
<1>2. i < next /\ work[i].dir \in Dirs /\ work[i].dir \in active_dirs \cap setups
  BY <1>1, PlanType DEF IInv, TypeOK, TestsEnded, active_dirs
<1>3. phase \in {"tests", "teardown", "flush"}
  <2>1. phase \in {"collect", "setup"} => next = 1
    BY DEF IInv, Phases
  <2>2. i >= 1 /\ i \in Nat
    BY PlanType DEF IInv, TypeOK
  <2> QED
    BY <2>1, <2>2, <1>2 DEF IInv, TypeOK
<1>4. <<"setup", work[i].dir>> \in Ended
  BY <1>2, <1>3 DEF IInv, SetupsEnded, SetupBehind
<1>5. ~work[i].error /\ work[i].dir \notin dirs_setup_failed
  BY DEF IInv, Seeding
<1>6. <<"setup", work[i].dir>> \in passed
  BY <1>2, <1>4, <1>5 DEF IInv, Fixtures, Ended
<1> QED
  BY <1>2, <1>5, <1>6 DEF IInv, Fixtures, Seeding

\* A test passes only in an environment its directory's set-up prepared, and with
\* that set-up's variables (item_skipped_by_setup, dir_setup_vars).
THEOREM SetUpCorrect == Spec => []PassedTestsWereSetUp
BY SetUpInv, Invariance, PTL

LEMMA TeardownInv == IInv => TeardownsLast
<1> SUFFICES ASSUME IInv, NEW d \in Dirs, <<"teardown", d>> \in Ended, NEW i \in DOMAIN work
             PROVE  <<"test", i>> \in Ended
  BY DEF TeardownsLast
<1>1. phase \in {"teardown", "flush"}
  BY DEF IInv, TeardownsEnded, TeardownBehind
<1>2. next = Len(work) + 1 /\ running = {}
  BY <1>1 DEF IInv, Phases
<1>3. i < next
  BY <1>2, PlanType DEF IInv, TypeOK
<1> QED
  BY <1>2, <1>3 DEF IInv, TestsEnded

\* No tear-down runs while a test is in flight or still to come, at any degree of
\* parallelism (run_tests collects the stream before the tear-down loop).
THEOREM TeardownCorrect == Spec => []TeardownsLast
BY TeardownInv, Invariance, PTL

\* Set-ups come before the tests that pass and tear-downs after all tests, at any
\* parallelism.
THEOREM FixturesCorrect == Spec => []FixturesBracketTests
BY SetUpCorrect, TeardownCorrect, PTL DEF FixturesBracketTests

\* Once the reports are due every unit has ended.
LEMMA AllEnded ==
    ASSUME IInv, phase = "flush"
    PROVE  /\ \A i \in DOMAIN work : <<"test", i>> \in Ended
           /\ Ended = ({"setup"} \X (active_dirs \cap setups)) \cup ({"test"} \X DOMAIN work)
                      \cup ({"teardown"} \X (active_dirs \cap teardowns))
<1>1. next = Len(work) + 1 /\ running = {} /\ Len(work) \in Nat /\ DOMAIN work = 1..Len(work)
  BY PlanType DEF IInv, TypeOK, Phases
<1>2. ASSUME NEW i \in DOMAIN work PROVE <<"test", i>> \in Ended
  <2>1. i < next /\ i \notin running
    BY <1>1
  <2> QED
    BY <2>1 DEF IInv, TestsEnded
<1>3. \A d \in Dirs : /\ <<"setup", d>> \in Ended <=> d \in active_dirs \cap setups
                      /\ <<"teardown", d>> \in Ended <=> d \in active_dirs \cap teardowns
  BY DEF IInv, SetupsEnded, SetupBehind, TeardownsEnded, TeardownBehind
<1>4. active_dirs \subseteq Dirs
  BY PlanType DEF IInv, TypeOK
<1>5. Ended \subseteq Units
  BY DEF IInv, TypeOK, Ended
<1>6. ASSUME NEW u \in Ended
      PROVE  u \in ({"setup"} \X (active_dirs \cap setups)) \cup ({"test"} \X DOMAIN work)
                   \cup ({"teardown"} \X (active_dirs \cap teardowns))
  <2>1. CASE u \in {"setup", "teardown"} \X Dirs
    <3>1. PICK d \in Dirs : u = <<"setup", d>> \/ u = <<"teardown", d>>
      BY <2>1
    <3>2. CASE u = <<"setup", d>>
      BY <3>2, <1>3
    <3>3. CASE u = <<"teardown", d>>
      BY <3>3, <1>3
    <3> QED
      BY <3>1, <3>2, <3>3
  <2>2. CASE u \in {"test"} \X DOMAIN work
    BY <2>2
  <2> QED
    BY <2>1, <2>2, <1>5 DEF Units
<1>7. ASSUME NEW d \in active_dirs \cap setups PROVE <<"setup", d>> \in Ended
  BY <1>3, <1>4
<1>8. ASSUME NEW d \in active_dirs \cap teardowns PROVE <<"teardown", d>> \in Ended
  BY <1>3, <1>4
<1> QED
  BY <1>2, <1>6, <1>7, <1>8

LEMMA TaggedCardinality ==
    ASSUME NEW S, IsFiniteSet(S), NEW tag
    PROVE  IsFiniteSet({tag} \X S) /\ Cardinality({tag} \X S) = Cardinality(S)
<1>1. IsFiniteSet({tag}) /\ Cardinality({tag}) = 1
  BY FS_Singleton
<1>2. IsFiniteSet({tag} \X S) /\ Cardinality({tag} \X S) = Cardinality({tag}) * Cardinality(S)
  BY <1>1, FS_Product
<1>3. Cardinality(S) \in Nat
  BY FS_CardinalityType
<1> QED
  BY <1>1, <1>2, <1>3

LEMMA ReportedInv == IInv => EveryUnitReported
<1> SUFFICES ASSUME IInv, phase = "flush"
             PROVE  /\ reported = total_reported
                    /\ {"teardown"} \X (active_dirs \cap teardowns) \subseteq Ended
  BY DEF EveryUnitReported
<1> DEFINE S == active_dirs \cap setups
           T == active_dirs \cap teardowns
           A == {"setup"} \X S
           B == {"test"} \X DOMAIN work
           C == {"teardown"} \X T
<1>1. Ended = A \cup B \cup C
  BY AllEnded
<1>2. Len(work) \in Nat /\ DOMAIN work = 1..Len(work) /\ active_dirs \subseteq 1..NumDirs /\ NumDirs \in Nat
  BY PlanType DEF IInv, TypeOK, Dirs
<1>3. IsFiniteSet(1..NumDirs) /\ IsFiniteSet(DOMAIN work) /\ Cardinality(DOMAIN work) = Len(work)
  <2>1. ASSUME NEW n \in Nat PROVE IsFiniteSet(1..n) /\ Cardinality(1..n) = n
    <3>1. IsFiniteSet(1..n) /\ Cardinality(1..n) = IF 1 > n THEN 0 ELSE n - 1 + 1
      BY FS_Interval
    <3> QED
      BY <3>1
  <2> QED
    BY <1>2, <2>1
<1>4. IsFiniteSet(S) /\ IsFiniteSet(T)
  BY <1>2, <1>3, FS_Subset
<1>5. /\ IsFiniteSet(A) /\ Cardinality(A) = Cardinality(S)
      /\ IsFiniteSet(B) /\ Cardinality(B) = Len(work)
      /\ IsFiniteSet(C) /\ Cardinality(C) = Cardinality(T)
  BY <1>3, <1>4, TaggedCardinality
<1>6. A \cap B = {} /\ (A \cup B) \cap C = {}
  OBVIOUS
<1>7. Cardinality(S) \in Nat /\ Cardinality(T) \in Nat
  BY <1>4, FS_CardinalityType
<1>8. reported = Cardinality(Ended)
  BY DEF IInv, Counted
<1> HIDE DEF A, B, C
<1>9. IsFiniteSet(A \cup B) /\ Cardinality(A \cup B) = Cardinality(A) + Cardinality(B) - Cardinality(A \cap B)
  BY <1>5, FS_Union
<1>10. Cardinality(A \cup B \cup C) = Cardinality(A \cup B) + Cardinality(C) - Cardinality((A \cup B) \cap C)
  BY <1>5, <1>9, FS_Union
<1>11. Cardinality({}) = 0
  BY FS_EmptySet
<1>12. Cardinality(A \cup B) = Cardinality(S) + Len(work)
  <2>1. Cardinality(A \cap B) = 0
    BY <1>6, <1>11
  <2>2. Cardinality(A \cup B) = Cardinality(S) + Len(work) - 0
    BY <2>1, <1>5, <1>9
  <2> QED
    BY <2>2, <1>2, <1>7
<1>13. Cardinality(A \cup B \cup C) = Cardinality(S) + Len(work) + Cardinality(T)
  <2>1. Cardinality((A \cup B) \cap C) = 0
    BY <1>6, <1>11
  <2>2. Cardinality(A \cup B \cup C) = Cardinality(S) + Len(work) + Cardinality(T) - 0
    BY <2>1, <1>5, <1>10, <1>12
  <2> QED
    BY <2>2, <1>2, <1>7
<1>14. reported = Len(work) + Cardinality(S) + Cardinality(T)
  BY <1>1, <1>2, <1>7, <1>8, <1>13
<1> QED
  BY <1>1, <1>14 DEF total_reported, C

\* The total announced before anything has run (run_tests' total_reported) is what
\* the reporters are told of, whatever is skipped or fails.
THEOREM ReportedCorrect == Spec => []EveryUnitReported
BY ReportedInv, Invariance, PTL

LEMMA ExitInv == IInv => ExitCodeTells
<1> SUFFICES ASSUME IInv, exit_code # "none"
             PROVE  exit_code = "0" <=> /\ work # <<>> /\ failed = {} /\ flushed = NumReporters
                                       /\ {"test"} \X DOMAIN work \subseteq passed
  BY DEF ExitCodeTells
<1>1. CASE exit_code = "0"
  <2>1. phase = "flush" /\ flushed = NumReporters /\ failed = {}
    BY <1>1 DEF IInv, Exited
  <2>2. work # <<>>
    BY <2>1 DEF IInv, Phases
  <2>3. {"test"} \X DOMAIN work \subseteq passed
    BY <2>1, AllEnded DEF Ended
  <2> QED
    BY <1>1, <2>1, <2>2, <2>3
<1>2. CASE exit_code = "1"
  <2>1. work = <<>> \/ flushed < NumReporters \/ failed # {}
    BY <1>2 DEF IInv, Exited
  <2>2. flushed \in Nat /\ NumReporters \in Nat
    BY PlanType DEF IInv, TypeOK
  <2> QED
    BY <1>2, <2>1, <2>2
<1> QED
  BY <1>1, <1>2 DEF IInv, TypeOK

\* The process exits with 0 exactly when something ran, everything passed and every
\* report was written.
THEOREM ExitCorrect == Spec => []ExitCodeTells
BY ExitInv, Invariance, PTL

\* What is reported and the exit code are true of the run, for any suite.
THEOREM ReportCorrect == Spec => []ReportTells
BY ReportedCorrect, ExitCorrect, PTL DEF ReportTells

-----------------------------------------------------------------------------
(* The run implements SuiteSpec                                            *)

LEMMA InitPromise == Init => Promise!Init
BY PlanType DEF Init, Promise!Init, WorkItem, Promise!WorkItem

\* A unit that ends here ends in the specification.
LEMMA EndPromise ==
    ASSUME NEW u \in Promise!Units, NEW ok \in BOOLEAN, Record(u, ok),
           exit_code = "none", u \notin Ended, Promise!Before(u) \subseteq Ended,
           ok => ~Promise!Doomed(u),
           UNCHANGED <<work, setups, teardowns, exit_code>>
    PROVE  Promise!Next
<1>1. Promise!End(u)
  BY DEF Promise!End, Promise!Ended, Ended, Record
<1> QED
  BY <1>1 DEF Promise!Next

LEMMA UnitsPromise ==
    /\ Promise!Active = active_dirs
    /\ \A d : <<"setup", d>> \notin Promise!Tests /\ <<"setup", d>> \notin Promise!Teardowns
    /\ \A d : <<"teardown", d>> \notin Promise!Tests /\ <<"teardown", d>> \notin Promise!Setups
    /\ \A i : <<"test", i>> \notin Promise!Setups /\ <<"test", i>> \notin Promise!Teardowns
BY DEF Promise!Active, active_dirs, Promise!Setups, Promise!Tests, Promise!Teardowns

LEMMA StepPromise == ASSUME IInv, [Next]_vars PROVE [Promise!Next]_(Promise!vars)
<1>1. CASE Collect
  <2>1. CASE work = <<>>
    <3>1. active_dirs = {} /\ DOMAIN work = {}
      BY <2>1 DEF active_dirs
    <3>2. Promise!Units = {}
      BY <3>1, UnitsPromise DEF Promise!Units, Promise!Setups, Promise!Tests, Promise!Teardowns
    <3>3. Promise!Exit
      BY <1>1, <2>1, <3>2 DEF Collect, Promise!Exit, plan, results
    <3> QED
      BY <3>3 DEF Promise!Next
  <2>2. CASE work # <<>>
    BY <1>1, <2>2 DEF Collect, plan, results, Promise!vars
  <2> QED
    BY <2>1, <2>2
<1>2. ASSUME NEW ok \in BOOLEAN, RunSetup(ok) PROVE Promise!Next
  <2> DEFINE u == <<"setup", dir>>
  <2>1. /\ phase = "setup" /\ dir \in active_dirs \cap setups /\ Record(u, ok)
        /\ UNCHANGED <<work, setups, teardowns, exit_code>>
    BY <1>2 DEF RunSetup, plan
  <2>2. u \in Promise!Setups /\ u \in Promise!Units
    BY <2>1, UnitsPromise DEF Promise!Setups, Promise!Units
  <2>3. Promise!Before(u) = {} /\ ~Promise!Doomed(u)
    BY <2>2, UnitsPromise DEF Promise!Before, Promise!Doomed
  <2>4. exit_code = "none" /\ dir \in Dirs
    BY <2>1, PlanType DEF IInv, TypeOK, Phases
  <2>5. u \notin Ended
    BY <2>1, <2>4, PlanType DEF IInv, SetupsEnded, SetupBehind, TypeOK, Dirs
  <2> QED
    BY <2>1, <2>2, <2>3, <2>4, <2>5, EndPromise
<1>3. ASSUME NEW ok \in BOOLEAN, RunTeardown(ok) PROVE Promise!Next
  <2> DEFINE u == <<"teardown", dir>>
  <2>1. /\ phase = "teardown" /\ dir \in active_dirs \cap teardowns /\ Record(u, ok)
        /\ UNCHANGED <<work, setups, teardowns, exit_code>>
    BY <1>3 DEF RunTeardown, plan
  <2>2. u \in Promise!Teardowns /\ u \in Promise!Units
    BY <2>1, UnitsPromise DEF Promise!Teardowns, Promise!Units
  <2>3. Promise!Before(u) = Promise!Setups \cup Promise!Tests /\ ~Promise!Doomed(u)
    BY <2>2, UnitsPromise DEF Promise!Before, Promise!Doomed
  <2>4. exit_code = "none" /\ dir \in Dirs /\ active_dirs \subseteq Dirs
    BY <2>1, PlanType DEF IInv, TypeOK, Phases
  <2>5. u \notin Ended
    BY <2>1, <2>4, PlanType DEF IInv, TeardownsEnded, TeardownBehind, TypeOK, Dirs
  <2>6. Promise!Setups \subseteq Ended
    BY <2>1, <2>4, UnitsPromise DEF IInv, SetupsEnded, SetupBehind, Promise!Setups
  <2>7. Promise!Tests \subseteq Ended
    <3>1. next = Len(work) + 1 /\ running = {}
      BY <2>1 DEF IInv, Phases
    <3>2. \A i \in DOMAIN work : i < next
      BY <3>1, PlanType DEF IInv, TypeOK
    <3> QED
      BY <3>1, <3>2 DEF IInv, TestsEnded, Promise!Tests
  <2> QED
    BY <2>1, <2>2, <2>3, <2>4, <2>5, <2>6, <2>7, EndPromise
<1>4. ASSUME NEW j \in DOMAIN work, NEW ok \in BOOLEAN, EndTest(j, ok) PROVE Promise!Next
  <2> DEFINE u == <<"test", j>>
  <2>1. /\ j \in running /\ Record(u, ok) /\ UNCHANGED <<work, setups, teardowns, exit_code>>
        /\ ok => ~work[j].error /\ work[j].dir \notin dirs_setup_failed
    BY <1>4 DEF EndTest, item_skipped_by_setup, plan
  <2>2. u \in Promise!Tests /\ u \in Promise!Units
    BY DEF Promise!Tests, Promise!Units
  <2>3. Promise!Before(u) = Promise!Setups
    BY <2>2, UnitsPromise DEF Promise!Before
  <2>4. phase = "tests" /\ exit_code = "none" /\ active_dirs \subseteq Dirs /\ work[j].dir \in Dirs
    BY <2>1, PlanType DEF IInv, TypeOK, Phases
  <2>5. u \notin Ended
    BY <2>1 DEF IInv, TestsEnded
  <2>6. Promise!Setups \subseteq Ended
    BY <2>4, UnitsPromise DEF IInv, SetupsEnded, SetupBehind, Promise!Setups
  <2>7. ok => ~Promise!Doomed(u)
    BY <2>1, <2>4 DEF Promise!Doomed, IInv, Fixtures
  <2> QED
    BY <2>1, <2>2, <2>3, <2>4, <2>5, <2>6, <2>7, EndPromise
<1>5. ASSUME phase = "flush", exit_code = "none", exit_code' \in {"0", "1"},
             exit_code' = "0" => failed = {}, UNCHANGED <<work, setups, teardowns, passed, failed>>
      PROVE  Promise!Next
  <2>1. Promise!Units \subseteq Promise!Ended
    BY <1>5, AllEnded, UnitsPromise
       DEF Promise!Units, Promise!Setups, Promise!Tests, Promise!Teardowns, Promise!Ended, Ended
  <2>2. work # <<>>
    BY <1>5 DEF IInv, Phases
  <2>3. Promise!Exit
    BY <1>5, <2>1, <2>2 DEF Promise!Exit
  <2> QED
    BY <2>3 DEF Promise!Next
<1>6. ASSUME NEW ok \in BOOLEAN, Flush(ok) PROVE [Promise!Next]_(Promise!vars)
  BY <1>5, <1>6 DEF Flush, plan, results, Promise!vars
<1>7. CASE Exit
  BY <1>5, <1>7 DEF Exit, plan, results
<1>8. CASE SkipDir \/ EndOfLoop \/ StartTest \/ TestsDrained \/ UNCHANGED vars
  BY <1>8 DEF SkipDir, EndOfLoop, StartTest, TestsDrained, vars, plan, results, Promise!vars
<1> QED
  BY <1>1, <1>2, <1>3, <1>4, <1>6, <1>7, <1>8 DEF Next, Step, Fixture

\* run_tests implements SuiteSpec: whatever the schedule of the stream, each unit
\* ends once and in its turn, a doomed test fails, and the exit code is a verdict on
\* all of them.
THEOREM PromiseCorrect == Spec => PromiseKept
BY InitPromise, StepPromise, Invariance, PTL DEF Spec, PromiseKept, Promise!Spec

-----------------------------------------------------------------------------
(* TestRun, one unit of the suite: the inductive invariant                 *)

\* Where the control is says how far the counters are.
Control ==
    /\ pc = "load" => attempt = 0 /\ log = {}
    /\ pc = "attempt" => attempt <= max_retries
    /\ pc \in {"run", "judge"} => attempt >= 1
    /\ pc = "run" => current \in DOMAIN chain
    /\ pc # "done" => result = "none" /\ file = NoResponse

\* A run in the log is of this or an earlier attempt, and of a document passed.
Logged == \A r \in log : r.attempt \in 1..attempt /\ (r.attempt = attempt => r.doc < current)

\* While an attempt goes on it knows only the seed and its own documents.
OwnVariables ==
    pc = "run" => \A n \in DOMAIN variables :
        variables[n].attempt = 0 \/ (variables[n].attempt = attempt /\ variables[n].doc < current)

\* An attempt that goes on has failed nowhere, one that is judged a success has
\* been through the whole chain.
Passed(d) == \E r \in log : r.attempt = attempt /\ r.doc = d /\ ~Fails(r.cause)
Progress ==
    /\ pc = "run" =>
        /\ \A d \in 1..(current - 1) : Passed(d)
        /\ \A r \in log : r.attempt = attempt => ~Fails(r.cause)
    /\ pc = "judge" /\ ~acc.failed => \A d \in DOMAIN chain : Passed(d)

\* An attempt about to be given up has a reason on record.
Reason(a) == \E r \in log : r.attempt = a /\ r.cause = "transport" /\ r.code
Reasons == pc = "judge" /\ should_retry_result => Reason(attempt)

\* The response held is the last the attempt heard, and there is one when it heard any.
Heard == {r \in log : r.attempt = attempt /\ r.cause \in {"clean", "mismatch", "transport"}}
LastHeard(response) == response \in Heard /\ \A r \in Heard : r.doc <= response.doc
Buffered ==
    pc \in {"run", "judge"} =>
        /\ acc.response # NoResponse => buffering /\ LastHeard(acc.response)
        /\ acc.response = NoResponse /\ buffering => Heard = {}

TestIInv ==
    /\ TestTypeOK /\ Control /\ Logged /\ OwnVariables /\ Progress /\ Reasons /\ Buffered
    /\ VariablesFlowForward /\ PassMeansWholeChain /\ RetriedForTransportAlone
    /\ SnapshotOfLastAttempt

-----------------------------------------------------------------------------
(* Lemmas                                                                  *)

LEMMA HeadOfNats == ASSUME NEW s \in Seq(Nat), s # <<>> PROVE Head(s) \in Nat
OBVIOUS

\* Whoever speaks, the number of retries is a number.
LEMMA RetriesType == ASSUME settings \in Settings PROVE max_retries \in Nat
<1> DEFINE said == settings.retry
           all == said[1] \o said[2] \o <<said[3]>>
<1>1. settings \in Setting
  BY TestRunAssumption
<1>2. said \in Said(Nat) \X Said(Nat) \X Nat
  BY <1>1 DEF Setting
<1>3. said[1] \in Seq(Nat) /\ said[2] \in Seq(Nat) /\ said[3] \in Nat
  BY <1>2 DEF Said
<1>4. all \in Seq(Nat) /\ all # <<>>
  BY <1>3
<1>5. Head(all) \in Nat
  <2> HIDE DEF all
  <2> QED BY <1>4, HeadOfNats
<1> QED
  BY <1>5 DEF max_retries, Effective

\* A chain has a first document.
LEMMA ChainType ==
    ASSUME chain \in Chains
    PROVE  /\ chain \in Seq(Document) /\ Len(chain) \in Nat /\ Len(chain) >= 1
           /\ DOMAIN chain = 1..Len(chain)
<1>1. chain \in Seq(Document) /\ chain # <<>>
  BY TestRunAssumption
<1> QED
  BY <1>1

-----------------------------------------------------------------------------
(* Initial states                                                          *)

LEMMA TestInitIInv == TestInit => TestIInv
<1> SUFFICES ASSUME TestInit PROVE TestIInv
  OBVIOUS
<1> USE DEF TestInit
<1>1. max_retries \in Nat
  BY RetriesType
<1>2. Len(chain) \in Nat /\ Len(chain) >= 1
  BY ChainType
<1>3. settings.seeds \in SUBSET Names
  BY TestRunAssumption DEF Setting
<1>4. TestTypeOK
  BY <1>1, <1>2, <1>3 DEF TestTypeOK, Seeded, Binding, Fresh
<1>5. Control /\ Logged /\ OwnVariables /\ Progress /\ Reasons /\ Buffered
  BY DEF Control, Logged, OwnVariables, Progress, Reasons, Buffered
<1>6. VariablesFlowForward /\ PassMeansWholeChain /\ RetriedForTransportAlone /\ SnapshotOfLastAttempt
  BY DEF VariablesFlowForward, PassMeansWholeChain, RetriedForTransportAlone, SnapshotOfLastAttempt
<1> QED
  BY <1>4, <1>5, <1>6 DEF TestIInv

-----------------------------------------------------------------------------
(* Steps                                                                   *)

\* What every step may assume.
LEMMA Bounds ==
    ASSUME TestTypeOK
    PROVE  /\ max_retries \in Nat /\ attempt \in Nat /\ current \in Nat \ {0}
           /\ Len(chain) \in Nat /\ Len(chain) >= 1 /\ DOMAIN chain = 1..Len(chain)
BY RetriesType, ChainType DEF TestTypeOK

LEMMA LoadStep == ASSUME TestIInv, NEW ok \in BOOLEAN, Load(ok) PROVE TestIInv'
<1> USE DEF Load, testPlan
<1>1. max_retries' = max_retries /\ buffering' = buffering /\ \A c : Fails(c)' = Fails(c)
  BY DEF max_retries, Effective, buffering, Fails
<1>2. TestTypeOK'
  BY <1>1 DEF TestIInv, TestTypeOK
<1>3. attempt = 0 /\ log = {} /\ file = NoResponse /\ result = "none"
  BY DEF TestIInv, Control
<1>4. Control'
  BY <1>1, <1>3, Bounds DEF TestIInv, Control
<1>5. Logged' /\ OwnVariables' /\ Progress' /\ Reasons' /\ Buffered'
  BY <1>3 DEF Logged, OwnVariables, Progress, Reasons, Buffered
<1>6. VariablesFlowForward' /\ PassMeansWholeChain' /\ RetriedForTransportAlone' /\ SnapshotOfLastAttempt'
  BY <1>3 DEF VariablesFlowForward, PassMeansWholeChain, RetriedForTransportAlone, SnapshotOfLastAttempt
<1> QED
  BY <1>2, <1>4, <1>5, <1>6 DEF TestIInv

LEMMA BeginAttemptStep == ASSUME TestIInv, BeginAttempt PROVE TestIInv'
<1> USE DEF BeginAttempt, testPlan
<1>1. max_retries' = max_retries /\ buffering' = buffering /\ \A c : Fails(c)' = Fails(c)
  BY DEF max_retries, Effective, buffering, Fails
<1>2. /\ max_retries \in Nat /\ attempt \in Nat /\ attempt <= max_retries
      /\ Len(chain) \in Nat /\ Len(chain) >= 1 /\ DOMAIN chain = 1..Len(chain)
      /\ result = "none" /\ file = NoResponse
  BY Bounds DEF TestIInv, Control
<1>3. settings.seeds \in SUBSET Names
  BY TestRunAssumption DEF TestIInv, TestTypeOK, Setting
<1>4. TestTypeOK'
  <2>1. attempt' \in 0..(max_retries' + 1) /\ current' \in 1..(Len(chain') + 1)
    BY <1>1, <1>2
  <2>2. DOMAIN variables' \subseteq Names /\ \A n \in DOMAIN variables' : variables'[n] \in Binding
    BY <1>3 DEF Seeded, Binding
  <2> QED
    BY <2>1, <2>2, <1>1 DEF TestIInv, TestTypeOK, Fresh
<1>5. \A r \in log : r.attempt \in 1..attempt
  BY DEF TestIInv, Logged
<1>6. Control' /\ Logged'
  BY <1>1, <1>2, <1>5 DEF Control, Logged
<1>7. OwnVariables'
  BY DEF OwnVariables, Seeded
<1>8. Progress'
  BY <1>2, <1>5 DEF Progress
<1>9. Reasons' /\ Buffered'
  <2>1. Heard' = {}
    BY <1>2, <1>5 DEF Heard
  <2> QED
    BY <2>1 DEF Reasons, Buffered, Fresh
<1>10. VariablesFlowForward'
  BY DEF TestIInv, VariablesFlowForward
<1>11. PassMeansWholeChain'
  BY <1>1, <1>2 DEF TestIInv, PassMeansWholeChain
<1>12. RetriedForTransportAlone'
  BY <1>2 DEF TestIInv, RetriedForTransportAlone
<1>13. SnapshotOfLastAttempt'
  BY <1>2 DEF SnapshotOfLastAttempt
<1> QED
  BY <1>4, <1>6, <1>7, <1>8, <1>9, <1>10, <1>11, <1>12, <1>13 DEF TestIInv

LEMMA RunErrorStep == ASSUME TestIInv, RunError PROVE TestIInv'
<1> USE DEF RunError, testPlan
<1>1. max_retries' = max_retries /\ buffering' = buffering /\ \A c : Fails(c)' = Fails(c)
  BY DEF max_retries, Effective, buffering, Fails
<1>2. file = NoResponse /\ TestTypeOK /\ Logged
  BY DEF TestIInv, Control
<1>3. TestTypeOK' /\ Control' /\ Logged'
  BY <1>1, <1>2 DEF TestTypeOK, Control, Logged
<1>4. OwnVariables' /\ Progress' /\ Reasons' /\ Buffered'
  BY DEF OwnVariables, Progress, Reasons, Buffered
<1>5. VariablesFlowForward' /\ PassMeansWholeChain' /\ RetriedForTransportAlone' /\ SnapshotOfLastAttempt'
  BY <1>1, <1>2 DEF TestIInv, VariablesFlowForward, PassMeansWholeChain, RetriedForTransportAlone,
                    SnapshotOfLastAttempt
<1> QED
  BY <1>3, <1>4, <1>5 DEF TestIInv

LEMMA RetryStep == ASSUME TestIInv, Retry PROVE TestIInv'
<1> USE DEF Retry, testPlan
<1>1. max_retries' = max_retries /\ buffering' = buffering /\ \A c : Fails(c)' = Fails(c)
  BY DEF max_retries, Effective, buffering, Fails
<1>2. file = NoResponse /\ result = "none" /\ attempt >= 1 /\ Reason(attempt) /\ attempt \in Nat
  BY Bounds DEF TestIInv, Control, Reasons
<1>3. TestTypeOK' /\ Control' /\ Logged'
  BY <1>1, <1>2 DEF TestIInv, TestTypeOK, Control, Logged
<1>4. OwnVariables' /\ Progress' /\ Reasons' /\ Buffered'
  BY DEF OwnVariables, Progress, Reasons, Buffered
<1>5. VariablesFlowForward' /\ PassMeansWholeChain' /\ SnapshotOfLastAttempt'
  BY <1>1, <1>2 DEF TestIInv, VariablesFlowForward, PassMeansWholeChain, SnapshotOfLastAttempt
<1>6. RetriedForTransportAlone'
  BY <1>2 DEF TestIInv, RetriedForTransportAlone, Reason
<1> QED
  BY <1>3, <1>4, <1>5, <1>6 DEF TestIInv

LEMMA ConcludeStep == ASSUME TestIInv, NEW ok \in BOOLEAN, Conclude(ok) PROVE TestIInv'
<1> USE DEF Conclude, testPlan
<1>1. max_retries' = max_retries /\ buffering' = buffering /\ \A c : Fails(c)' = Fails(c)
  BY DEF max_retries, Effective, buffering, Fails
<1>2. file = NoResponse /\ TestTypeOK /\ Logged /\ Buffered /\ Progress
  BY DEF TestIInv, Control
<1>3. TestTypeOK' /\ Control' /\ Logged'
  BY <1>1, <1>2 DEF TestTypeOK, Control, Logged
<1>4. OwnVariables' /\ Progress' /\ Reasons' /\ Buffered'
  BY DEF OwnVariables, Progress, Reasons, Buffered
<1>5. VariablesFlowForward' /\ RetriedForTransportAlone'
  BY <1>2 DEF TestIInv, VariablesFlowForward, RetriedForTransportAlone
<1>6. PassMeansWholeChain'
  BY <1>1, <1>2 DEF TestIInv, PassMeansWholeChain, Progress, Passed
<1>7. SnapshotOfLastAttempt'
  <2>1. pc = "judge" /\ pc' = "done" /\ Heard' = Heard /\ settings' = settings
    BY DEF Heard
  <2>2. file' # NoResponse =>
            file' = acc.response /\ acc.response # NoResponse /\ settings.unit = "file"
    BY <1>2
  <2>3. result' = "pass" /\ settings.unit = "file" /\ acc.response # NoResponse => file' = acc.response
    BY <1>2
  <2>4. /\ acc.response # NoResponse => LastHeard(acc.response)
        /\ acc.response = NoResponse /\ buffering => Heard = {}
    BY <1>2, <2>1 DEF Buffered
  <2>5. file' # NoResponse => /\ pc' = "done" /\ settings'.unit = "file"
                             /\ file' \in Heard' /\ \A r \in Heard' : r.doc <= file'.doc
    BY <2>1, <2>2, <2>4 DEF LastHeard
  <2>6. result' = "pass" /\ settings'.unit = "file" /\ buffering' /\ Heard' # {} => file' # NoResponse
    BY <1>1, <2>1, <2>3, <2>4
  <2> QED
    BY <2>5, <2>6 DEF SnapshotOfLastAttempt, Heard, NoResponse
<1> QED
  BY <1>3, <1>4, <1>5, <1>6, <1>7 DEF TestIInv

\* The run of a document that RunDocument logs.
ThisRun(cause, code) ==
    [attempt |-> attempt, doc |-> current, cause |-> cause, code |-> code,
     from |-> {variables[n] : n \in chain[current].uses \cap DOMAIN variables}]

LEMMA RunDocumentStep ==
    ASSUME TestIInv, NEW cause \in Causes, NEW bound \in SUBSET Names, NEW code \in BOOLEAN,
           RunDocument(cause, bound, code)
    PROVE  TestIInv'
<1> DEFINE run == ThisRun(cause, code)
<1>1. max_retries' = max_retries /\ buffering' = buffering /\ \A c : Fails(c)' = Fails(c)
  BY DEF max_retries, Effective, buffering, Fails, RunDocument, testPlan
<1>2. /\ max_retries \in Nat /\ attempt \in Nat /\ attempt >= 1 /\ current \in Nat /\ current \in 1..Len(chain)
      /\ Len(chain) \in Nat /\ Len(chain) >= 1 /\ DOMAIN chain = 1..Len(chain)
      /\ result = "none" /\ file = NoResponse /\ pc = "run"
  BY Bounds DEF TestIInv, Control, RunDocument
<1>3. /\ log' = log \cup {run} /\ acc' = Absorbed(run) /\ current' = current + 1
      /\ pc' = IF Fails(cause) \/ current = Len(chain) THEN "judge" ELSE "run"
      /\ variables' = [n \in DOMAIN variables \cup bound |->
                         IF n \in bound THEN [attempt |-> attempt, doc |-> current] ELSE variables[n]]
      /\ UNCHANGED <<chain, settings, attempt, result, file>>
  BY DEF RunDocument, absorb, ThisRun, testPlan
<1>4. /\ run \in DocumentRun /\ run.attempt = attempt /\ run.doc = current
      /\ run.cause = cause /\ run.code = code
      /\ run.from = {variables[n] : n \in chain[current].uses \cap DOMAIN variables}
  <2>1. \A n \in DOMAIN variables : variables[n] \in Binding
    BY DEF TestIInv, TestTypeOK
  <2> QED
    BY <1>2, <2>1 DEF ThisRun, DocumentRun
<1> HIDE DEF run
<1>5. \A r \in log : r \in DocumentRun /\ r.attempt \in 1..attempt /\ (r.attempt = attempt => r.doc < current)
  BY DEF TestIInv, TestTypeOK, Logged
<1>6. \A r \in log : r.attempt \in Nat /\ r.doc \in Nat
  BY <1>5 DEF DocumentRun
<1>7. TestTypeOK'
  <2>1. acc'.failed \in BOOLEAN /\ acc'.kind \in {"none", "assertion", "transport"} /\ acc'.code \in BOOLEAN
    BY <1>3, <1>4 DEF Absorbed, Fails, FailureKind
  <2>2. acc'.response \in DocumentRun \cup {NoResponse}
    BY <1>3, <1>4 DEF Absorbed, LastResponse, TestIInv, TestTypeOK
  <2>3. DOMAIN variables' \subseteq Names /\ \A n \in DOMAIN variables' : variables'[n] \in Binding
    BY <1>2, <1>3 DEF TestIInv, TestTypeOK, Binding
  <2>4. current' \in 1..(Len(chain') + 1)
    <3>1. Len(chain') = Len(chain) /\ current' = current + 1
      BY <1>3
    <3> QED
      BY <3>1, <1>2
  <2>5. log' \subseteq DocumentRun
    BY <1>3, <1>4 DEF TestIInv, TestTypeOK
  <2> QED
    BY <2>1, <2>2, <2>3, <2>4, <2>5, <1>1, <1>3 DEF TestIInv, TestTypeOK
<1>8. Control'
  <2>1. pc' = "run" => current' \in DOMAIN chain'
    <3> HAVE pc' = "run"
    <3>1. current # Len(chain) /\ current' = current + 1 /\ DOMAIN chain' = 1..Len(chain)
      BY <1>2, <1>3
    <3>2. current \in Nat /\ Len(chain) \in Nat /\ current \in 1..Len(chain) /\ current # Len(chain)
      BY <1>2, <3>1
    <3>3. current + 1 \in 1..Len(chain)
      BY <3>2
    <3> QED
      BY <3>1, <3>3
  <2>2. pc' \in {"run", "judge"} /\ attempt' >= 1 /\ result' = "none" /\ file' = NoResponse
    BY <1>2, <1>3
  <2> QED
    BY <2>1, <2>2 DEF Control
<1>9. Logged'
  <2>1. ASSUME NEW r \in log' PROVE r.attempt \in 1..attempt /\ (r.attempt = attempt => r.doc < current + 1)
    <3>1. CASE r \in log
      BY <3>1, <1>2, <1>5, <1>6
    <3>2. CASE r = run
      BY <3>2, <1>2, <1>4
    <3> QED
      BY <3>1, <3>2, <1>3
  <2> QED
    BY <2>1, <1>3 DEF Logged
<1>10. OwnVariables'
  <2>1. ASSUME NEW n \in DOMAIN variables'
        PROVE  variables'[n].attempt = 0
               \/ (variables'[n].attempt = attempt /\ variables'[n].doc < current + 1)
    <3>1. CASE n \in bound
      BY <3>1, <1>2, <1>3
    <3>2. CASE n \notin bound
      <4>1. n \in DOMAIN variables /\ variables'[n] = variables[n]
        BY <3>2, <1>3
      <4>2. variables[n] \in Binding /\ (variables[n].attempt = 0
                \/ (variables[n].attempt = attempt /\ variables[n].doc < current))
        BY <4>1, <1>2 DEF TestIInv, TestTypeOK, OwnVariables
      <4> QED
        BY <4>1, <4>2, <1>2 DEF Binding
    <3> QED
      BY <3>1, <3>2
  <2> QED
    BY <2>1, <1>3 DEF OwnVariables
<1>11. (\A d \in 1..(current - 1) : Passed(d)) /\ \A r \in log : r.attempt = attempt => ~Fails(r.cause)
  BY <1>2 DEF TestIInv, Progress
<1>12. \A d : Passed(d) => Passed(d)'
  BY <1>1, <1>3 DEF Passed
<1>13. ~Fails(cause) => \E r \in log' : r.attempt = attempt /\ r.doc = current /\ ~Fails(r.cause)
  BY <1>3, <1>4
<1>14. ASSUME ~Fails(cause), NEW d \in 1..current PROVE Passed(d)'
  <2>1. CASE d = current
    BY <2>1, <1>1, <1>3, <1>13, <1>14 DEF Passed
  <2>2. CASE d \in 1..(current - 1)
    BY <2>2, <1>11, <1>12
  <2> QED
    BY <2>1, <2>2, <1>2
<1>15. ~Fails(cause) => \A r \in log' : r.attempt = attempt => ~Fails(r.cause)
  BY <1>3, <1>4, <1>11
<1>16. acc'.failed = Fails(cause)
  BY <1>3, <1>4 DEF Absorbed
<1>17. Progress'
  <2>1. pc' = "run" => ~Fails(cause)
    BY <1>3, Zenon
  <2>4. current' - 1 = current
    BY <1>2, <1>3
  <2>2. pc' = "judge" /\ ~acc'.failed => ~Fails(cause) /\ current = Len(chain)
    BY <1>3, <1>16, Zenon
  <2>3. DOMAIN chain' = 1..Len(chain)
    BY <1>2, <1>3
  <2> QED
    BY <2>1, <2>2, <2>3, <2>4, <1>1, <1>3, <1>14, <1>15 DEF Progress
<1>18. Reasons'
  <2> SUFFICES ASSUME should_retry_result' PROVE Reason(attempt)'
    BY <1>3 DEF Reasons, Reason
  <2>1. acc'.kind = "transport" /\ acc'.code
    BY DEF should_retry_result
  <2>2. cause = "transport" /\ code
    BY <2>1, <1>3, <1>4 DEF Absorbed, FailureKind
  <2> QED
    BY <2>2, <1>3, <1>4 DEF Reason
<1>19. Buffered'
  <2>1. acc'.response = IF buffering /\ Responds(cause) THEN run ELSE acc.response
    BY <1>3, <1>4 DEF Absorbed, LastResponse
  <2>2. Heard' = IF Responds(cause) THEN Heard \cup {run} ELSE Heard
    BY <1>3, <1>4 DEF Heard, Responds, Causes
  <2>3. \A r \in Heard : r.doc \in Nat /\ r.doc <= current
    BY <1>2, <1>5, <1>6 DEF Heard
  <2>4. CASE buffering /\ Responds(cause)
    <3>1. acc'.response = run /\ Heard' = Heard \cup {run}
      BY <2>1, <2>2, <2>4
    <3>2. LastHeard(acc.response)'
      BY <3>1, <2>3, <1>2, <1>4 DEF LastHeard
    <3>3. run # NoResponse
      <4>1. DOMAIN run = {"attempt", "doc", "cause", "code", "from"}
        BY <1>4 DEF DocumentRun
      <4>2. DOMAIN NoResponse = {}
        BY DEF NoResponse
      <4> QED
        BY <4>1, <4>2
    <3>4. acc'.response # NoResponse
      BY <3>1, <3>3
    <3>5. NoResponse' = NoResponse
      BY DEF NoResponse
    <3>6. buffering'
      BY <2>4, <1>1, Zenon
    <3> QED
      BY <3>2, <3>4, <3>5, <3>6 DEF Buffered
  <2>5. CASE ~buffering
    BY <2>1, <2>5, <1>1, <1>2 DEF TestIInv, Buffered
  <2>6. CASE buffering /\ ~Responds(cause)
    <3>1. acc'.response = acc.response /\ Heard' = Heard
      BY <2>1, <2>2, <2>6
    <3> QED
      BY <3>1, <2>6, <1>1, <1>2 DEF TestIInv, Buffered, LastHeard
  <2> QED
    BY <2>4, <2>5, <2>6
<1>20. VariablesFlowForward'
  <2>1. ASSUME NEW b \in run.from PROVE b.attempt = 0 \/ (b.attempt = run.attempt /\ b.doc < run.doc)
    BY <1>2, <1>4 DEF TestIInv, OwnVariables
  <2> QED
    BY <2>1, <1>3 DEF TestIInv, VariablesFlowForward
<1>21. PassMeansWholeChain'
  <2>1. \A r, s \in log : r.attempt = s.attempt /\ r.doc < s.doc => ~Fails(r.cause)
    BY DEF TestIInv, PassMeansWholeChain
  <2>2. ASSUME NEW r \in log', NEW s \in log', r.attempt = s.attempt, r.doc < s.doc
        PROVE  ~Fails(r.cause)
    <3>1. CASE r \in log /\ s \in log
      BY <2>1, <2>2, <3>1
    <3>2. CASE r \in log /\ s = run
      BY <2>2, <3>2, <1>4, <1>11
    <3>3. CASE r = run
      <4>1. s.attempt = attempt /\ current < s.doc
        BY <2>2, <3>3, <1>4
      <4>2. s \notin log
        BY <4>1, <1>2, <1>5, <1>6
      <4>3. s = run
        BY <4>2, <1>3
      <4> QED
        BY <4>1, <4>3, <1>2, <1>4
    <3> QED
      BY <3>1, <3>2, <3>3, <1>3
  <2> QED
    BY <2>2, <1>1, <1>2, <1>3 DEF PassMeansWholeChain
<1>22. RetriedForTransportAlone'
  BY <1>2, <1>3 DEF TestIInv, RetriedForTransportAlone
<1>23. SnapshotOfLastAttempt'
  BY <1>2, <1>3 DEF SnapshotOfLastAttempt
<1> QED
  BY <1>7, <1>8, <1>9, <1>10, <1>17, <1>18, <1>19, <1>20, <1>21, <1>22, <1>23 DEF TestIInv

LEMMA TestNextIInv == ASSUME TestIInv, [TestNext]_testVars PROVE TestIInv'
<1>1. CASE UNCHANGED testVars
  <2>1. max_retries' = max_retries /\ buffering' = buffering /\ \A c : Fails(c)' = Fails(c)
    BY <1>1 DEF max_retries, Effective, buffering, Fails, testVars, testPlan
  <2>2. should_retry_result' = should_retry_result
    BY <1>1 DEF should_retry_result, testVars, testPlan
  <2> QED
    BY <1>1, <2>1, <2>2 DEF testVars, testPlan, TestIInv, TestTypeOK, Control, Logged, OwnVariables, Progress, Passed,
       Reasons, Reason, Buffered, LastHeard, VariablesFlowForward, PassMeansWholeChain,
       RetriedForTransportAlone, SnapshotOfLastAttempt, Heard
<1>2. CASE TestNext
  BY <1>2, LoadStep, BeginAttemptStep, RunDocumentStep, RunErrorStep, RetryStep, ConcludeStep DEF TestNext, Run
<1> QED
  BY <1>1, <1>2

-----------------------------------------------------------------------------
(* Theorems                                                                *)

LEMMA TestInvariance == TestSpec => []TestIInv
BY TestInitIInv, TestNextIInv, PTL DEF TestSpec

\* Type correctness of TestRun, with its bound on the attempts: run_single_test
\* never makes one attempt more than the settings say, whoever says it.
THEOREM TestTypeCorrect == TestSpec => []TestTypeOK
<1>1. TestIInv => TestTypeOK
  BY DEF TestIInv
<1> QED
  BY <1>1, TestInvariance, PTL

\* No attempt sees what another extracted: what a document is sent comes from the
\* seed or from an earlier document of the same attempt.
THEOREM VariablesCorrect == TestSpec => []VariablesFlowForward
<1>1. TestIInv => VariablesFlowForward
  BY DEF TestIInv
<1> QED
  BY <1>1, TestInvariance, PTL

\* A unit passes only when every document of its chain passed in its last attempt,
\* and the first failure ends an attempt (ChainAccumulator::absorb).
THEOREM ChainCorrect == TestSpec => []PassMeansWholeChain
<1>1. TestIInv => PassMeansWholeChain
  BY DEF TestIInv
<1> QED
  BY <1>1, TestInvariance, PTL

\* Whatever is tried again failed in transport with a code worth retrying
\* (should_retry_result).
THEOREM RetryCorrect == TestSpec => []RetriedForTransportAlone
<1>1. TestIInv => RetriedForTransportAlone
  BY DEF TestIInv
<1> QED
  BY <1>1, TestInvariance, PTL

\* What update_test_file is given is the last response the last attempt heard, and a
\* unit that passes leaves nothing it heard unwritten.
THEOREM SnapshotCorrect == TestSpec => []SnapshotOfLastAttempt
<1>1. TestIInv => SnapshotOfLastAttempt
  BY DEF TestIInv
<1> QED
  BY <1>1, TestInvariance, PTL

\* What a unit reports and writes back is of its last attempt and its whole chain.
THEOREM ResultCorrect == TestSpec => []ResultOfLastAttempt
BY ChainCorrect, SnapshotCorrect, PTL DEF ResultOfLastAttempt

-----------------------------------------------------------------------------
(* Snapshot: induction and recursion                                       *)

\* A set of numbers that holds 0, and with each number the next, holds them all.
LEMMA SetInduction ==
    ASSUME NEW S, 0 \in S, \A n \in Nat : n \in S => n + 1 \in S
    PROVE  \A n \in Nat : n \in S
<1> SUFFICES ASSUME NEW n \in Nat, n \notin S PROVE FALSE
  OBVIOUS
<1> DEFINE out == Nat \ S
<1>1. out \subseteq Nat /\ out # {}
  OBVIOUS
<1> HIDE DEF out
<1>2. PICK m \in out : \A k \in out : ~(<<k, m>> \in OpToRel(<, Nat))
  BY <1>1, NatLessThanWellFounded, WFMin, Zenon
<1>3. \A k \in out : ~(k < m)
  BY <1>1, <1>2, Zenon DEF OpToRel
<1>4. m # 0 /\ m \in Nat
  BY <1>2, <1>1 DEF out
<1>5. m - 1 \in Nat /\ m - 1 < m /\ (m - 1) + 1 = m
  BY <1>4
<1>6. m - 1 \in S
  BY <1>3, <1>5 DEF out
<1> QED
  BY <1>2, <1>5, <1>6 DEF out

\* The same up to a bound.
LEMMA BoundedInduction ==
    ASSUME NEW n \in Nat, NEW S, 0 \in S, \A k \in 0..n - 1 : k \in S => k + 1 \in S
    PROVE  \A k \in 0..n : k \in S
<1> DEFINE T == {k \in Nat : k <= n => k \in S}
<1>1. 0 \in T
  OBVIOUS
<1>2. \A k \in Nat : k \in T => k + 1 \in T
  OBVIOUS
<1>3. \A k \in Nat : k \in T
  <2> HIDE DEF T
  <2> QED
    BY <1>1, <1>2, SetInduction
<1> QED
  BY <1>3

\* A function on 0..n is defined by its first value and each step.
Steps(n, V) == [1..n -> [V -> V]]
Recursion(f, n, V, base, step) ==
    f \in [0..n -> V] /\ f[0] = base /\ \A k \in 1..n : f[k] = step[k][f[k - 1]]

\* Such a function exists, whatever the steps.
LEMMA RecursionExists ==
    ASSUME NEW V, NEW base \in V, NEW n \in Nat, NEW step \in Steps(n, V)
    PROVE  \E f : Recursion(f, n, V, base, step)
<1> DEFINE value(f, k) == IF k = 0 THEN base ELSE step[k][f[k - 1]]
           S == {m \in 0..n : \E f \in [0..m -> V] : \A k \in 0..m : f[k] = value(f, k)}
<1>1. 0 \in S
  <2> DEFINE f == [k \in 0..0 |-> base]
  <2>1. f \in [0..0 -> V] /\ f[0] = base
    OBVIOUS
  <2> HIDE DEF f
  <2>2. \A k \in 0..0 : k = 0
    OBVIOUS
  <2>3. \A k \in 0..0 : f[k] = value(f, k)
    BY <2>1, <2>2
  <2> QED
    BY <2>1, <2>3
<1>2. ASSUME NEW m \in 0..n - 1, m \in S PROVE m + 1 \in S
  <2>1. PICK f \in [0..m -> V] : \A k \in 0..m : f[k] = value(f, k)
    BY <1>2
  <2>2. /\ m + 1 \in 1..n /\ m \in 0..m /\ f[m] \in V
        /\ step[m + 1] \in [V -> V]
    BY DEF Steps
  <2>3. step[m + 1][f[m]] \in V
    BY <2>2
  <2> DEFINE g == [k \in 0..(m + 1) |-> IF k = m + 1 THEN step[m + 1][f[m]] ELSE f[k]]
  <2>4. g \in [0..(m + 1) -> V]
    BY <2>3
  <2>5. ASSUME NEW k \in 0..(m + 1) PROVE g[k] = value(g, k)
    <3>1. CASE k = m + 1
      BY <3>1
    <3>2. CASE k \in 0..m
      <4>1. g[k] = f[k] /\ (k # 0 => g[k - 1] = f[k - 1])
        BY <3>2
      <4>2. f[k] = value(f, k)
        BY <2>1, <3>2
      <4> QED
        BY <4>1, <4>2
    <3> QED
      BY <3>1, <3>2
  <2> HIDE DEF g
  <2>6. m + 1 \in 0..n
    OBVIOUS
  <2> QED
    BY <2>4, <2>5, <2>6
<1>3. n \in S
  <2> HIDE DEF S
  <2>1. \A k \in 0..n : k \in S
    BY <1>1, <1>2, BoundedInduction
  <2> QED
    BY <2>1
<1>4. PICK f \in [0..n -> V] : \A k \in 0..n : f[k] = value(f, k)
  BY <1>3
<1>5. f[0] = base /\ \A k \in 1..n : f[k] = step[k][f[k - 1]]
  <2>1. 0 \in 0..n /\ \A k \in 1..n : k \in 0..n /\ k # 0
    OBVIOUS
  <2> QED
    BY <1>4, <2>1
<1> QED
  BY <1>4, <1>5 DEF Recursion

\* A set of numbers that is not empty has a least,
LEMMA MinExists ==
    ASSUME NEW S \in SUBSET Nat, S # {}
    PROVE  \E m \in S : \A k \in S : m <= k
<1>1. PICK m \in S : \A k \in S : ~(<<k, m>> \in OpToRel(<, Nat))
  BY NatLessThanWellFounded, WFMin, Zenon
<1>2. \A k \in S : ~(k < m)
  BY <1>1, Zenon DEF OpToRel
<1> QED
  BY <1>2

\* and when it is bounded a greatest.
LEMMA MaxExists ==
    ASSUME NEW n \in Nat, NEW S \in SUBSET (0..n), S # {}
    PROVE  \E m \in S : \A k \in S : k <= m
<1> DEFINE T == {n - k : k \in S}
<1>1. T \in SUBSET Nat /\ T # {}
  <2>1. \A k \in S : n - k \in Nat
    OBVIOUS
  <2>2. \A k \in S : n - k \in T
    OBVIOUS
  <2> QED
    BY <2>1, <2>2
<1> HIDE DEF T
<1>2. PICK t \in T : \A k \in T : t <= k
  BY <1>1, MinExists
<1>3. PICK m \in S : t = n - m
  BY DEF T
<1>4. \A k \in S : n - m <= n - k
  BY <1>2, <1>3 DEF T
<1>5. m \in 0..n /\ \A k \in S : k \in 0..n
  OBVIOUS
<1> QED
  BY <1>4, <1>5

\* A set that holds the empty sequence, and with each sequence every longer by
\* one, holds them all.
LEMMA SeqInduction ==
    ASSUME NEW S, NEW T, <<>> \in T,
           \A s \in Seq(S) : \A e \in S : s \in T => Append(s, e) \in T
    PROVE  \A s \in Seq(S) : s \in T
<1> DEFINE L == {n \in Nat : \A s \in Seq(S) : Len(s) = n => s \in T}
<1>1. 0 \in L
  <2>1. \A s \in Seq(S) : Len(s) = 0 => s = <<>>
    BY EmptySeq
  <2> QED
    BY <2>1
<1>2. ASSUME NEW n \in Nat, n \in L PROVE n + 1 \in L
  <2> SUFFICES ASSUME NEW s \in Seq(S), Len(s) = n + 1 PROVE s \in T
    OBVIOUS
  <2>1. s # <<>>
    BY EmptySeq
  <2>2. PICK r \in Seq(S), e \in S : s = Append(r, e)
    BY <2>1, SequenceEmptyOrAppend
  <2>3. Len(r) = n
    <3>1. Len(s) = Len(r) + 1 /\ Len(r) \in Nat
      BY <2>2, AppendProperties
    <3> QED
      BY <3>1
  <2>4. r \in T
    BY <1>2, <2>3
  <2> QED
    BY <2>2, <2>4
<1>3. \A n \in Nat : n \in L
  <2> HIDE DEF L
  <2> QED
    BY <1>1, <1>2, SetInduction
<1> QED
  BY <1>3

\* Appending an element to a longer sequence, and a longer sequence to one.
LEMMA ConcatAppend ==
    ASSUME NEW S, NEW s \in Seq(S), NEW t \in Seq(S), NEW e \in S
    PROVE  s \o Append(t, e) = Append(s \o t, e)
<1>1. Append(t, e) = t \o <<e>> /\ <<e>> \in Seq(S) /\ s \o t \in Seq(S)
  BY AppendIsConcat, ConcatProperties
<1>2. Append(s \o t, e) = (s \o t) \o <<e>>
  BY <1>1, AppendIsConcat
<1>3. (s \o t) \o <<e>> = s \o (t \o <<e>>)
  BY <1>1, ConcatAssociative
<1> QED
  BY <1>1, <1>2, <1>3

-----------------------------------------------------------------------------
(* Reading a text through                                                  *)

Seen == [inside : BOOLEAN, rest : Seq(Line)]
Unread == [inside |-> FALSE, rest |-> <<>>]

\* What is read of a text keeps to its type.
LEMMA ReadLineType ==
    ASSUME NEW seen \in Seen, NEW l \in Line PROVE ReadLine(seen, l) \in Seen
<1>1. seen.rest \in Seq(Line) /\ seen.inside \in BOOLEAN
  BY DEF Seen
<1>2. Append(seen.rest, l) \in Seq(Line)
  BY <1>1, AppendProperties
<1>3. ReadLine(seen, l).inside \in BOOLEAN /\ ReadLine(seen, l).rest \in Seq(Line)
  <2>1. ReadLine(seen, l).rest = Append(seen.rest, l) \/ ReadLine(seen, l).rest = seen.rest
    BY DEF ReadLine
  <2>2. ReadLine(seen, l).inside \in BOOLEAN
    <3>1. CASE IsHeader(l)
      <4>1. ReadLine(seen, l).inside = (l.what \in {"RESPONSE", "ERROR"})
        BY <3>1 DEF ReadLine
      <4> QED
        BY <4>1
    <3>2. CASE ~IsHeader(l)
      <4>1. ReadLine(seen, l).inside = seen.inside
        BY <3>2 DEF ReadLine
      <4> QED
        BY <1>1, <4>1
    <3> QED
      BY <3>1, <3>2
  <2> QED
    BY <1>1, <1>2, <2>1, <2>2
<1>4. PICK i, r : ReadLine(seen, l) = [inside |-> i, rest |-> r]
  BY DEF ReadLine
<1> QED
  BY <1>3, <1>4 DEF Seen

\* ReadThrough is a function with the recursion it is defined by.
LEMMA ReadThroughSteps ==
    ASSUME NEW text \in Seq(Line)
    PROVE  \E upto :
               /\ upto[0] = Unread
               /\ \A k \in 1..Len(text) : upto[k] = ReadLine(upto[k - 1], text[k])
               /\ \A k \in 0..Len(text) : upto[k] \in Seen
               /\ ReadThrough(text) = upto[Len(text)]
<1> DEFINE n == Len(text)
           Fits(f) == f = [k \in 0..n |-> IF k = 0 THEN Unread ELSE ReadLine(f[k - 1], text[k])]
<1>1. n \in Nat /\ \A k \in 1..n : text[k] \in Line
  BY LenProperties, ElementOfSeq
<1>2. Unread \in Seen
  BY DEF Unread, Seen
<1> HIDE DEF n
<1>3. PICK step : /\ step \in Steps(n, Seen)
                   /\ \A k \in 1..n : \A v \in Seen : step[k][v] = ReadLine(v, text[k])
  <2> DEFINE s == [k \in 1..n |-> [v \in Seen |-> ReadLine(v, text[k])]]
  <2>1. s \in Steps(n, Seen)
    BY <1>1, ReadLineType DEF Steps
  <2>2. \A k \in 1..n : \A v \in Seen : s[k][v] = ReadLine(v, text[k])
    OBVIOUS
  <2> QED
    BY <2>1, <2>2
<1>4. PICK f : Recursion(f, n, Seen, Unread, step)
  BY <1>1, <1>2, <1>3, RecursionExists
<1>5. Fits(f)
  <2>1. \A k \in 1..n : f[k] = ReadLine(f[k - 1], text[k])
    <3> TAKE k \in 1..n
    <3>1. k - 1 \in 0..n /\ f[k - 1] \in Seen
      BY <1>1, <1>4 DEF Recursion
    <3> QED
      BY <1>3, <1>4, <3>1 DEF Recursion
  <2>2. \A k \in 0..n : k = 0 \/ k \in 1..n
    BY <1>1
  <2>3. f = [k \in 0..n |-> f[k]] /\ f[0] = Unread
    BY <1>4 DEF Recursion
  <2>4. \A k \in 0..n : f[k] = IF k = 0 THEN Unread ELSE ReadLine(f[k - 1], text[k])
    BY <2>1, <2>2, <2>3
  <2> QED
    BY <2>3, <2>4
<1>6. PICK upto : Fits(upto) /\ ReadThrough(text) = upto[n]
  <2> DEFINE u == CHOOSE u : Fits(u)
  <2>1. ReadThrough(text) = u[n]
    BY DEF ReadThrough, n, Unread
  <2>2. Fits(u)
    <3> HIDE DEF Fits
    <3> QED
      BY <1>5
  <2> HIDE DEF u, Fits
  <2> QED
    BY <2>1, <2>2
<1>7. \A k \in 0..n : upto[k] = IF k = 0 THEN Unread ELSE ReadLine(upto[k - 1], text[k])
  BY <1>6
<1>8. upto[0] = Unread /\ \A k \in 1..n : upto[k] = ReadLine(upto[k - 1], text[k])
  <2>1. 0 \in 0..n /\ \A k \in 1..n : k \in 0..n /\ k # 0
    BY <1>1
  <2> QED
    BY <1>7, <2>1
<1>9. \A k \in 0..n : upto[k] \in Seen
  <2> DEFINE T == {k \in 0..n : upto[k] \in Seen}
  <2>1. 0 \in T
    BY <1>1, <1>2, <1>8
  <2>2. ASSUME NEW k \in 0..n - 1, k \in T PROVE k + 1 \in T
    <3>1. k + 1 \in 1..n /\ k + 1 \in 0..n /\ (k + 1) - 1 = k
      BY <1>1
    <3>2. upto[k] \in Seen
      BY <2>2
    <3>3. upto[k + 1] = ReadLine(upto[k], text[k + 1])
      BY <1>8, <3>1
    <3> QED
      BY <1>1, <3>1, <3>2, <3>3, ReadLineType
  <2>3. \A k \in 0..n : k \in T
    <3> HIDE DEF T
    <3> QED
      BY <1>1, <2>1, <2>2, BoundedInduction
  <2> QED
    BY <2>3
<1> QED
  BY <1>6, <1>8, <1>9 DEF n

\* So a text that is read is lines inside or outside a body.
LEMMA ReadThroughType ==
    ASSUME NEW text \in Seq(Line) PROVE ReadThrough(text) \in Seen
<1>1. Len(text) \in 0..Len(text)
  BY LenProperties
<1> QED
  BY <1>1, ReadThroughSteps

\* A longer text is read by reading its last line.
LEMMA ReadThroughAppend ==
    ASSUME NEW s \in Seq(Line), NEW l \in Line
    PROVE  ReadThrough(Append(s, l)) = ReadLine(ReadThrough(s), l)
<1> DEFINE n == Len(s)
           t == Append(s, l)
<1>1. n \in Nat /\ t \in Seq(Line) /\ Len(t) = n + 1 /\ t[n + 1] = l /\ \A k \in 1..n : t[k] = s[k]
  BY LenProperties, AppendProperties
<1> HIDE DEF t
<1>2. PICK f : /\ f[0] = Unread /\ \A k \in 1..Len(s) : f[k] = ReadLine(f[k - 1], s[k])
               /\ ReadThrough(s) = f[Len(s)]
  BY ReadThroughSteps
<1>3. PICK g : /\ g[0] = Unread /\ \A k \in 1..Len(t) : g[k] = ReadLine(g[k - 1], t[k])
               /\ ReadThrough(t) = g[Len(t)]
  BY <1>1, ReadThroughSteps
<1> HIDE DEF n
<1>4. \A k \in 0..n : g[k] = f[k]
  <2> DEFINE T == {k \in 0..n : g[k] = f[k]}
  <2>1. 0 \in T
    BY <1>1, <1>2, <1>3
  <2>2. ASSUME NEW k \in 0..n - 1, k \in T PROVE k + 1 \in T
    <3>1. k + 1 \in 1..n /\ k + 1 \in 1..(n + 1) /\ k + 1 \in 0..n /\ (k + 1) - 1 = k
      BY <1>1
    <3>2. g[k] = f[k]
      BY <2>2
    <3>3. g[k + 1] = ReadLine(g[k], t[k + 1])
      BY <1>1, <1>3, <3>1
    <3>4. f[k + 1] = ReadLine(f[k], s[k + 1])
      BY <1>2, <3>1 DEF n
    <3> QED
      BY <1>1, <3>1, <3>2, <3>3, <3>4
  <2>3. \A k \in 0..n : k \in T
    <3> HIDE DEF T
    <3> QED
      BY <1>1, <2>1, <2>2, BoundedInduction
  <2> QED
    BY <2>3
<1>5. g[n + 1] = ReadLine(g[n], l)
  <2>1. n + 1 \in 1..Len(t) /\ (n + 1) - 1 = n
    BY <1>1
  <2> QED
    BY <1>1, <1>3, <2>1
<1>6. g[n] = f[n]
  BY <1>1, <1>4
<1> QED
  BY <1>1, <1>2, <1>3, <1>5, <1>6 DEF n, t

\* What a text adds depends on what was read before it only.
LEMMA ReadThroughConcat ==
    ASSUME NEW s \in Seq(Line), NEW t \in Seq(Line), ReadThrough(s) = ReadThrough(t)
    PROVE  \A c \in Seq(Line) : ReadThrough(s \o c) = ReadThrough(t \o c)
<1> DEFINE T == {c \in Seq(Line) : ReadThrough(s \o c) = ReadThrough(t \o c)}
<1>1. <<>> \in T
  <2>1. s \o <<>> = s /\ t \o <<>> = t /\ <<>> \in Seq(Line)
    BY ConcatEmptySeq
  <2> QED
    BY <2>1
<1>2. ASSUME NEW c \in Seq(Line), NEW l \in Line, c \in T PROVE Append(c, l) \in T
  <2>1. s \o Append(c, l) = Append(s \o c, l) /\ t \o Append(c, l) = Append(t \o c, l)
    BY ConcatAppend
  <2>2. s \o c \in Seq(Line) /\ t \o c \in Seq(Line) /\ Append(c, l) \in Seq(Line)
    BY ConcatProperties, AppendProperties
  <2>3. ReadThrough(s \o c) = ReadThrough(t \o c)
    BY <1>2
  <2>4. /\ ReadThrough(Append(s \o c, l)) = ReadLine(ReadThrough(s \o c), l)
        /\ ReadThrough(Append(t \o c, l)) = ReadLine(ReadThrough(t \o c), l)
    BY <2>2, ReadThroughAppend
  <2> QED
    BY <2>1, <2>2, <2>3, <2>4
<1>3. \A c \in Seq(Line) : c \in T
  <2> HIDE DEF T
  <2> QED
    BY <1>1, <1>2, SeqInduction
<1> QED
  BY <1>3

\* The lines a body is made of.
BodyLine == {l \in Line : l.kind \notin {"header", "attribute"}}

\* Lines of a body that a snapshot replaces leave no trace.
LEMMA ReadThroughBody ==
    ASSUME NEW s \in Seq(Line), ReadThrough(s).inside
    PROVE  \A c \in Seq(BodyLine) : ReadThrough(s \o c) = ReadThrough(s)
<1> DEFINE T == {c \in Seq(BodyLine) : ReadThrough(s \o c) = ReadThrough(s)}
<1>1. <<>> \in T
  <2>1. s \o <<>> = s /\ <<>> \in Seq(BodyLine)
    BY ConcatEmptySeq
  <2> QED
    BY <2>1
<1>2. ASSUME NEW c \in Seq(BodyLine), NEW l \in BodyLine, c \in T PROVE Append(c, l) \in T
  <2>1. c \in Seq(Line) /\ l \in Line /\ l.kind \notin {"header", "attribute"} /\ BodyLine \subseteq Line
    <3>1. BodyLine \subseteq Line /\ l \in Line /\ l.kind \notin {"header", "attribute"}
      BY DEF BodyLine
    <3> QED
      BY <3>1, SeqMonotonic
  <2>2. s \o Append(c, l) = Append(s \o c, l)
    BY <2>1, ConcatAppend
  <2>3. s \o c \in Seq(Line) /\ Append(c, l) \in Seq(BodyLine)
    BY <2>1, ConcatProperties, AppendProperties
  <2>4. ReadThrough(s \o c) = ReadThrough(s)
    BY <1>2
  <2>5. ReadThrough(Append(s \o c, l)) = ReadLine(ReadThrough(s), l)
    BY <2>1, <2>3, <2>4, ReadThroughAppend
  <2>6. ReadLine(ReadThrough(s), l) = ReadThrough(s)
    <3>1. ReadThrough(s) \in Seen
      BY ReadThroughType
    <3>2. PICK r : ReadThrough(s) = r /\ r \in Seen /\ r.inside
      BY <3>1
    <3>3. ReadLine(r, l) = [inside |-> r.inside, rest |-> r.rest]
      BY <2>1, <3>2 DEF ReadLine, IsHeader
    <3>4. r = [inside |-> r.inside, rest |-> r.rest]
      BY <3>2 DEF Seen
    <3> QED
      BY <3>2, <3>3, <3>4
  <2> QED
    BY <2>2, <2>3, <2>5, <2>6
<1>3. \A c \in Seq(BodyLine) : c \in T
  <2> HIDE DEF T
  <2> QED
    BY <1>1, <1>2, SeqInduction
<1> QED
  BY <1>3

-----------------------------------------------------------------------------
(* The parser                                                              *)

Raw == [type : Words, with_asserts : BOOLEAN, start_line : Nat, size : Nat,
        want : Seq(Messages), body : Seq(Line)]

\* A section as it is opened,
LEMMA OpenedType ==
    ASSUME NEW l \in Line, IsHeader(l), NEW n \in Nat \ {0} PROVE Opened(l, n) \in Raw
<1>1. l \in [kind : {"header"}, what : Words, n : {0, 1}]
  BY DEF IsHeader, Line
<1>2. l.what \in Words /\ (l.n = 1) \in BOOLEAN /\ n - 1 \in Nat
  BY <1>1
<1>3. <<>> \in Seq(Messages) /\ <<>> \in Seq(Line)
  OBVIOUS
<1> HIDE DEF Line
<1> QED
  BY <1>2, <1>3 DEF Opened, Raw

\* and with one more line; both are sections being read.
LEMMA AddLineIs ==
    ASSUME NEW s \in Raw, NEW l \in Line
    PROVE  /\ AddLine(s, l) \in Raw
           /\ AddLine(s, l) = [type |-> s.type, with_asserts |-> s.with_asserts,
                               start_line |-> s.start_line, size |-> s.size + 1,
                               want |-> IF StartsValue(l) THEN Append(s.want, l.what) ELSE s.want,
                               body |-> IF NotBlank(l) THEN Append(s.body, l) ELSE s.body]
<1>1. PICK w, b : /\ w = IF StartsValue(l) THEN Append(s.want, l.what) ELSE s.want
                  /\ b = IF NotBlank(l) THEN Append(s.body, l) ELSE s.body
  OBVIOUS
<1>2. /\ s.type \in Words /\ s.with_asserts \in BOOLEAN /\ s.start_line \in Nat /\ s.size \in Nat
      /\ s.want \in Seq(Messages) /\ s.body \in Seq(Line)
  BY DEF Raw
<1>3. w \in Seq(Messages)
  <2>1. StartsValue(l) => l.what \in Messages
    BY DEF StartsValue, Line
  <2> QED
    BY <1>1, <1>2, <2>1, AppendProperties
<1>4. b \in Seq(Line)
  BY <1>1, <1>2, AppendProperties
<1>5. PICK t, a, n, z, w0, b0 :
        s = [type |-> t, with_asserts |-> a, start_line |-> n, size |-> z, want |-> w0, body |-> b0]
  BY DEF Raw
<1>6. AddLine(s, l) = [type |-> s.type, with_asserts |-> s.with_asserts,
                       start_line |-> s.start_line, size |-> s.size + 1, want |-> w, body |-> b]
  <2>1. AddLine(s, l) = [s EXCEPT !.size = s.size + 1, !.want = w, !.body = b]
    BY <1>1 DEF AddLine
  <2>2. PICK s1 : s1 = [s EXCEPT !.size = s.size + 1]
    OBVIOUS
  <2>3. s1 = [type |-> t, with_asserts |-> a, start_line |-> n, size |-> s.size + 1, want |-> w0, body |-> b0]
    BY <1>5, <2>2
  <2>4. PICK s2 : s2 = [s1 EXCEPT !.want = w]
    OBVIOUS
  <2>5. s2 = [type |-> t, with_asserts |-> a, start_line |-> n, size |-> s.size + 1, want |-> w, body |-> b0]
    BY <2>3, <2>4
  <2>6. [s2 EXCEPT !.body = b]
          = [type |-> t, with_asserts |-> a, start_line |-> n, size |-> s.size + 1, want |-> w, body |-> b]
    BY <2>5
  <2>7. AddLine(s, l) = [s2 EXCEPT !.body = b]
    BY <2>1, <2>2, <2>4
  <2>8. s.type = t /\ s.with_asserts = a /\ s.start_line = n
    BY <1>5
  <2> QED
    BY <2>6, <2>7, <2>8
<1>7. s.size + 1 \in Nat
  BY <1>2
<1>8. AddLine(s, l) \in Raw
  <2> HIDE DEF Line
  <2> QED
    BY <1>2, <1>3, <1>4, <1>6, <1>7 DEF Raw
<1> QED
  BY <1>1, <1>6, <1>8

\* Replacing the last element.
LEMMA LastReplaced ==
    ASSUME NEW S, NEW s \in Seq(S), NEW a \in S, NEW b \in S
    PROVE  [Append(s, a) EXCEPT ![Len(Append(s, a))] = b] = Append(s, b)
<1>1. PICK n, t, u, v : /\ n = Len(s) /\ t = Append(s, a) /\ u = Append(s, b)
                        /\ v = [t EXCEPT ![Len(t)] = b]
  OBVIOUS
<1>2. /\ n \in Nat /\ t \in Seq(S) /\ Len(t) = n + 1 /\ u \in Seq(S) /\ Len(u) = n + 1
      /\ \A i \in 1..n : t[i] = s[i] /\ u[i] = s[i]
      /\ u[n + 1] = b
  BY <1>1, LenProperties, AppendProperties
<1>3. t = [i \in 1..n + 1 |-> t[i]] /\ u = [i \in 1..n + 1 |-> u[i]]
  <2> HIDE <1>1
  <2> QED
    BY <1>2, LenProperties
<1>4. v = [i \in 1..n + 1 |-> IF i = n + 1 THEN b ELSE t[i]]
  BY <1>1, <1>2, <1>3
<1>5. \A i \in 1..n + 1 : (IF i = n + 1 THEN b ELSE t[i]) = u[i]
  <2>1. \A i \in 1..n + 1 : i = n + 1 \/ i \in 1..n
    BY <1>2
  <2> QED
    BY <1>2, <2>1
<1> QED
  BY <1>1, <1>3, <1>4, <1>5

\* The parser goes on with sections of that type.
LEMMA ParseLineType ==
    ASSUME NEW found \in Seq(Raw), NEW l \in Line, NEW n \in Nat \ {0}
    PROVE  ParseLine(found, l, n) \in Seq(Raw)
<1>1. CASE IsHeader(l)
  BY <1>1, OpenedType, AppendProperties DEF ParseLine
<1>2. CASE ~IsHeader(l) /\ IsContent(l) /\ found # <<>>
  <2>1. PICK s \in Seq(Raw), a \in Raw : found = Append(s, a)
    BY <1>2, SequenceEmptyOrAppend
  <2>2. found[Len(found)] = a
    BY <2>1, AppendProperties
  <2>3. ParseLine(found, l, n) = [found EXCEPT ![Len(found)] = AddLine(a, l)]
    BY <1>2, <2>2 DEF ParseLine
  <2>4. AddLine(a, l) \in Raw
    BY AddLineIs
  <2>5. ParseLine(found, l, n) = Append(s, AddLine(a, l))
    BY <2>1, <2>3, <2>4, LastReplaced
  <2> QED
    BY <2>4, <2>5, AppendProperties
<1>3. CASE ~IsHeader(l) /\ ~(IsContent(l) /\ found # <<>>)
  BY <1>3 DEF ParseLine
<1> QED
  BY <1>1, <1>2, <1>3

\* Found is a function with the recursion it is defined by.
LEMMA FoundSteps ==
    ASSUME NEW text \in Seq(Line)
    PROVE  \E upto :
               /\ upto[0] = <<>>
               /\ \A k \in 1..Len(text) : upto[k] = ParseLine(upto[k - 1], text[k], k)
               /\ \A k \in 0..Len(text) : upto[k] \in Seq(Raw)
               /\ Found(text) = upto[Len(text)]
<1> DEFINE n == Len(text)
           V == Seq(Raw)
           Fits(f) == f = [k \in 0..n |-> IF k = 0 THEN <<>> ELSE ParseLine(f[k - 1], text[k], k)]
<1>1. n \in Nat /\ \A k \in 1..n : text[k] \in Line /\ k \in Nat \ {0}
  BY LenProperties, ElementOfSeq
<1>2. <<>> \in V
  OBVIOUS
<1> HIDE DEF n, V
<1>3. PICK step : /\ step \in Steps(n, V)
                  /\ \A k \in 1..n : \A v \in V : step[k][v] = ParseLine(v, text[k], k)
  <2> DEFINE s == [k \in 1..n |-> [v \in V |-> ParseLine(v, text[k], k)]]
  <2>1. s \in Steps(n, V)
    <3>1. \A k \in 1..n : \A v \in V : ParseLine(v, text[k], k) \in V
      BY <1>1, ParseLineType DEF V
    <3> QED
      BY <3>1 DEF Steps
  <2>2. \A k \in 1..n : \A v \in V : s[k][v] = ParseLine(v, text[k], k)
    OBVIOUS
  <2> QED
    BY <2>1, <2>2
<1>4. PICK f : Recursion(f, n, V, <<>>, step)
  BY <1>1, <1>2, <1>3, RecursionExists
<1>5. Fits(f)
  <2>1. \A k \in 1..n : f[k] = ParseLine(f[k - 1], text[k], k)
    <3> TAKE k \in 1..n
    <3>1. k - 1 \in 0..n /\ f[k - 1] \in V
      BY <1>1, <1>4 DEF Recursion
    <3> QED
      BY <1>3, <1>4, <3>1 DEF Recursion
  <2>2. \A k \in 0..n : k = 0 \/ k \in 1..n
    BY <1>1
  <2>3. f = [k \in 0..n |-> f[k]] /\ f[0] = <<>>
    BY <1>4 DEF Recursion
  <2>4. \A k \in 0..n : f[k] = IF k = 0 THEN <<>> ELSE ParseLine(f[k - 1], text[k], k)
    BY <2>1, <2>2, <2>3
  <2> QED
    BY <2>3, <2>4
<1>6. PICK upto : Fits(upto) /\ Found(text) = upto[n]
  <2> DEFINE u == CHOOSE u : Fits(u)
  <2>1. Found(text) = u[n]
    BY DEF Found, n
  <2>2. Fits(u)
    <3> HIDE DEF Fits
    <3> QED
      BY <1>5
  <2> HIDE DEF u, Fits
  <2> QED
    BY <2>1, <2>2
<1>7. \A k \in 0..n : upto[k] = IF k = 0 THEN <<>> ELSE ParseLine(upto[k - 1], text[k], k)
  BY <1>6
<1>8. upto[0] = <<>> /\ \A k \in 1..n : upto[k] = ParseLine(upto[k - 1], text[k], k)
  <2>1. 0 \in 0..n /\ \A k \in 1..n : k \in 0..n /\ k # 0
    BY <1>1
  <2> QED
    BY <1>7, <2>1
<1>9. \A k \in 0..n : upto[k] \in V
  <2> DEFINE T == {k \in 0..n : upto[k] \in V}
  <2>1. 0 \in T
    BY <1>1, <1>2, <1>8
  <2>2. ASSUME NEW k \in 0..n - 1, k \in T PROVE k + 1 \in T
    <3>1. k + 1 \in 1..n /\ k + 1 \in 0..n /\ (k + 1) - 1 = k
      BY <1>1
    <3>2. upto[k] \in V
      BY <2>2
    <3>3. upto[k + 1] = ParseLine(upto[k], text[k + 1], k + 1)
      BY <1>8, <3>1
    <3>4. upto[k + 1] \in V
      BY <1>1, <3>1, <3>2, <3>3, ParseLineType DEF V
    <3> QED
      BY <3>1, <3>4
  <2>3. \A k \in 0..n : k \in T
    <3> HIDE DEF T
    <3> QED
      BY <1>1, <2>1, <2>2, BoundedInduction
  <2> QED
    BY <2>3
<1> QED
  BY <1>6, <1>8, <1>9 DEF n, V

\* So the parser finds sections,
LEMMA FoundType ==
    ASSUME NEW text \in Seq(Line) PROVE Found(text) \in Seq(Raw)
<1>1. Len(text) \in 0..Len(text)
  BY LenProperties
<1> QED
  BY <1>1, FoundSteps

\* and in an empty file none.
LEMMA FoundNothing == Found(<<>>) = <<>>
<1>1. <<>> \in Seq(Line) /\ Len(<<>>) = 0
  BY EmptySeq
<1> QED
  BY <1>1, FoundSteps

\* A longer file is parsed by parsing its last line.
LEMMA FoundAppend ==
    ASSUME NEW s \in Seq(Line), NEW l \in Line
    PROVE  Found(Append(s, l)) = ParseLine(Found(s), l, Len(s) + 1)
<1> DEFINE n == Len(s)
           t == Append(s, l)
<1>1. n \in Nat /\ t \in Seq(Line) /\ Len(t) = n + 1 /\ t[n + 1] = l /\ \A k \in 1..n : t[k] = s[k]
  BY LenProperties, AppendProperties
<1> HIDE DEF t
<1>2. PICK f : /\ f[0] = <<>> /\ \A k \in 1..Len(s) : f[k] = ParseLine(f[k - 1], s[k], k)
               /\ Found(s) = f[Len(s)]
  BY FoundSteps
<1>3. PICK g : /\ g[0] = <<>> /\ \A k \in 1..Len(t) : g[k] = ParseLine(g[k - 1], t[k], k)
               /\ Found(t) = g[Len(t)]
  BY <1>1, FoundSteps
<1> HIDE DEF n
<1>4. \A k \in 0..n : g[k] = f[k]
  <2> DEFINE T == {k \in 0..n : g[k] = f[k]}
  <2>1. 0 \in T
    BY <1>1, <1>2, <1>3
  <2>2. ASSUME NEW k \in 0..n - 1, k \in T PROVE k + 1 \in T
    <3>1. k + 1 \in 1..n /\ k + 1 \in 1..(n + 1) /\ k + 1 \in 0..n /\ (k + 1) - 1 = k
      BY <1>1
    <3>2. g[k] = f[k]
      BY <2>2
    <3>3. g[k + 1] = ParseLine(g[k], t[k + 1], k + 1)
      BY <1>1, <1>3, <3>1
    <3>4. f[k + 1] = ParseLine(f[k], s[k + 1], k + 1)
      BY <1>2, <3>1 DEF n
    <3> QED
      BY <1>1, <3>1, <3>2, <3>3, <3>4
  <2>3. \A k \in 0..n : k \in T
    <3> HIDE DEF T
    <3> QED
      BY <1>1, <2>1, <2>2, BoundedInduction
  <2> QED
    BY <2>3
<1>5. g[n + 1] = ParseLine(g[n], l, n + 1)
  <2>1. n + 1 \in 1..Len(t) /\ (n + 1) - 1 = n
    BY <1>1
  <2> QED
    BY <1>1, <1>3, <2>1
<1>6. g[n] = f[n]
  BY <1>1, <1>4
<1> QED
  BY <1>1, <1>2, <1>3, <1>5, <1>6 DEF n, t

-----------------------------------------------------------------------------
(* What a header, a body and the lines between two sections add to a parse *)

\* A line of a body is content and no header.
LEMMA BodyLineIs ==
    /\ BodyLine \in SUBSET Line
    /\ \A l \in BodyLine : l \in Line /\ ~IsHeader(l) /\ IsContent(l) /\ l.kind # "attribute"
BY DEF BodyLine, IsHeader, IsContent

\* A header opens a section.
LEMMA FoundHeader ==
    ASSUME NEW s \in Seq(Line), NEW l \in Line, IsHeader(l)
    PROVE  Found(Append(s, l)) = Append(Found(s), Opened(l, Len(s) + 1))
BY FoundAppend DEF ParseLine

\* A line of a body goes to the section found last.
LEMMA FoundLine ==
    ASSUME NEW s \in Seq(Line), NEW l \in BodyLine, NEW found \in Seq(Raw), NEW a \in Raw,
           Found(s) = Append(found, a)
    PROVE  Found(Append(s, l)) = Append(found, AddLine(a, l))
<1>1. l \in Line /\ ~IsHeader(l) /\ IsContent(l)
  BY BodyLineIs
<1>2. PICK f : f = Append(found, a)
  OBVIOUS
<1>3. f # <<>> /\ f[Len(f)] = a
  <2>1. Len(f) = Len(found) + 1 /\ f[Len(found) + 1] = a /\ Len(found) \in Nat /\ f \in Seq(Raw)
    BY <1>2, AppendProperties, LenProperties
  <2> QED
    BY <2>1, EmptySeq
<1>4. ParseLine(f, l, Len(s) + 1) = [f EXCEPT ![Len(f)] = AddLine(a, l)]
  BY <1>1, <1>3 DEF ParseLine
<1>5. AddLine(a, l) \in Raw
  BY <1>1, AddLineIs
<1>6. [f EXCEPT ![Len(f)] = AddLine(a, l)] = Append(found, AddLine(a, l))
  BY <1>2, <1>5, LastReplaced
<1> QED
  BY <1>1, <1>2, <1>4, <1>6, FoundAppend

\* Attributes, and lines above the first header, leave the parse alone.
LEMMA FoundGap ==
    ASSUME NEW s \in Seq(Line), NEW X \in SUBSET Line,
           \A l \in X : ~IsHeader(l) /\ (l.kind = "attribute" \/ Found(s) = <<>>)
    PROVE  \A g \in Seq(X) : Found(s \o g) = Found(s)
<1> DEFINE T == {g \in Seq(X) : Found(s \o g) = Found(s)}
<1>1. <<>> \in T
  <2>1. s \o <<>> = s /\ <<>> \in Seq(X)
    BY ConcatEmptySeq
  <2> QED
    BY <2>1
<1>2. ASSUME NEW g \in Seq(X), NEW l \in X, g \in T PROVE Append(g, l) \in T
  <2>1. g \in Seq(Line) /\ l \in Line /\ Append(g, l) \in Seq(X)
    BY SeqMonotonic, AppendProperties
  <2>2. s \o Append(g, l) = Append(s \o g, l) /\ s \o g \in Seq(Line)
    BY <2>1, ConcatAppend, ConcatProperties
  <2>3. Found(s \o g) = Found(s)
    BY <1>2
  <2>4. Found(Append(s \o g, l)) = ParseLine(Found(s \o g), l, Len(s \o g) + 1)
    BY <2>1, <2>2, FoundAppend
  <2>5. ParseLine(Found(s), l, Len(s \o g) + 1) = Found(s)
    <3>1. ~IsHeader(l) /\ (~IsContent(l) \/ Found(s) = <<>>)
      BY DEF IsContent
    <3> QED
      BY <3>1 DEF ParseLine
  <2> QED
    BY <2>1, <2>2, <2>3, <2>4, <2>5
<1>3. \A g \in Seq(X) : g \in T
  <2> HIDE DEF T
  <2> QED
    BY <1>1, <1>2, SeqInduction
<1> QED
  BY <1>3

\* A body is parsed alike under any header.
AnyHeader == Header("", FALSE)
Content(c) == Found(<<AnyHeader>> \o c)[1]
SectionOf(l, n, c) ==
    [type |-> l.what, with_asserts |-> l.n = 1, start_line |-> n - 1, size |-> Len(c),
     want |-> Content(c).want, body |-> Content(c).body]

\* A sequence of one.
LEMMA AppendToEmpty ==
    ASSUME NEW S, NEW e \in S
    PROVE  Append(<<>>, e) \in Seq(S) /\ Append(<<>>, e)[1] = e /\ Append(<<>>, e) = <<e>>
<1>1. <<>> \in Seq(S) /\ Len(<<>>) = 0
  BY EmptySeq
<1>2. PICK t : t = Append(<<>>, e)
  OBVIOUS
<1>3. t \in Seq(S) /\ Len(t) = 0 + 1 /\ t[0 + 1] = e
  BY <1>1, <1>2, AppendProperties
<1>4. t = <<e>>
  BY <1>2
<1> QED
  BY <1>2, <1>3, <1>4

\* A header to read a body under.
LEMMA AnyHeaderLine == AnyHeader \in Line /\ IsHeader(AnyHeader)
<1>1. AnyHeader = [kind |-> "header", what |-> "", n |-> 0]
  BY DEF AnyHeader, Header
<1>2. AnyHeader \in [kind : {"header"}, what : Words, n : {0, 1}]
  BY <1>1, SnapshotAssumption
<1> QED
  BY <1>1, <1>2 DEF Line, IsHeader

\* What a body says is what its lines say one after the other.
LEMMA ContentSteps ==
    /\ Content(<<>>) = Opened(AnyHeader, 1)
    /\ \A c \in Seq(BodyLine) : Content(c) \in Raw
    /\ \A c \in Seq(BodyLine) : \A l \in BodyLine : Content(Append(c, l)) = AddLine(Content(c), l)
<1> DEFINE h == <<AnyHeader>>
           T == {c \in Seq(BodyLine) : \E a \in Raw : Found(h \o c) = Append(<<>>, a)}
<1>1. h \in Seq(Line) /\ Len(h) = 1
  BY AnyHeaderLine
<1>2. Found(h \o <<>>) = Append(<<>>, Opened(AnyHeader, 1)) /\ Opened(AnyHeader, 1) \in Raw
  <2>1. h \o <<>> = h
    BY <1>1, ConcatEmptySeq
  <2>2. h = Append(<<>>, AnyHeader) /\ <<>> \in Seq(Line) /\ Len(<<>>) = 0
    BY AppendToEmpty, AnyHeaderLine, EmptySeq
  <2> HIDE DEF h
  <2>3. Found(h) = Append(Found(<<>>), Opened(AnyHeader, 0 + 1))
    BY <2>2, FoundHeader, AnyHeaderLine
  <2>4. 0 + 1 = 1 /\ 1 \in Nat \ {0}
    OBVIOUS
  <2> QED
    BY <2>1, <2>3, <2>4, FoundNothing, OpenedType, AnyHeaderLine
<1> HIDE DEF h
<1>3. <<>> \in T
  <2>1. <<>> \in Seq(BodyLine)
    BY EmptySeq
  <2> QED
    BY <1>2, <2>1
<1>4. ASSUME NEW c \in Seq(BodyLine), NEW l \in BodyLine, NEW a \in Raw, Found(h \o c) = Append(<<>>, a)
      PROVE  /\ Found(h \o Append(c, l)) = Append(<<>>, AddLine(a, l)) /\ AddLine(a, l) \in Raw
  <2>1. c \in Seq(Line) /\ l \in Line
    BY BodyLineIs, SeqMonotonic
  <2>2. h \o Append(c, l) = Append(h \o c, l) /\ h \o c \in Seq(Line)
    BY <1>1, <2>1, ConcatAppend, ConcatProperties
  <2>3. <<>> \in Seq(Raw)
    BY EmptySeq
  <2>4. PICK p : p = h \o c
    OBVIOUS
  <2>5. p \in Seq(Line) /\ Found(p) = Append(<<>>, a)
    BY <1>4, <2>2, <2>4
  <2>6. Found(Append(p, l)) = Append(<<>>, AddLine(a, l))
    BY <2>3, <2>5, FoundLine
  <2>7. AddLine(a, l) \in Raw
    BY <2>1, AddLineIs
  <2> QED
    BY <2>2, <2>4, <2>6, <2>7
<1>5. ASSUME NEW c \in Seq(BodyLine), NEW l \in BodyLine, c \in T PROVE Append(c, l) \in T
  <2>1. Append(c, l) \in Seq(BodyLine)
    BY AppendProperties
  <2> QED
    BY <1>4, <1>5, <2>1
<1>6. \A c \in Seq(BodyLine) : c \in T
  <2> HIDE DEF T
  <2> QED
    BY <1>3, <1>5, SeqInduction
<1>7. \A c \in Seq(BodyLine) : Content(c) \in Raw /\ Found(h \o c) = Append(<<>>, Content(c))
  <2> TAKE c \in Seq(BodyLine)
  <2>1. PICK a \in Raw : Found(h \o c) = Append(<<>>, a)
    BY <1>6
  <2>2. Content(c) = a
    BY <2>1, AppendToEmpty DEF Content, h
  <2> QED
    BY <2>1, <2>2
<1>8. ASSUME NEW c \in Seq(BodyLine), NEW l \in BodyLine PROVE Content(Append(c, l)) = AddLine(Content(c), l)
  <2>1. Append(c, l) \in Seq(BodyLine)
    BY AppendProperties
  <2>2. Found(h \o Append(c, l)) = Append(<<>>, AddLine(Content(c), l)) /\ AddLine(Content(c), l) \in Raw
    BY <1>4, <1>7
  <2> QED
    BY <2>2, AppendToEmpty DEF Content, h
<1>9. Content(<<>>) = Opened(AnyHeader, 1)
  BY <1>2, AppendToEmpty DEF Content, h
<1> QED
  BY <1>7, <1>8, <1>9

\* What it says is messages and lines.
LEMMA ContentType ==
    ASSUME NEW c \in Seq(BodyLine)
    PROVE  Content(c).want \in Seq(Messages) /\ Content(c).body \in Seq(Line)
BY ContentSteps DEF Raw

\* A header and a body make a section.
LEMMA SectionOfType ==
    ASSUME NEW l \in Line, IsHeader(l), NEW n \in Nat \ {0}, NEW c \in Seq(BodyLine)
    PROVE  SectionOf(l, n, c) \in Raw
<1>1. PICK o : o = Opened(l, n)
  OBVIOUS
<1>2. /\ o.type = l.what /\ o.with_asserts = (l.n = 1) /\ o.start_line = n - 1
      /\ o \in Raw
  BY <1>1, OpenedType DEF Opened
<1>3. o.type \in Words /\ o.with_asserts \in BOOLEAN /\ o.start_line \in Nat
  BY <1>2 DEF Raw
<1>4. Len(c) \in Nat
  BY LenProperties
<1> HIDE DEF Line
<1> QED
  BY <1>2, <1>3, <1>4, ContentType DEF SectionOf, Raw

\* A header and a body add one section.
LEMMA FoundSection ==
    ASSUME NEW s \in Seq(Line), NEW l \in Line, IsHeader(l)
    PROVE  \A c \in Seq(BodyLine) :
               Found(Append(s, l) \o c) = Append(Found(s), SectionOf(l, Len(s) + 1, c))
<1> DEFINE n == Len(s) + 1
           T == {c \in Seq(BodyLine) : Found(Append(s, l) \o c) = Append(Found(s), SectionOf(l, n, c))}
<1>1. n \in Nat \ {0} /\ Found(s) \in Seq(Raw) /\ Append(s, l) \in Seq(Line)
  BY LenProperties, FoundType, AppendProperties
<1>2. SectionOf(l, n, <<>>) = Opened(l, n)
  <2>1. Content(<<>>).want = <<>> /\ Content(<<>>).body = <<>>
    BY ContentSteps DEF Opened
  <2>2. Len(<<>>) = 0
    OBVIOUS
  <2> HIDE DEF n
  <2> QED
    BY <2>1, <2>2 DEF SectionOf, Opened
<1>3. <<>> \in T
  <2>1. Append(s, l) \o <<>> = Append(s, l) /\ <<>> \in Seq(BodyLine)
    BY <1>1, ConcatEmptySeq
  <2> QED
    BY <1>2, <2>1, FoundHeader
<1> HIDE DEF n
<1>4. ASSUME NEW c \in Seq(BodyLine), NEW x \in BodyLine, c \in T PROVE Append(c, x) \in T
  <2>1. c \in Seq(Line) /\ x \in Line /\ Append(c, x) \in Seq(BodyLine)
    BY BodyLineIs, SeqMonotonic, AppendProperties
  <2>2. Append(s, l) \o Append(c, x) = Append(Append(s, l) \o c, x) /\ Append(s, l) \o c \in Seq(Line)
    BY <1>1, <2>1, ConcatAppend, ConcatProperties
  <2>3. PICK a : a = SectionOf(l, n, c)
    OBVIOUS
  <2>4. a \in Raw /\ Found(Append(s, l) \o c) = Append(Found(s), a)
    BY <1>1, <1>4, <2>3, SectionOfType
  <2>5. Found(Append(s, l) \o Append(c, x)) = Append(Found(s), AddLine(a, x))
    <3>1. PICK p, f : p = Append(s, l) \o c /\ f = Found(s)
      OBVIOUS
    <3>2. p \in Seq(Line) /\ f \in Seq(Raw) /\ a \in Raw /\ Found(p) = Append(f, a)
      BY <1>1, <2>2, <2>4, <3>1
    <3>3. Found(Append(p, x)) = Append(f, AddLine(a, x))
      BY <3>2, FoundLine
    <3> QED
      BY <2>2, <3>1, <3>3
  <2>6. AddLine(a, x) = SectionOf(l, n, Append(c, x))
    <3>1. PICK b : b = Content(c)
      OBVIOUS
    <3>2. b \in Raw /\ Content(Append(c, x)) = AddLine(b, x)
      BY <3>1, ContentSteps
    <3>3. /\ AddLine(b, x).want = IF StartsValue(x) THEN Append(b.want, x.what) ELSE b.want
          /\ AddLine(b, x).body = IF NotBlank(x) THEN Append(b.body, x) ELSE b.body
      <4>1. PICK w, y : /\ w = IF StartsValue(x) THEN Append(b.want, x.what) ELSE b.want
                        /\ y = IF NotBlank(x) THEN Append(b.body, x) ELSE b.body
        OBVIOUS
      <4>2. AddLine(b, x) = [type |-> b.type, with_asserts |-> b.with_asserts,
                             start_line |-> b.start_line, size |-> b.size + 1, want |-> w, body |-> y]
        BY <2>1, <3>2, <4>1, AddLineIs
      <4> QED
        BY <4>1, <4>2
    <3>4. Len(Append(c, x)) = Len(c) + 1
      BY AppendProperties
    <3>5. /\ a.type = l.what /\ a.with_asserts = (l.n = 1) /\ a.start_line = n - 1 /\ a.size = Len(c)
          /\ a.want = b.want /\ a.body = b.body
      BY <2>3, <3>1 DEF SectionOf
    <3>6. AddLine(a, x) = [type |-> a.type, with_asserts |-> a.with_asserts,
                           start_line |-> a.start_line, size |-> a.size + 1,
                           want |-> IF StartsValue(x) THEN Append(a.want, x.what) ELSE a.want,
                           body |-> IF NotBlank(x) THEN Append(a.body, x) ELSE a.body]
      BY <2>1, <2>4, AddLineIs
    <3>7. SectionOf(l, n, Append(c, x))
            = [type |-> l.what, with_asserts |-> l.n = 1, start_line |-> n - 1, size |-> Len(c) + 1,
               want |-> AddLine(b, x).want, body |-> AddLine(b, x).body]
      BY <3>2, <3>4 DEF SectionOf
    <3> QED
      BY <3>3, <3>5, <3>6, <3>7
  <2> QED
    BY <2>1, <2>5, <2>6
<1>5. \A c \in Seq(BodyLine) : c \in T
  <2> HIDE DEF T
  <2> QED
    BY <1>3, <1>4, SeqInduction
<1> QED
  BY <1>5 DEF n
-----------------------------------------------------------------------------
(* Messages in a body                                                      *)

Flattens(u, n, seqs, S) ==
    /\ u[1] = seqs[1]
    /\ \A i \in 1..n : i # 1 => u[i] = u[i - 1] \o seqs[i]
    /\ \A i \in 1..n : u[i] \in Seq(S)
    /\ FlattenSeq(seqs) = u[n]

\* FlattenSeq is a function with the recursion it is defined by.
LEMMA FlattenSteps ==
    ASSUME NEW S, NEW n \in Nat, n # 0, NEW seqs, seqs \in [1..n -> Seq(S)], Len(seqs) = n
    PROVE  \E u : Flattens(u, n, seqs, S)
<1> DEFINE V == Seq(S)
           Fits(f) == f = [i \in 1..n |-> IF i = 1 THEN seqs[i] ELSE f[i - 1] \o seqs[i]]
<1>1. n - 1 \in Nat /\ 1 \in 1..n /\ seqs[1] \in V
  OBVIOUS
<1>2. PICK step : /\ step \in Steps(n - 1, V)
                  /\ \A k \in 1..n - 1 : \A v \in V : step[k][v] = v \o seqs[k + 1]
  <2> DEFINE s == [k \in 1..n - 1 |-> [v \in V |-> v \o seqs[k + 1]]]
  <2>1. \A k \in 1..n - 1 : \A v \in V : v \o seqs[k + 1] \in V
    <3> TAKE k \in 1..n - 1
    <3> TAKE v \in V
    <3>1. seqs[k + 1] \in Seq(S)
      BY <1>1
    <3> QED
      BY <3>1, ConcatProperties
  <2>2. s \in Steps(n - 1, V)
    <3> HIDE DEF V
    <3> QED
      BY <2>1 DEF Steps
  <2>3. \A k \in 1..n - 1 : \A v \in V : s[k][v] = v \o seqs[k + 1]
    OBVIOUS
  <2> HIDE DEF s, V
  <2> QED
    BY <2>2, <2>3
<1> HIDE DEF V
<1>3. PICK g : Recursion(g, n - 1, V, seqs[1], step)
  BY <1>1, <1>2, RecursionExists
<1> DEFINE f == [i \in 1..n |-> g[i - 1]]
<1>4. ASSUME NEW i \in 1..n
      PROVE  f[i] = IF i = 1 THEN seqs[i] ELSE f[i - 1] \o seqs[i]
  <2>1. CASE i = 1
    BY <1>1, <1>3, <2>1 DEF Recursion
  <2>2. CASE i # 1
    <3>1. i - 1 \in 1..n - 1 /\ i - 1 \in 1..n /\ (i - 1) + 1 = i /\ (i - 1) - 1 \in 0..n - 1
      BY <1>1, <2>2
    <3>2. f[i] = g[i - 1] /\ f[i - 1] = g[(i - 1) - 1]
      BY <3>1
    <3>3. g[i - 1] = step[i - 1][g[(i - 1) - 1]] /\ g[(i - 1) - 1] \in V
      BY <1>3, <3>1 DEF Recursion
    <3>4. step[i - 1][g[(i - 1) - 1]] = g[(i - 1) - 1] \o seqs[(i - 1) + 1]
      BY <1>2, <3>1, <3>3
    <3> HIDE DEF f
    <3> QED
      BY <2>2, <3>1, <3>2, <3>3, <3>4
  <2> QED
    BY <2>1, <2>2
<1>5. Fits(f)
  BY <1>4
<1> HIDE DEF f
<1>6. PICK u : Fits(u) /\ FlattenSeq(seqs) = u[n]
  <2> DEFINE u == CHOOSE u : Fits(u)
  <2>1. FlattenSeq(seqs) = u[n]
    BY DEF FlattenSeq
  <2>2. Fits(u)
    <3> HIDE DEF Fits
    <3> QED
      BY <1>5
  <2> HIDE DEF u, Fits
  <2> QED
    BY <2>1, <2>2
<1>7. \A i \in 1..n : u[i] = IF i = 1 THEN seqs[i] ELSE u[i - 1] \o seqs[i]
  BY <1>6
<1> DEFINE T == {k \in 0..n - 1 : u[k + 1] \in V}
<1>8. 0 \in T
  BY <1>1, <1>7
<1>9. ASSUME NEW k \in 0..(n - 1) - 1, k \in T PROVE k + 1 \in T
  <2>1. k + 1 \in 0..n - 1 /\ (k + 1) + 1 \in 1..n /\ (k + 1) + 1 # 1 /\ ((k + 1) + 1) - 1 = k + 1
    BY <1>1, <1>9
  <2>2. u[k + 1] \in V
    BY <1>9
  <2>3. u[(k + 1) + 1] = u[k + 1] \o seqs[(k + 1) + 1]
    BY <1>7, <2>1
  <2>4. u[(k + 1) + 1] \in V
    BY <2>1, <2>2, <2>3, ConcatProperties DEF V
  <2> QED
    BY <2>1, <2>4, Zenon
<1>10. \A i \in 1..n : u[i] \in V
  <2>1. \A k \in 0..n - 1 : k \in T
    <3> HIDE DEF T
    <3> QED
      BY <1>1, <1>8, <1>9, BoundedInduction
  <2>2. \A k \in 0..n - 1 : u[k + 1] \in V
    BY <2>1
  <2> HIDE DEF T
  <2> TAKE i \in 1..n
  <2>3. i - 1 \in 0..n - 1 /\ (i - 1) + 1 = i
    BY <1>1
  <2> QED
    BY <2>2, <2>3
<1> QED
  BY <1>1, <1>6, <1>7, <1>10 DEF V, Flattens

\* Nothing is flattened to nothing,
LEMMA FlattenEmpty == FlattenSeq(<<>>) = <<>>
BY DEF FlattenSeq

\* and one sequence more is added at the end.
LEMMA FlattenAppend ==
    ASSUME NEW S, NEW s \in Seq(Seq(S)), NEW e \in Seq(S)
    PROVE  /\ FlattenSeq(Append(s, e)) = FlattenSeq(s) \o e
           /\ FlattenSeq(s) \in Seq(S)
<1> DEFINE n == Len(s)
<1>1. PICK t : t = Append(s, e)
  OBVIOUS
<1>2. /\ n \in Nat /\ s \in [1..n -> Seq(S)] /\ t \in Seq(Seq(S)) /\ Len(t) = n + 1
      /\ \A i \in 1..n : t[i] = s[i]
      /\ t[n + 1] = e
  BY <1>1, LenProperties, AppendProperties
<1>3. t \in [1..n + 1 -> Seq(S)] /\ n + 1 \in Nat /\ n + 1 # 0
  BY <1>2, LenProperties
<1> HIDE DEF n
<1>4. PICK v : /\ v[1] = t[1]
               /\ \A i \in 1..n + 1 : i # 1 => v[i] = v[i - 1] \o t[i]
               /\ FlattenSeq(t) = v[n + 1]
  <2>1. PICK m : m = n + 1
    OBVIOUS
  <2>2. m \in Nat /\ m # 0 /\ t \in [1..m -> Seq(S)] /\ Len(t) = m
    BY <1>2, <1>3, <2>1
  <2>3. \E v : Flattens(v, m, t, S)
    BY <2>2, FlattenSteps
  <2> QED
    BY <2>1, <2>3 DEF Flattens
<1>5. CASE n = 0
  <2>1. s = <<>> /\ FlattenSeq(s) = <<>>
    <3>1. s = <<>>
      BY <1>5, EmptySeq DEF n
    <3> QED
      BY <3>1, FlattenEmpty
  <2>2. v[n + 1] = e
    BY <1>2, <1>4, <1>5
  <2>3. <<>> \o e = e /\ <<>> \in Seq(S)
    BY ConcatEmptySeq, EmptySeq
  <2> QED
    BY <1>1, <1>4, <2>1, <2>2, <2>3
<1>6. CASE n # 0
  <2>1. PICK u : /\ u[1] = s[1]
                 /\ \A i \in 1..n : i # 1 => u[i] = u[i - 1] \o s[i]
                 /\ \A i \in 1..n : u[i] \in Seq(S)
                 /\ FlattenSeq(s) = u[n]
    <3>1. Len(s) = n /\ n \in Nat /\ s \in [1..n -> Seq(S)]
      BY <1>2 DEF n
    <3>2. \E u : Flattens(u, n, s, S)
      BY <1>6, <3>1, FlattenSteps
    <3> QED
      BY <3>2 DEF Flattens
  <2> DEFINE T == {k \in 0..n - 1 : v[k + 1] = u[k + 1]}
  <2>2. n - 1 \in Nat /\ 1 \in 1..n /\ n \in 1..n /\ 0 \in 0..n - 1 /\ 0 + 1 = 1
    BY <1>2, <1>6
  <2>3. 0 \in T
    <3>1. v[1] = u[1]
      BY <1>2, <1>4, <2>1, <2>2
    <3> QED
      BY <2>2, <3>1
  <2>4. ASSUME NEW k \in 0..(n - 1) - 1, k \in T PROVE k + 1 \in T
    <3>1. /\ k + 1 \in 0..n - 1 /\ (k + 1) + 1 \in 1..n /\ (k + 1) + 1 \in 1..n + 1 /\ (k + 1) + 1 # 1
          /\ ((k + 1) + 1) - 1 = k + 1
      BY <2>2, <2>4
    <3>2. v[k + 1] = u[k + 1]
      BY <2>4
    <3>3. /\ v[(k + 1) + 1] = v[k + 1] \o t[(k + 1) + 1]
          /\ u[(k + 1) + 1] = u[k + 1] \o s[(k + 1) + 1]
          /\ t[(k + 1) + 1] = s[(k + 1) + 1]
      BY <1>2, <1>4, <2>1, <3>1
    <3>4. v[(k + 1) + 1] = u[(k + 1) + 1]
      BY <3>2, <3>3
    <3> QED
      BY <3>1, <3>4
  <2>5. v[n] = u[n]
    <3>1. \A k \in 0..n - 1 : k \in T
      <4> HIDE DEF T
      <4> QED
        BY <2>2, <2>3, <2>4, BoundedInduction
    <3>2. n - 1 \in 0..n - 1 /\ (n - 1) + 1 = n
      BY <2>2
    <3>3. v[(n - 1) + 1] = u[(n - 1) + 1]
      BY <3>1, <3>2
    <3> QED
      BY <3>2, <3>3
  <2>6. v[n + 1] = v[n] \o e
    <3>1. n + 1 \in 1..n + 1 /\ n + 1 # 1 /\ (n + 1) - 1 = n
      BY <1>2, <1>6
    <3> QED
      BY <1>2, <1>4, <3>1
  <2> QED
    BY <1>1, <1>4, <2>1, <2>2, <2>5, <2>6
<1> QED
  BY <1>5, <1>6

\* A blank line may stand in a body.
LEMMA BlankLine == Blank \in BodyLine
<1>1. "" \in Words
  BY SnapshotAssumption
<1>2. Blank \in [kind : {"attribute", "blank", "text"}, what : Words, n : {0}]
  BY <1>1 DEF Blank
<1>3. Blank.kind \notin {"header", "attribute"}
  BY DEF Blank
<1> QED
  BY <1>2, <1>3 DEF BodyLine, Line

\* One more line of a body adds a message, where it begins a value, and itself,
\* where it is not blank.
LEMMA ContentAppend ==
    /\ Content(<<>>).want = <<>> /\ Content(<<>>).body = <<>>
    /\ \A c \in Seq(BodyLine) : \A l \in BodyLine :
        /\ StartsValue(l) => l.what \in Messages
        /\ Content(Append(c, l)).want =
               IF StartsValue(l) THEN Append(Content(c).want, l.what) ELSE Content(c).want
        /\ Content(Append(c, l)).body =
               IF NotBlank(l) THEN Append(Content(c).body, l) ELSE Content(c).body
<1>1. Content(<<>>).want = <<>> /\ Content(<<>>).body = <<>>
  BY ContentSteps DEF Opened
<1>2. ASSUME NEW c \in Seq(BodyLine), NEW l \in BodyLine
      PROVE  /\ StartsValue(l) => l.what \in Messages
             /\ Content(Append(c, l)).want =
                    IF StartsValue(l) THEN Append(Content(c).want, l.what) ELSE Content(c).want
             /\ Content(Append(c, l)).body =
                    IF NotBlank(l) THEN Append(Content(c).body, l) ELSE Content(c).body
  <2>1. l \in Line
    BY BodyLineIs
  <2>2. StartsValue(l) => l.what \in Messages
    BY <2>1 DEF StartsValue, Line
  <2>3. PICK b : b = Content(c)
    OBVIOUS
  <2>4. b \in Raw /\ Content(Append(c, l)) = AddLine(b, l)
    BY <2>3, ContentSteps
  <2>5. PICK w, y : /\ w = IF StartsValue(l) THEN Append(b.want, l.what) ELSE b.want
                    /\ y = IF NotBlank(l) THEN Append(b.body, l) ELSE b.body
    OBVIOUS
  <2>6. AddLine(b, l) = [type |-> b.type, with_asserts |-> b.with_asserts,
                         start_line |-> b.start_line, size |-> b.size + 1, want |-> w, body |-> y]
    BY <2>1, <2>4, <2>5, AddLineIs
  <2>7. AddLine(b, l).want = w /\ AddLine(b, l).body = y
    BY <2>6
  <2> QED
    BY <2>2, <2>3, <2>4, <2>5, <2>7
<1> QED
  BY <1>1, <1>2

\* Two bodies say together what each says.
LEMMA ContentConcat ==
    ASSUME NEW c \in Seq(BodyLine)
    PROVE  \A d \in Seq(BodyLine) : /\ Content(c \o d).want = Content(c).want \o Content(d).want
                                    /\ Content(c \o d).body = Content(c).body \o Content(d).body
<1> DEFINE T == {d \in Seq(BodyLine) : /\ Content(c \o d).want = Content(c).want \o Content(d).want
                                       /\ Content(c \o d).body = Content(c).body \o Content(d).body}
<1>1. <<>> \in T
  <2>1. c \o <<>> = c /\ <<>> \in Seq(BodyLine)
    BY ConcatEmptySeq
  <2>2. Content(c).want \o <<>> = Content(c).want /\ Content(c).body \o <<>> = Content(c).body
    BY ContentType, ConcatEmptySeq
  <2> QED
    BY <2>1, <2>2, ContentAppend
<1>2. ASSUME NEW d \in Seq(BodyLine), NEW l \in BodyLine, d \in T PROVE Append(d, l) \in T
  <2>1. c \o Append(d, l) = Append(c \o d, l) /\ Append(d, l) \in Seq(BodyLine)
    BY ConcatAppend, AppendProperties
  <2>2. PICK p : p = c \o d
    OBVIOUS
  <2>3. p \in Seq(BodyLine)
    BY <2>2, ConcatProperties
  <2>4. PICK cw, cb, dw, db : /\ cw = Content(c).want /\ cb = Content(c).body
                              /\ dw = Content(d).want /\ db = Content(d).body
    OBVIOUS
  <2>5. cw \in Seq(Messages) /\ dw \in Seq(Messages) /\ cb \in Seq(Line) /\ db \in Seq(Line) /\ l \in Line
    BY <2>4, ContentType, BodyLineIs
  <2>6. Content(p).want = cw \o dw /\ Content(p).body = cb \o db
    BY <1>2, <2>2, <2>4
  <2>7. Content(Append(p, l)).want = cw \o Content(Append(d, l)).want
    <3>1. CASE StartsValue(l)
      <4>1. l.what \in Messages
        BY <3>1, <2>3, ContentAppend
      <4>2. cw \o Append(dw, l.what) = Append(cw \o dw, l.what)
        BY <2>5, <4>1, ConcatAppend
      <4> QED
        BY <2>3, <2>4, <2>6, <3>1, <4>2, ContentAppend
    <3>2. CASE ~StartsValue(l)
      BY <2>3, <2>4, <2>6, <3>2, ContentAppend
    <3> QED
      BY <3>1, <3>2
  <2>8. Content(Append(p, l)).body = cb \o Content(Append(d, l)).body
    <3>1. CASE NotBlank(l)
      <4>1. cb \o Append(db, l) = Append(cb \o db, l)
        BY <2>5, ConcatAppend
      <4> QED
        BY <2>3, <2>4, <2>6, <3>1, <4>1, ContentAppend
    <3>2. CASE ~NotBlank(l)
      BY <2>3, <2>4, <2>6, <3>2, ContentAppend
    <3> QED
      BY <3>1, <3>2
  <2> QED
    BY <2>1, <2>2, <2>4, <2>7, <2>8
<1>3. \A d \in Seq(BodyLine) : d \in T
  <2> HIDE DEF T
  <2> QED
    BY <1>1, <1>2, SeqInduction
<1> QED
  BY <1>3

\* Lines without a blank, without the start of a value, of blanks only.
FullLine == {l \in BodyLine : NotBlank(l)}
InnerLine == {l \in BodyLine : ~StartsValue(l)}

\* Lines that are not blank are all kept,
LEMMA ContentFull == \A c \in Seq(FullLine) : Content(c).body = c
<1> DEFINE T == {c \in Seq(FullLine) : Content(c).body = c}
<1>1. <<>> \in T
  BY EmptySeq, ContentAppend
<1>2. ASSUME NEW c \in Seq(FullLine), NEW l \in FullLine, c \in T PROVE Append(c, l) \in T
  <2>1. FullLine \subseteq BodyLine /\ NotBlank(l) /\ l \in BodyLine
    BY DEF FullLine
  <2>2. c \in Seq(BodyLine) /\ Append(c, l) \in Seq(FullLine)
    BY <2>1, SeqMonotonic, AppendProperties
  <2> QED
    BY <1>2, <2>1, <2>2, ContentAppend
<1>3. \A c \in Seq(FullLine) : c \in T
  <2> HIDE DEF T
  <2> QED
    BY <1>1, <1>2, SeqInduction
<1> QED
  BY <1>3

\* lines that begin no value add no message,
LEMMA ContentInner == \A c \in Seq(InnerLine) : Content(c).want = <<>>
<1> DEFINE T == {c \in Seq(InnerLine) : Content(c).want = <<>>}
<1>1. <<>> \in T
  BY EmptySeq, ContentAppend
<1>2. ASSUME NEW c \in Seq(InnerLine), NEW l \in InnerLine, c \in T PROVE Append(c, l) \in T
  <2>1. InnerLine \subseteq BodyLine /\ ~StartsValue(l) /\ l \in BodyLine
    BY DEF InnerLine
  <2>2. c \in Seq(BodyLine) /\ Append(c, l) \in Seq(InnerLine)
    BY <2>1, SeqMonotonic, AppendProperties
  <2> QED
    BY <1>2, <2>1, <2>2, ContentAppend
<1>3. \A c \in Seq(InnerLine) : c \in T
  <2> HIDE DEF T
  <2> QED
    BY <1>1, <1>2, SeqInduction
<1> QED
  BY <1>3

\* and blank lines say nothing.
LEMMA ContentBlank ==
    \A c \in Seq({Blank}) :
        c \in Seq(BodyLine) /\ Content(c).want = <<>> /\ Content(c).body = <<>>
<1> DEFINE T == {c \in Seq({Blank}) : Content(c).body = <<>>}
<1>1. <<>> \in T
  BY EmptySeq, ContentAppend
<1>2. Blank \in BodyLine /\ Blank \in InnerLine /\ ~NotBlank(Blank)
  <2>1. ~StartsValue(Blank) /\ ~NotBlank(Blank)
    BY DEF StartsValue, NotBlank, Blank
  <2> QED
    BY <2>1, BlankLine DEF InnerLine
<1>3. ASSUME NEW c \in Seq({Blank}) PROVE c \in Seq(BodyLine) /\ c \in Seq(InnerLine)
  BY <1>2, SeqMonotonic
<1>4. ASSUME NEW c \in Seq({Blank}), NEW l \in {Blank}, c \in T PROVE Append(c, l) \in T
  <2>1. Append(c, l) \in Seq({Blank}) /\ l = Blank
    BY AppendProperties
  <2> QED
    BY <1>2, <1>3, <1>4, <2>1, ContentAppend
<1>5. \A c \in Seq({Blank}) : c \in T
  <2> HIDE DEF T
  <2> QED
    BY <1>1, <1>4, SeqInduction
<1> QED
  BY <1>3, <1>5, ContentInner

\* A message printed over its lines is read as that message.
LEMMA PrintedIs ==
    ASSUME NEW m \in Messages
    PROVE  /\ Printed(m) \in Seq(BodyLine) /\ Len(Printed(m)) \in Nat \ {0}
           /\ NotBlank(Printed(m)[Len(Printed(m))])
           /\ Content(Printed(m)).want = <<m>> /\ Content(Printed(m)).body = Printed(m)
<1> DEFINE h == Height[m]
           p == Printed(m)
<1>1. h \in Nat \ {0}
  BY SnapshotAssumption
<1>2. \A j \in 1..h : Json(m, j) \in FullLine /\ (j # 1 => Json(m, j) \in InnerLine)
  <2> TAKE j \in 1..h
  <2>1. j \in Nat \ {0}
    BY <1>1
  <2>2. Json(m, j) \in BodyLine
    BY <2>1 DEF Json, BodyLine, Line
  <2>3. NotBlank(Json(m, j)) /\ (j # 1 => ~StartsValue(Json(m, j)))
    BY DEF Json, NotBlank, StartsValue
  <2> QED
    BY <2>2, <2>3 DEF FullLine, InnerLine
<1>3. p = [j \in 1..h |-> Json(m, j)]
  BY DEF Printed
<1> HIDE DEF h, p
<1>4. p \in Seq(FullLine)
  <2>1. \A j \in 1..h : Json(m, j) \in FullLine
    BY <1>2
  <2> QED
    BY <1>1, <1>3, <2>1, IsASeq
<1>5. Len(p) = h /\ \A j \in 1..h : p[j] = Json(m, j)
  BY <1>1, <1>3
<1>6. p \in Seq(BodyLine)
  <2>1. FullLine \subseteq BodyLine
    BY DEF FullLine
  <2> QED
    BY <1>4, <2>1, SeqMonotonic
<1>7. PICK r : r = SubSeq(p, 2, h)
  OBVIOUS
<1>8. r \in Seq(InnerLine)
  <2>1. \A j \in 2..h : p[j] \in InnerLine
    BY <1>1, <1>2, <1>5
  <2> QED
    BY <1>1, <1>7, <2>1, SubSeqProperties
<1>9. p = <<Json(m, 1)>> \o r
  <2>1. SubSeq(p, 1, h) = p
    BY <1>5, <1>6, SubSeqFull
  <2>2. 1 \in 1..Len(p) /\ h \in 1..Len(p) /\ 1 + 1 = 2
    BY <1>1, <1>5
  <2>3. SubSeq(p, 1, h) = <<p[1]>> \o SubSeq(p, 1 + 1, h)
    BY <1>6, <2>2, SubSeqRecursiveFirst
  <2>4. p[1] = Json(m, 1)
    BY <1>1, <1>5
  <2> QED
    BY <1>7, <2>1, <2>2, <2>3, <2>4
<1>10. Content(<<Json(m, 1)>>).want = <<m>> /\ <<Json(m, 1)>> \in Seq(BodyLine)
  <2>1. Json(m, 1) \in BodyLine /\ StartsValue(Json(m, 1)) /\ Json(m, 1).what = m
    BY <1>1, <1>2 DEF FullLine, Json, StartsValue
  <2>2. <<Json(m, 1)>> = Append(<<>>, Json(m, 1)) /\ <<m>> = Append(<<>>, m)
    BY <2>1, AppendToEmpty
  <2>3. <<>> \in Seq(BodyLine)
    BY EmptySeq
  <2>4. Content(Append(<<>>, Json(m, 1))).want = Append(<<>>, m)
    BY <2>1, <2>3, ContentAppend
  <2> QED
    BY <2>1, <2>2, <2>4
<1>11. Content(p).want = <<m>>
  <2>1. r \in Seq(BodyLine)
    <3>1. InnerLine \subseteq BodyLine
      BY DEF InnerLine
    <3> QED
      BY <1>8, <3>1, SeqMonotonic
  <2>2. Content(p).want = <<m>> \o <<>>
    BY <1>8, <1>9, <1>10, <2>1, ContentConcat, ContentInner
  <2>3. <<m>> \in Seq(Messages)
    OBVIOUS
  <2> QED
    BY <2>2, <2>3, ConcatEmptySeq
<1>12. NotBlank(p[Len(p)])
  <2>1. Len(p) \in 1..h
    BY <1>1, <1>5
  <2> QED
    BY <1>2, <1>5, <2>1 DEF FullLine
<1> QED
  BY <1>1, <1>4, <1>5, <1>6, <1>11, <1>12, ContentFull DEF p
\* A function on 1..n is a sequence.
LEMMA ListOf ==
    ASSUME NEW n \in Nat, NEW p, p = [i \in 1..n |-> p[i]], NEW S, \A i \in 1..n : p[i] \in S
    PROVE  p \in Seq(S) /\ Len(p) = n
<1>1. \A i \in 1..n : p[i] \in S
  OBVIOUS
<1>2. [i \in 1..n |-> p[i]] \in Seq(S)
  BY <1>1, IsASeq
<1>3. Len([i \in 1..n |-> p[i]]) = n
  OBVIOUS
<1> QED
  BY <1>2, <1>3

\* A list of sequences with one more at its end.
LEMMA FlattenMap ==
    ASSUME NEW n \in Nat, NEW S, NEW p \in Seq(Seq(S)), NEW q \in Seq(Seq(S)), Len(p) = n, Len(q) = n + 1,
           \A i \in 1..n : q[i] = p[i]
    PROVE  FlattenSeq(q) = FlattenSeq(p) \o q[n + 1]
<1>3. PICK e \in Seq(S) : e = q[n + 1]
  <2>1. n + 1 \in 1..Len(q)
    OBVIOUS
  <2> QED
    BY <2>1, ElementOfSeq
<1>4. q = Append(p, e)
  <2>1. PICK a : a = Append(p, e)
    OBVIOUS
  <2>2. a \in Seq(Seq(S)) /\ Len(a) = n + 1 /\ a[n + 1] = e /\ \A i \in 1..n : a[i] = p[i]
    BY <1>3, <2>1, AppendProperties
  <2>3. \A i \in 1..n + 1 : q[i] = a[i]
    <3>1. \A i \in 1..n + 1 : i = n + 1 \/ i \in 1..n
      OBVIOUS
    <3> QED
      BY <1>3, <2>2, <3>1
  <2> QED
    BY <2>1, <2>2, <2>3, SeqEqual
<1> QED
  BY <1>3, <1>4, FlattenAppend

\* The lines of messages, which a body holds blanks aside.
Lined(ms) == FlattenSeq([i \in DOMAIN ms |-> Printed(ms[i])])
Separated(i, m) == (IF i > 1 THEN <<Blank>> ELSE <<>>) \o Printed(m)

\* A message with its separator may stand in a body.
LEMMA SeparatedType ==
    ASSUME NEW i \in Nat, NEW m \in Messages PROVE Separated(i, m) \in Seq(BodyLine)
<1>1. PICK b : b = IF i > 1 THEN <<Blank>> ELSE <<>>
  OBVIOUS
<1>2. b \in Seq(BodyLine)
  <2>1. <<Blank>> \in Seq(BodyLine) /\ <<>> \in Seq(BodyLine)
    BY BlankLine
  <2> QED
    BY <1>1, <2>1
<1> QED
  BY <1>1, <1>2, PrintedIs, ConcatProperties DEF Separated

\* One more message adds its lines, and a separator before them.
LEMMA BodySteps ==
    /\ Body(<<>>) = <<>> /\ Lined(<<>>) = <<>>
    /\ \A ms \in Seq(Messages) : \A m \in Messages :
        /\ Body(Append(ms, m)) = Body(ms) \o Separated(Len(ms) + 1, m)
        /\ Lined(Append(ms, m)) = Lined(ms) \o Printed(m)
<1>1. Body(<<>>) = <<>> /\ Lined(<<>>) = <<>>
  <2>1. DOMAIN <<>> = {}
    OBVIOUS
  <2>2. [i \in DOMAIN <<>> |-> Printed(<<>>[i])] = <<>>
    BY <2>1
  <2>3. [i \in DOMAIN <<>> |-> (IF i > 1 THEN <<Blank>> ELSE <<>>) \o Printed(<<>>[i])] = <<>>
    BY <2>1
  <2> QED
    BY <2>2, <2>3, FlattenEmpty DEF Body, Lined
<1>2. ASSUME NEW ms \in Seq(Messages), NEW m \in Messages
      PROVE  /\ Body(Append(ms, m)) = Body(ms) \o Separated(Len(ms) + 1, m)
             /\ Lined(Append(ms, m)) = Lined(ms) \o Printed(m)
  <2>1. PICK n, t : n = Len(ms) /\ t = Append(ms, m)
    OBVIOUS
  <2>2. /\ n \in Nat /\ DOMAIN ms = 1..n /\ \A i \in 1..n : ms[i] \in Messages /\ t[i] = ms[i] /\ i \in Nat
        /\ t[n + 1] = m /\ DOMAIN t = 1..n + 1
    BY <2>1, LenProperties, ElementOfSeq, AppendProperties
  <2>3. Body(t) = Body(ms) \o Separated(n + 1, m)
    <3>1. PICK p, q : p = [i \in 1..n |-> Separated(i, ms[i])] /\ q = [i \in 1..n + 1 |-> Separated(i, t[i])]
      OBVIOUS
    <3>2. Body(ms) = FlattenSeq(p) /\ Body(t) = FlattenSeq(q)
      BY <2>2, <3>1 DEF Body, Separated
    <3>3. p = [i \in 1..n |-> p[i]] /\ q = [i \in 1..n + 1 |-> q[i]]
      BY <3>1
    <3>4. \A i \in 1..n : p[i] \in Seq(BodyLine) /\ q[i] = p[i]
      <4> TAKE i \in 1..n
      <4>1. i \in Nat /\ i \in 1..n + 1 /\ ms[i] \in Messages /\ t[i] = ms[i]
        BY <2>2
      <4>2. p[i] = Separated(i, ms[i]) /\ q[i] = Separated(i, t[i])
        BY <3>1, <4>1
      <4> QED
        BY <4>1, <4>2, SeparatedType
    <3>5. q[n + 1] \in Seq(BodyLine) /\ q[n + 1] = Separated(n + 1, m)
      <4>1. n + 1 \in 1..n + 1 /\ n + 1 \in Nat
        BY <2>2
      <4> QED
        BY <2>2, <3>1, <4>1, SeparatedType
    <3>6. p \in Seq(Seq(BodyLine)) /\ Len(p) = n
      <4>1. \A i \in 1..n : p[i] \in Seq(BodyLine)
        BY <3>4
      <4> QED
        BY <2>2, <3>3, <4>1, ListOf
    <3>7. q \in Seq(Seq(BodyLine)) /\ Len(q) = n + 1
      <4>1. \A i \in 1..n + 1 : q[i] \in Seq(BodyLine)
        <5>1. \A i \in 1..n + 1 : i = n + 1 \/ i \in 1..n
          BY <2>2
        <5> QED
          BY <3>4, <3>5, <5>1
      <4>2. n + 1 \in Nat
        BY <2>2
      <4> QED
        BY <3>3, <4>1, <4>2, ListOf
    <3>8. \A i \in 1..n : q[i] = p[i]
      BY <3>4
    <3>9. FlattenSeq(q) = FlattenSeq(p) \o q[n + 1]
      BY <2>2, <3>6, <3>7, <3>8, FlattenMap
    <3> QED
      BY <3>2, <3>5, <3>9
  <2>4. Lined(t) = Lined(ms) \o Printed(m)
    <3>1. PICK p, q : p = [i \in 1..n |-> Printed(ms[i])] /\ q = [i \in 1..n + 1 |-> Printed(t[i])]
      OBVIOUS
    <3>2. Lined(ms) = FlattenSeq(p) /\ Lined(t) = FlattenSeq(q)
      BY <2>2, <3>1 DEF Lined
    <3>3. p = [i \in 1..n |-> p[i]] /\ q = [i \in 1..n + 1 |-> q[i]]
      BY <3>1
    <3>4. \A i \in 1..n : p[i] \in Seq(BodyLine) /\ q[i] = p[i]
      BY <2>2, <3>1, PrintedIs
    <3>5. q[n + 1] \in Seq(BodyLine) /\ q[n + 1] = Printed(m)
      <4>1. n + 1 \in 1..n + 1
        BY <2>2
      <4> QED
        BY <2>2, <3>1, <4>1, PrintedIs
    <3>6. p \in Seq(Seq(BodyLine)) /\ Len(p) = n
      <4>1. \A i \in 1..n : p[i] \in Seq(BodyLine)
        BY <3>4
      <4> QED
        BY <2>2, <3>3, <4>1, ListOf
    <3>7. q \in Seq(Seq(BodyLine)) /\ Len(q) = n + 1
      <4>1. \A i \in 1..n + 1 : q[i] \in Seq(BodyLine)
        <5>1. \A i \in 1..n + 1 : i = n + 1 \/ i \in 1..n
          BY <2>2
        <5> QED
          BY <3>4, <3>5, <5>1
      <4>2. n + 1 \in Nat
        BY <2>2
      <4> QED
        BY <3>3, <4>1, <4>2, ListOf
    <3>8. \A i \in 1..n : q[i] = p[i]
      BY <3>4
    <3>9. FlattenSeq(q) = FlattenSeq(p) \o q[n + 1]
      BY <2>2, <3>6, <3>7, <3>8, FlattenMap
    <3> QED
      BY <3>2, <3>5, <3>9
  <2> QED
    BY <2>1, <2>3, <2>4
<1> QED
  BY <1>1, <1>2

\* A body is parsed as the messages it was written for.
BodyHolds(b, ms) ==
    /\ b \in Seq(BodyLine)
    /\ Content(b).want = ms /\ Content(b).body = Lined(ms)
    /\ ms # <<>> => Len(b) \in Nat \ {0} /\ NotBlank(b[Len(b)])

\* What is written for a list of messages is parsed as that list: the separator is
\* content of no message.
LEMMA BodyIs == \A ms \in Seq(Messages) : BodyHolds(Body(ms), ms)
<1> DEFINE T == {ms \in Seq(Messages) : BodyHolds(Body(ms), ms)}
<1>1. <<>> \in T
  BY EmptySeq, BodySteps, ContentAppend DEF BodyHolds
<1>2. ASSUME NEW ms \in Seq(Messages), NEW m \in Messages, ms \in T PROVE Append(ms, m) \in T
  <2>1. PICK n, b, p, s : /\ n = Len(ms) + 1 /\ b = Body(ms) /\ p = Printed(m) /\ s = Separated(n, m)
    OBVIOUS
  <2>2. BodyHolds(b, ms)
    BY <1>2, <2>1
  <2>3. n \in Nat /\ Append(ms, m) \in Seq(Messages)
    BY <2>1, LenProperties, AppendProperties
  <2>4. Body(Append(ms, m)) = b \o s /\ Lined(Append(ms, m)) = Lined(ms) \o p
    BY <2>1, BodySteps
  <2>5. /\ p \in Seq(BodyLine) /\ Len(p) \in Nat \ {0} /\ NotBlank(p[Len(p)])
        /\ Content(p).want = <<m>> /\ Content(p).body = p
    BY <2>1, PrintedIs
  <2>6. PICK g \in Seq({Blank}) : s = g \o p
    <3>1. <<Blank>> \in Seq({Blank}) /\ <<>> \in Seq({Blank})
      BY EmptySeq
    <3> QED
      BY <2>1, <3>1 DEF Separated
  <2>7. g \in Seq(BodyLine) /\ Content(g).want = <<>> /\ Content(g).body = <<>>
    BY ContentBlank
  <2>8. s \in Seq(BodyLine) /\ Content(s).want = <<m>> /\ Content(s).body = p
    <3>1. <<>> \o <<m>> = <<m>> /\ <<>> \o p = p
      <4>1. <<m>> \in Seq(Messages)
        OBVIOUS
      <4> QED
        BY <2>5, <4>1, ConcatEmptySeq
    <3> QED
      BY <2>5, <2>6, <2>7, <3>1, ContentConcat, ConcatProperties
  <2>9. b \o s \in Seq(BodyLine) /\ Content(b \o s).want = ms \o <<m>> /\ Content(b \o s).body = Lined(ms) \o p
    BY <2>2, <2>8, ContentConcat, ConcatProperties DEF BodyHolds
  <2>10. ms \o <<m>> = Append(ms, m)
    BY AppendIsConcat
  <2>11. Len(b \o s) \in Nat \ {0} /\ NotBlank((b \o s)[Len(b \o s)])
    <3>1. /\ Len(b) \in Nat /\ Len(g) \in Nat /\ b \in Seq(BodyLine)
      BY <2>2, <2>6, LenProperties DEF BodyHolds
    <3>2. /\ Len(s) = Len(g) + Len(p)
          /\ \A i \in 1..Len(g) + Len(p) : s[i] = IF i <= Len(g) THEN g[i] ELSE p[i - Len(g)]
      BY <2>5, <2>6, <2>7, ConcatProperties
    <3>3. /\ Len(b \o s) = Len(b) + Len(s)
          /\ \A i \in 1..Len(b) + Len(s) : (b \o s)[i] = IF i <= Len(b) THEN b[i] ELSE s[i - Len(b)]
      BY <2>8, <3>1, ConcatProperties
    <3>4. PICK x, y, z, v : x = Len(b) /\ y = Len(g) /\ z = Len(p) /\ v = b \o s
      OBVIOUS
    <3>5. x \in Nat /\ y \in Nat /\ z \in Nat \ {0} /\ Len(s) = y + z /\ Len(v) = x + (y + z)
      BY <2>5, <3>1, <3>2, <3>3, <3>4
    <3>6. s[y + z] = p[z]
      <4>1. y + z \in 1..y + z /\ ~(y + z <= y) /\ (y + z) - y = z
        BY <3>5
      <4> QED
        BY <3>2, <3>4, <4>1
    <3>7. v[x + (y + z)] = s[y + z]
      <4>1. x + (y + z) \in 1..x + (y + z) /\ ~(x + (y + z) <= x) /\ (x + (y + z)) - x = y + z
        BY <3>5
      <4> QED
        BY <3>3, <3>4, <3>5, <4>1
    <3> QED
      BY <2>5, <3>4, <3>5, <3>6, <3>7
  <2> QED
    BY <2>3, <2>4, <2>9, <2>10, <2>11 DEF BodyHolds
<1>3. \A ms \in Seq(Messages) : ms \in T
  <2> HIDE DEF T
  <2> QED
    BY <1>1, <1>2, SeqInduction
<1> QED
  BY <1>3
-----------------------------------------------------------------------------
(* The layout of a file: gap, header and body of each section              *)

\* Section k: after line a comes a gap, the header is line b, the body ends at c.
\* Above the first header a gap may hold anything but a header.
GapLine(k) == {l \in Line : ~IsHeader(l) /\ (k > 1 => l.kind = "attribute")}

SectionAt(text, k, a, b, c) ==
    /\ a \in Nat /\ b \in Nat /\ c \in Nat
    /\ a < b /\ b <= c /\ c <= Len(text)
    /\ IsHeader(text[b])
    /\ \A i \in b + 1..c : text[i] \in BodyLine
    /\ \A i \in a + 1..b - 1 : text[i] \in GapLine(k)

\* The first m lines hold n sections and begin a gap.
Laid(text, m, n, h, e) ==
    /\ n \in Nat /\ e[0] = 0
    /\ \A k \in 1..n : SectionAt(text, k, e[k - 1], h[k], e[k])
    /\ e[n] \in Nat /\ e[n] <= m
    /\ \A i \in e[n] + 1..m : text[i] \in GapLine(n + 1)

Layout(text, n, h, e) == Laid(text, Len(text), n, h, e) /\ (n > 0 => e[n] = Len(text))

\* One more line.
LEMMA LaidHeader ==
    ASSUME NEW text \in Seq(Line), NEW m \in 0..Len(text) - 1, NEW n, NEW h, NEW e,
           Laid(text, m, n, h, e), IsHeader(text[m + 1])
    PROVE  \E n2, h2, e2 : Laid(text, m + 1, n2, h2, e2)
<1> DEFINE h2 == [k \in Nat |-> IF k = n + 1 THEN m + 1 ELSE h[k]]
           e2 == [k \in Nat |-> IF k = n + 1 THEN m + 1 ELSE e[k]]
<1>1. n \in Nat /\ m \in Nat /\ m + 1 <= Len(text) /\ e[n] \in Nat /\ e[n] <= m /\ e[0] = 0
  BY LenProperties DEF Laid
<1>2. /\ h2[n + 1] = m + 1 /\ e2[n + 1] = m + 1
      /\ \A k \in 0..n : h2[k] = h[k] /\ e2[k] = e[k]
  BY <1>1
<1> HIDE DEF h2, e2
<1>3. SectionAt(text, n + 1, e[n], m + 1, m + 1)
  <2>1. \A i \in e[n] + 1..(m + 1) - 1 : text[i] \in GapLine(n + 1)
    BY <1>1 DEF Laid
  <2>2. \A i \in (m + 1) + 1..m + 1 : text[i] \in BodyLine
    BY <1>1
  <2> QED
    BY <1>1, <2>1, <2>2 DEF SectionAt
<1>4. \A k \in 1..n + 1 : SectionAt(text, k, e2[k - 1], h2[k], e2[k])
  <2> TAKE k \in 1..n + 1
  <2>1. CASE k = n + 1
    <3>1. k - 1 = n /\ n \in 0..n
      BY <1>1, <2>1
    <3> QED
      BY <1>2, <1>3, <2>1, <3>1
  <2>2. CASE k \in 1..n
    <3>1. k - 1 \in 0..n /\ k \in 0..n
      BY <1>1, <2>2
    <3>2. SectionAt(text, k, e[k - 1], h[k], e[k])
      BY <2>2 DEF Laid
    <3> QED
      BY <1>2, <3>1, <3>2
  <2>3. k = n + 1 \/ k \in 1..n
    BY <1>1
  <2> QED
    BY <2>1, <2>2, <2>3
<1>5. Laid(text, m + 1, n + 1, h2, e2)
  <2>1. 0 \in 0..n
    BY <1>1
  <2>2. \A i \in (m + 1) + 1..m + 1 : text[i] \in GapLine((n + 1) + 1)
    BY <1>1
  <2> QED
    BY <1>1, <1>2, <1>4, <2>1, <2>2 DEF Laid
<1> QED
  BY <1>5

\* A line of a body ends the section one line later,
LEMMA LaidBody ==
    ASSUME NEW text \in Seq(Line), NEW m \in 0..Len(text) - 1, NEW n, NEW h, NEW e,
           Laid(text, m, n, h, e), n > 0, e[n] = m, text[m + 1] \in BodyLine
    PROVE  \E e2 : Laid(text, m + 1, n, h, e2)
<1> DEFINE e2 == [k \in Nat |-> IF k = n THEN m + 1 ELSE e[k]]
<1>1. n \in Nat /\ n \in 1..n /\ m \in Nat /\ m + 1 <= Len(text) /\ e[0] = 0
  BY LenProperties DEF Laid
<1>2. e2[n] = m + 1 /\ \A k \in 0..n - 1 : e2[k] = e[k]
  BY <1>1
<1> HIDE DEF e2
<1>3. SectionAt(text, n, e[n - 1], h[n], m + 1)
  <2>1. SectionAt(text, n, e[n - 1], h[n], m)
    BY <1>1 DEF Laid
  <2>2. \A i \in h[n] + 1..m + 1 : text[i] \in BodyLine
    <3>1. \A i \in h[n] + 1..m : text[i] \in BodyLine
      BY <2>1 DEF SectionAt
    <3>2. h[n] \in Nat
      BY <2>1 DEF SectionAt
    <3>3. \A i \in h[n] + 1..m + 1 : i \in h[n] + 1..m \/ i = m + 1
      BY <1>1, <3>2
    <3> QED
      BY <3>1, <3>3
  <2>3. h[n] <= m + 1
    BY <1>1, <2>1 DEF SectionAt
  <2> QED
    BY <1>1, <2>1, <2>2, <2>3 DEF SectionAt
<1>4. \A k \in 1..n : SectionAt(text, k, e2[k - 1], h[k], e2[k])
  <2> TAKE k \in 1..n
  <2>1. k - 1 \in 0..n - 1
    BY <1>1
  <2>2. CASE k = n
    BY <1>2, <1>3, <2>1, <2>2
  <2>3. CASE k # n
    <3>1. k \in 0..n - 1
      BY <1>1, <2>3
    <3>2. SectionAt(text, k, e[k - 1], h[k], e[k])
      BY DEF Laid
    <3> QED
      BY <1>2, <2>1, <3>1, <3>2
  <2> QED
    BY <2>2, <2>3
<1>5. e2[0] = 0
  BY <1>1, <1>2
<1>6. \A i \in (m + 1) + 1..m + 1 : text[i] \in GapLine(n + 1)
  BY <1>1
<1>7. Laid(text, m + 1, n, h, e2)
  BY <1>1, <1>2, <1>4, <1>5, <1>6 DEF Laid
<1> QED
  BY <1>7

\* and a line of a gap leaves the sections as they are.
LEMMA LaidGap ==
    ASSUME NEW text \in Seq(Line), NEW m \in 0..Len(text) - 1, NEW n, NEW h, NEW e,
           Laid(text, m, n, h, e), text[m + 1] \in GapLine(n + 1)
    PROVE  Laid(text, m + 1, n, h, e)
<1>1. m \in Nat /\ e[n] \in Nat /\ e[n] <= m
  BY LenProperties DEF Laid
<1>2. \A i \in e[n] + 1..m + 1 : text[i] \in GapLine(n + 1)
  <2>1. \A i \in e[n] + 1..m + 1 : i \in e[n] + 1..m \/ i = m + 1
    BY <1>1
  <2>2. \A i \in e[n] + 1..m : text[i] \in GapLine(n + 1)
    BY DEF Laid
  <2> QED
    BY <2>1, <2>2
<1>3. e[n] <= m + 1
  BY <1>1
<1> QED
  BY <1>1, <1>2, <1>3 DEF Laid

\* A file whose attributes stand above headers has a layout.
LEMMA LayoutExists ==
    ASSUME NEW text \in Seq(Line), AttributesAdjacent(text)
    PROVE  \E n, h, e : Layout(text, n, h, e)
<1> DEFINE N == Len(text)
           T == {m \in 0..N : \E n, h, e : Laid(text, m, n, h, e)}
<1>1. N \in Nat /\ DOMAIN text = 1..N
  BY LenProperties
<1>2. 0 \in T
  <2>1. PICK e : e = [k \in Nat |-> 0]
    OBVIOUS
  <2>2. e[0] = 0
    BY <2>1
  <2>3. Laid(text, 0, 0, e, e)
    <3>1. \A k \in 1..0 : SectionAt(text, k, e[k - 1], e[k], e[k])
      OBVIOUS
    <3>2. \A i \in 0 + 1..0 : text[i] \in GapLine(0 + 1)
      OBVIOUS
    <3> QED
      BY <2>2, <3>1, <3>2 DEF Laid
  <2> QED
    BY <1>1, <2>3
<1>3. ASSUME NEW m \in 0..N - 1, m \in T PROVE m + 1 \in T
  <2>1. PICK n, h, e : Laid(text, m, n, h, e)
    BY <1>3
  <2>2. n \in Nat /\ m \in Nat /\ m + 1 \in 1..N /\ e[n] \in Nat /\ e[n] <= m /\ m + 1 \in 0..N
    BY <1>1, <2>1 DEF Laid
  <2>3. PICK l \in Line : l = text[m + 1]
    BY <2>2, ElementOfSeq
  <2> HIDE DEF N
  <2>4. CASE IsHeader(l)
    <3>1. \E n2, h2, e2 : Laid(text, m + 1, n2, h2, e2)
      BY <2>1, <2>3, <2>4, LaidHeader DEF N
    <3> QED
      BY <2>2, <3>1
  <2>5. CASE ~IsHeader(l) /\ l.kind = "attribute"
    <3>1. l \in GapLine(n + 1)
      BY <2>5 DEF GapLine
    <3>2. Laid(text, m + 1, n, h, e)
      BY <2>1, <2>3, <3>1, LaidGap DEF N
    <3> QED
      BY <2>2, <3>2
  <2>6. CASE ~IsHeader(l) /\ l.kind # "attribute" /\ n = 0
    <3>1. l \in GapLine(n + 1)
      BY <2>6 DEF GapLine
    <3>2. Laid(text, m + 1, n, h, e)
      BY <2>1, <2>3, <3>1, LaidGap DEF N
    <3> QED
      BY <2>2, <3>2
  <2>7. CASE ~IsHeader(l) /\ l.kind # "attribute" /\ n # 0 /\ e[n] = m
    <3>1. l \in BodyLine
      BY <2>7 DEF BodyLine, IsHeader
    <3>2. n > 0
      BY <2>2, <2>7
    <3>3. \E e2 : Laid(text, m + 1, n, h, e2)
      BY <2>1, <2>3, <2>7, <3>1, <3>2, LaidBody DEF N
    <3> QED
      BY <2>2, <3>3
  <2>8. CASE ~IsHeader(l) /\ l.kind # "attribute" /\ n # 0 /\ e[n] # m
    <3>1. m \in e[n] + 1..m /\ n + 1 > 1 /\ m \in 1..N /\ m \in DOMAIN text
      BY <1>1, <2>2, <2>8 DEF N
    <3>2. text[m] \in GapLine(n + 1)
      BY <2>1, <3>1 DEF Laid
    <3>3. text[m].kind = "attribute"
      BY <3>1, <3>2 DEF GapLine
    <3>4. text[m + 1].kind \in {"attribute", "header"}
      BY <3>1, <3>3 DEF AttributesAdjacent
    <3> QED
      BY <2>3, <2>8, <3>4 DEF IsHeader
  <2> QED
    BY <2>4, <2>5, <2>6, <2>7, <2>8
<1>4. PICK n, h, e : Laid(text, N, n, h, e)
  <2>1. \A m \in 0..N : m \in T
    <3> HIDE DEF T
    <3> QED
      BY <1>1, <1>2, <1>3, BoundedInduction
  <2>2. N \in 0..N
    BY <1>1
  <2>3. N \in T
    <3> HIDE DEF T
    <3> QED
      BY <2>1, <2>2
  <2> QED
    BY <2>3
<1>5. n > 0 => e[n] = N
  <2> SUFFICES ASSUME n > 0, e[n] # N PROVE FALSE
    OBVIOUS
  <2>1. n \in Nat /\ e[n] \in Nat /\ e[n] <= N
    BY <1>4 DEF Laid
  <2>2. N \in e[n] + 1..N /\ N \in DOMAIN text /\ n + 1 > 1
    BY <1>1, <2>1
  <2>3. text[N] \in GapLine(n + 1)
    BY <1>4, <2>2 DEF Laid
  <2>4. text[N].kind = "attribute"
    BY <2>2, <2>3 DEF GapLine
  <2>5. N < Len(text)
    BY <2>2, <2>4 DEF AttributesAdjacent
  <2> QED
    BY <1>1, <2>5
<1> QED
  BY <1>4, <1>5 DEF Layout
\* The parts of a section.
Gap(text, a, b) == SubSeq(text, a + 1, b - 1)
Inner(text, b, c) == SubSeq(text, b + 1, c)

PartsOf(text, a, b, c) ==
    SubSeq(text, 1, c) = Append(SubSeq(text, 1, a) \o Gap(text, a, b), text[b]) \o Inner(text, b, c)

\* The parts of a section are of their types, and make up the file up to its end.
LEMMA Pieces ==
    ASSUME NEW text \in Seq(Line), NEW k, NEW a, NEW b, NEW c, SectionAt(text, k, a, b, c)
    PROVE  /\ SubSeq(text, 1, a) \in Seq(Line) /\ Len(SubSeq(text, 1, a)) = a
           /\ Gap(text, a, b) \in Seq(GapLine(k)) /\ Gap(text, a, b) \in Seq(Line)
           /\ Inner(text, b, c) \in Seq(BodyLine) /\ Len(Inner(text, b, c)) = c - b
           /\ text[b] \in Line /\ IsHeader(text[b])
           /\ SubSeq(text, 1, a) \o Gap(text, a, b) \in Seq(Line)
           /\ Len(SubSeq(text, 1, a) \o Gap(text, a, b)) = b - 1
           /\ PartsOf(text, a, b, c)
<1>1. /\ a \in Nat /\ b \in Nat /\ c \in Nat /\ a < b /\ b <= c /\ c <= Len(text) /\ Len(text) \in Nat
      /\ IsHeader(text[b])
      /\ \A i \in b + 1..c : text[i] \in BodyLine
      /\ \A i \in a + 1..b - 1 : text[i] \in GapLine(k)
  BY LenProperties DEF SectionAt
<1>2. PICK p, g, y : p = SubSeq(text, 1, a) /\ g = Gap(text, a, b) /\ y = Inner(text, b, c)
  OBVIOUS
<1>3. p \in Seq(Line) /\ Len(p) = a
  <2>1. \A i \in 1..a : text[i] \in Line
    <3>1. \A i \in 1..a : i \in 1..Len(text)
      BY <1>1
    <3> QED
      BY <3>1, ElementOfSeq
  <2>2. 1 \in Int /\ a \in Int /\ (IF 1 <= a THEN a - 1 + 1 ELSE 0) = a
    BY <1>1
  <2> QED
    BY <1>2, <2>1, <2>2, SubSeqProperties
<1>4. g \in Seq(GapLine(k)) /\ Len(g) = b - 1 - a
  <2>1. a + 1 \in Int /\ b - 1 \in Int /\ (IF a + 1 <= b - 1 THEN (b - 1) - (a + 1) + 1 ELSE 0) = b - 1 - a
    BY <1>1
  <2> QED
    BY <1>1, <1>2, <2>1, SubSeqProperties DEF Gap
<1>5. y \in Seq(BodyLine) /\ Len(y) = c - b
  <2>1. b + 1 \in Int /\ c \in Int /\ (IF b + 1 <= c THEN c - (b + 1) + 1 ELSE 0) = c - b
    BY <1>1
  <2> QED
    BY <1>1, <1>2, <2>1, SubSeqProperties DEF Inner
<1>6. text[b] \in Line
  <2>1. b \in 1..Len(text)
    BY <1>1
  <2> QED
    BY <2>1, ElementOfSeq
<1>7. g \in Seq(Line)
  <2>1. GapLine(k) \subseteq Line
    BY DEF GapLine
  <2> QED
    BY <1>4, <2>1, SeqMonotonic
<1>8. p \o g \in Seq(Line) /\ Len(p \o g) = b - 1
  <2>1. Len(p \o g) = Len(p) + Len(g) /\ p \o g \in Seq(Line)
    BY <1>3, <1>7, ConcatProperties
  <2> QED
    BY <1>1, <1>3, <1>4, <2>1
<1>9. p \o g = SubSeq(text, 1, b - 1)
  <2>1. 1 \in 1..Len(text) + 1 /\ a \in 1 - 1..Len(text) /\ b - 1 \in a..Len(text)
    BY <1>1
  <2> QED
    BY <1>2, <2>1, ConcatAdjacentSubSeq DEF Gap
<1>10. Append(p \o g, text[b]) = SubSeq(text, 1, b)
  <2>1. 1 \in 1..Len(text) /\ b \in 1..Len(text)
    BY <1>1
  <2>2. SubSeq(text, 1, b) = SubSeq(text, 1, b - 1) \o <<text[b]>>
    BY <2>1, SubSeqRecursiveSecond
  <2>3. Append(p \o g, text[b]) = (p \o g) \o <<text[b]>>
    BY <1>6, <1>8, AppendIsConcat
  <2> QED
    BY <1>9, <2>2, <2>3
<1>11. SubSeq(text, 1, b) \o y = SubSeq(text, 1, c)
  <2>1. 1 \in 1..Len(text) + 1 /\ b \in 1 - 1..Len(text) /\ c \in b..Len(text)
    BY <1>1
  <2> QED
    BY <1>2, <2>1, ConcatAdjacentSubSeq DEF Inner
<1>12. PartsOf(text, a, b, c)
  BY <1>2, <1>10, <1>11 DEF PartsOf
<1> QED
  BY <1>1, <1>2, <1>3, <1>4, <1>5, <1>6, <1>7, <1>8, <1>12

\* What the parser makes of one section.
Parsed(text, a, b) ==
    [type |-> text[a].what, with_asserts |-> text[a].n = 1, start_line |-> a - 1, end_line |-> b,
     want |-> Content(Inner(text, a, b)).want, body |-> Content(Inner(text, a, b)).body]

\* The parser adds one section for each header.
LEMMA FoundNext ==
    ASSUME NEW text \in Seq(Line), NEW k \in Nat \ {0}, NEW a, NEW b, NEW c, SectionAt(text, k, a, b, c),
           k = 1 => a = 0
    PROVE  Found(SubSeq(text, 1, c))
             = Append(Found(SubSeq(text, 1, a)), SectionOf(text[b], b, Inner(text, b, c)))
<1>1. PICK p, g, y, l : p = SubSeq(text, 1, a) /\ g = Gap(text, a, b) /\ y = Inner(text, b, c) /\ l = text[b]
  OBVIOUS
<1>2. /\ p \in Seq(Line) /\ Len(p) = a /\ g \in Seq(GapLine(k)) /\ y \in Seq(BodyLine)
      /\ l \in Line /\ IsHeader(l)
      /\ p \o g \in Seq(Line) /\ Len(p \o g) = b - 1
      /\ SubSeq(text, 1, c) = Append(p \o g, l) \o y
  <2>1. /\ SubSeq(text, 1, a) \in Seq(Line) /\ Len(SubSeq(text, 1, a)) = a
        /\ Gap(text, a, b) \in Seq(GapLine(k)) /\ Inner(text, b, c) \in Seq(BodyLine)
        /\ text[b] \in Line /\ IsHeader(text[b])
    BY Pieces
  <2>2. /\ SubSeq(text, 1, a) \o Gap(text, a, b) \in Seq(Line)
        /\ Len(SubSeq(text, 1, a) \o Gap(text, a, b)) = b - 1
    BY Pieces
  <2>3. SubSeq(text, 1, c) = Append(SubSeq(text, 1, a) \o Gap(text, a, b), text[b]) \o Inner(text, b, c)
    <3>1. PartsOf(text, a, b, c)
      BY Pieces
    <3> QED
      BY <3>1 DEF PartsOf
  <2> QED
    BY <1>1, <2>1, <2>2, <2>3
<1>3. Found(p \o g) = Found(p)
  <2>1. GapLine(k) \in SUBSET Line /\ \A x \in GapLine(k) : ~IsHeader(x)
    BY DEF GapLine
  <2>2. ASSUME NEW x \in GapLine(k) PROVE x.kind = "attribute" \/ Found(p) = <<>>
    <3>1. CASE k > 1
      BY <3>1 DEF GapLine
    <3>2. CASE ~(k > 1)
      <4>1. a = 0
        BY <3>2
      <4>2. p = <<>>
        BY <1>2, <4>1, EmptySeq
      <4> QED
        BY <4>2, FoundNothing
    <3> QED
      BY <3>1, <3>2
  <2> QED
    BY <1>2, <2>1, <2>2, FoundGap
<1>4. Found(Append(p \o g, l) \o y) = Append(Found(p \o g), SectionOf(l, Len(p \o g) + 1, y))
  <2>1. PICK q : q = p \o g
    OBVIOUS
  <2>2. q \in Seq(Line)
    BY <1>2, <2>1
  <2> QED
    BY <1>2, <2>1, <2>2, FoundSection
<1>5. (b - 1) + 1 = b
  BY DEF SectionAt
<1> QED
  BY <1>1, <1>2, <1>3, <1>4, <1>5

\* The sections of a file are those of its layout.
LEMMA SectionsLaid ==
    ASSUME NEW text \in Seq(Line), NEW n, NEW h, NEW e, Layout(text, n, h, e)
    PROVE  /\ n \in Nat /\ DOMAIN Sections(text) = 1..n /\ Len(Sections(text)) = n
           /\ \A k \in 1..n : Sections(text)[k] = Parsed(text, h[k], e[k])
<1> DEFINE S(k) == SectionOf(text[h[k]], h[k], Inner(text, h[k], e[k]))
           P(k) == SubSeq(text, 1, e[k])
           T == {k \in 0..n : Len(Found(P(k))) = k /\ \A j \in 1..k : Found(P(k))[j] = S(j)}
<1>1. /\ n \in Nat /\ e[0] = 0 /\ \A k \in 1..n : SectionAt(text, k, e[k - 1], h[k], e[k])
      /\ n > 0 => e[n] = Len(text)
      /\ e[n] \in Nat /\ \A i \in e[n] + 1..Len(text) : text[i] \in GapLine(n + 1)
  BY DEF Layout, Laid
<1>2. 0 \in T
  <2>1. P(0) = <<>>
    BY <1>1, SubSeqEmpty
  <2>2. Len(Found(P(0))) = 0
    <3>1. Len(<<>>) = 0
      OBVIOUS
    <3> HIDE DEF P
    <3> QED
      BY <2>1, <3>1, FoundNothing
  <2> HIDE DEF P, S
  <2> QED
    BY <1>1, <2>2
<1>3. ASSUME NEW k \in 0..n - 1, k \in T PROVE k + 1 \in T
  <2>1. k + 1 \in 1..n /\ k + 1 \in 0..n /\ (k + 1) - 1 = k /\ k + 1 \in Nat \ {0} /\ (k + 1 = 1 => k = 0)
    BY <1>1
  <2>2. SectionAt(text, k + 1, e[k], h[k + 1], e[k + 1])
    BY <1>1, <2>1
  <2>3. Found(P(k + 1)) = Append(Found(P(k)), S(k + 1))
    BY <1>1, <2>1, <2>2, FoundNext
  <2>4. Found(P(k)) \in Seq(Raw)
    BY <2>2, Pieces, FoundType
  <2>5. S(k + 1) \in Raw
    <3>1. h[k + 1] \in Nat \ {0}
      BY <2>2 DEF SectionAt
    <3> QED
      BY <2>2, <3>1, Pieces, SectionOfType
  <2>6. Len(Found(P(k))) = k /\ \A j \in 1..k : Found(P(k))[j] = S(j)
    BY <1>3
  <2>7. PICK f, s, g : f = Found(P(k)) /\ s = S(k + 1) /\ g = Found(P(k + 1))
    OBVIOUS
  <2>8. /\ g = Append(f, s) /\ f \in Seq(Raw) /\ s \in Raw /\ Len(f) = k
        /\ \A j \in 1..k : f[j] = S(j)
    BY <2>3, <2>4, <2>5, <2>6, <2>7
  <2> HIDE DEF P, S
  <2>9. Len(g) = k + 1 /\ g[k + 1] = s /\ \A j \in 1..k : g[j] = f[j]
    BY <2>8, AppendProperties
  <2>10. \A j \in 1..k + 1 : g[j] = S(j)
    <3>1. \A j \in 1..k + 1 : j = k + 1 \/ j \in 1..k
      BY <2>1
    <3> QED
      BY <2>7, <2>8, <2>9, <3>1
  <2> QED
    BY <2>1, <2>7, <2>9, <2>10
<1>4. Len(Found(P(n))) = n /\ \A j \in 1..n : Found(P(n))[j] = S(j)
  <2>1. \A k \in 0..n : k \in T
    <3> HIDE DEF T
    <3> QED
      BY <1>1, <1>2, <1>3, BoundedInduction
  <2>2. n \in 0..n
    BY <1>1
  <2>3. n \in T
    <3> HIDE DEF T
    <3> QED
      BY <2>1, <2>2
  <2> QED
    BY <2>3
<1> HIDE DEF T
<1>5. Found(text) = Found(P(n))
  <2>1. CASE n > 0
    BY <1>1, <2>1, SubSeqFull
  <2>2. CASE ~(n > 0)
    <3>1. n = 0 /\ e[n] = 0 /\ Len(text) \in Nat
      BY <1>1, <2>2, LenProperties
    <3>2. P(n) = <<>>
      BY <3>1, SubSeqEmpty
    <3>3. text \in Seq(GapLine(1))
      <4>1. \A i \in 1..Len(text) : text[i] \in GapLine(1)
        BY <1>1, <3>1
      <4>2. SubSeq(text, 1, Len(text)) \in Seq(GapLine(1))
        BY <3>1, <4>1, SubSeqProperties
      <4> QED
        BY <4>2, SubSeqFull
    <3>4. GapLine(1) \in SUBSET Line /\ \A x \in GapLine(1) : ~IsHeader(x)
      BY DEF GapLine
    <3>5. Found(<<>> \o text) = Found(<<>>)
      <4>1. <<>> \in Seq(Line)
        BY EmptySeq
      <4> QED
        BY <3>3, <3>4, <4>1, FoundNothing, FoundGap
    <3>6. <<>> \o text = text
      BY ConcatEmptySeq
    <3> QED
      BY <3>2, <3>5, <3>6
  <2> QED
    BY <2>1, <2>2
<1>6. PICK f : f = Found(text)
  OBVIOUS
<1>7. f \in Seq(Raw) /\ Len(f) = n /\ DOMAIN f = 1..n /\ \A j \in 1..n : f[j] = S(j)
  <2>1. f \in Seq(Raw)
    BY <1>6, FoundType
  <2> HIDE DEF P, S
  <2> QED
    BY <1>4, <1>5, <1>6, <2>1, LenProperties
<1>8. Sections(text) = [k \in 1..n |->
            [type |-> f[k].type, with_asserts |-> f[k].with_asserts,
             start_line |-> f[k].start_line, end_line |-> EndLine(text, f, k),
             want |-> f[k].want, body |-> f[k].body]]
  BY <1>6, <1>7 DEF Sections
<1>9. ASSUME NEW k \in 1..n PROVE Sections(text)[k] = Parsed(text, h[k], e[k])
  <2>1. f[k] = SectionOf(text[h[k]], h[k], Inner(text, h[k], e[k]))
    BY <1>7
  <2>2. /\ f[k].type = text[h[k]].what /\ f[k].with_asserts = (text[h[k]].n = 1)
        /\ f[k].start_line = h[k] - 1 /\ f[k].size = Len(Inner(text, h[k], e[k]))
        /\ f[k].want = Content(Inner(text, h[k], e[k])).want
        /\ f[k].body = Content(Inner(text, h[k], e[k])).body
    BY <2>1 DEF SectionOf
  <2>3. EndLine(text, f, k) = e[k]
    <3>1. CASE k = n
      <4>1. n > 0
        BY <1>1
      <4> QED
        BY <1>1, <1>7, <3>1, <4>1 DEF EndLine
    <3>2. CASE k # n
      <4>1. SectionAt(text, k, e[k - 1], h[k], e[k])
        BY <1>1
      <4>2. f[k].size = e[k] - h[k] /\ h[k] \in Nat /\ e[k] \in Nat
        <5>1. Len(Inner(text, h[k], e[k])) = e[k] - h[k]
          BY <4>1, Pieces
        <5>2. h[k] \in Nat /\ e[k] \in Nat
          BY <4>1 DEF SectionAt
        <5> HIDE DEF S, P
        <5> QED
          BY <2>2, <5>1, <5>2
      <4>3. EndLine(text, f, k) = (h[k] - 1) + (e[k] - h[k]) + 1
        BY <1>7, <2>2, <3>2, <4>2 DEF EndLine
      <4> QED
        BY <4>2, <4>3
    <3> QED
      BY <3>1, <3>2
  <2> HIDE DEF S, P
  <2> QED
    BY <1>8, <2>2, <2>3 DEF Parsed
<1>10. DOMAIN Sections(text) = 1..n /\ Len(Sections(text)) = n
  BY <1>1, <1>8
<1> QED
  BY <1>1, <1>9, <1>10
\* What WriteSection needs to know of a section.
IsSection(s) ==
    /\ s.type \in Words
    /\ s.start_line \in Nat /\ s.end_line \in Nat
    /\ s.with_asserts \in BOOLEAN /\ s.want \in Seq(Messages)

IsSections(sections) ==
    Len(sections) \in Nat /\ \A k \in 1..Len(sections) : IsSection(sections[k])

-----------------------------------------------------------------------------
(* Writing                                                                 *)

\* What has been written when at most n messages are dealt.
Done(n) == [new_lines : Seq(Line), current_line : Nat, msg_idx : 0..n]

\* Blank lines are counted, whatever the range asked about.
LEMMA TrailingBlanks ==
    ASSUME NEW lines \in Seq(Line), NEW start \in Nat, NEW end \in Nat
    PROVE  trailing_blank_line_count(lines, start, end) \in Nat
<1> DEFINE N == Len(lines)
           upper == IF end < Len(lines) THEN end ELSE Len(lines)
           blanks == {n \in 1..Len(lines) : /\ start + n <= upper
                                            /\ \A i \in (upper - n + 1)..upper : lines[i] = Blank}
<1>1. N \in Nat /\ blanks \in SUBSET (0..N)
  BY LenProperties
<1>2. blanks # {} => \E n \in blanks : \A m \in blanks : m <= n
  <2> HIDE DEF blanks, N
  <2> QED
    BY <1>1, MaxExists
<1>3. trailing_blank_line_count(lines, start, end)
        = IF start >= end \/ start >= Len(lines) \/ blanks = {} THEN 0
          ELSE CHOOSE n \in blanks : \A m \in blanks : m <= n
  BY DEF trailing_blank_line_count
<1> HIDE DEF blanks, N
<1>4. blanks # {} => (CHOOSE n \in blanks : \A m \in blanks : m <= n) \in blanks
  BY <1>2
<1>5. \A n \in blanks : n \in Nat
  BY <1>1
<1> QED
  BY <1>3, <1>4, <1>5

\* The first lines of a file are lines,
LEMMA Prefix ==
    ASSUME NEW lines \in Seq(Line), NEW k \in 0..Len(lines)
    PROVE  SubSeq(lines, 1, k) \in Seq(Line)
<1>1. \A i \in 1..k : lines[i] \in Line
  BY LenProperties, ElementOfSeq
<1>2. 1 \in Int /\ k \in Int
  BY LenProperties
<1> QED
  BY <1>1, <1>2, SubSeqProperties

\* and so are those of any range.
LEMMA Lines ==
    ASSUME NEW S \in SUBSET Line, NEW lines \in Seq(Line), NEW i \in Nat, NEW j \in 0..Len(lines),
           \A k \in i + 1..j : lines[k] \in S
    PROVE  SubSeq(lines, i + 1, j) \in Seq(S)
<1>1. i + 1 \in Int /\ j \in Int
  BY LenProperties
<1> QED
  BY <1>1, SubSeqProperties

\* Copying keeps what has been written of its type.
LEMMA CopyType ==
    ASSUME NEW lines \in Seq(Line), NEW n \in Nat, NEW done \in Done(n), NEW upto \in Nat
    PROVE  CopyUpTo(lines, done, upto) \in Done(n)
<1>1. PICK to : to = Min2(upto, Len(lines))
  OBVIOUS
<1>2. Len(lines) \in Nat /\ to \in 0..Len(lines)
  BY <1>1, LenProperties DEF Min2
<1>3. done.new_lines \in Seq(Line) /\ done.current_line \in Nat
  BY DEF Done
<1>4. CASE to <= done.current_line
  BY <1>1, <1>4 DEF CopyUpTo
<1>5. CASE ~(to <= done.current_line)
  <2>1. PICK c : c = SubSeq(lines, done.current_line + 1, to)
    OBVIOUS
  <2>2. c \in Seq(Line)
    <3>1. \A k \in done.current_line + 1..to : lines[k] \in Line
      BY <1>2, <1>3, ElementOfSeq
    <3> QED
      BY <1>2, <1>3, <2>1, <3>1, Lines
  <2>3. done.new_lines \o c \in Seq(Line)
    BY <1>3, <2>2, ConcatProperties
  <2>4. CopyUpTo(lines, done, upto) = [done EXCEPT !.new_lines = done.new_lines \o c, !.current_line = to]
    BY <1>1, <1>5, <2>1 DEF CopyUpTo
  <2>5. to \in Nat
    BY <1>2
  <2> HIDE DEF Line
  <2> QED
    BY <2>3, <2>4, <2>5 DEF Done
<1> QED
  BY <1>4, <1>5

\* A header is a line.
LEMMA HeaderLine ==
    ASSUME NEW type \in Words, NEW with_asserts \in BOOLEAN PROVE Header(type, with_asserts) \in Line
<1>1. (IF with_asserts THEN 1 ELSE 0) \in {0, 1}
  OBVIOUS
<1> QED
  BY <1>1 DEF Header, Line

\* An answer as a test captures it.
IsAnswer(response) == response.messages \in Seq(Messages) /\ response.error \in BOOLEAN

\* Lines written in three parts.
LEMMA LinesAssociate ==
    ASSUME NEW x \in Seq(Line), NEW y \in Seq(Line), NEW z \in Seq(Line)
    PROVE  (x \o y) \o z = x \o (y \o z)
BY ConcatAssociative

\* Copying, told by what it adds.
LEMMA CopyIs ==
    ASSUME NEW lines \in Seq(Line), NEW n \in Nat, NEW done \in Done(n), NEW upto \in Nat,
           done.current_line <= upto, upto <= Len(lines)
    PROVE  LET added == SubSeq(lines, done.current_line + 1, upto)
           IN  /\ added \in Seq(Line)
               /\ CopyUpTo(lines, done, upto)
                    = [new_lines |-> done.new_lines \o added, current_line |-> upto,
                       msg_idx |-> done.msg_idx]
<1>1. PICK a, x, m : /\ a = SubSeq(lines, done.current_line + 1, upto)
                     /\ x = done.current_line /\ m = done.msg_idx
  OBVIOUS
<1>2. /\ Len(lines) \in Nat /\ Min2(upto, Len(lines)) = upto
      /\ done.new_lines \in Seq(Line) /\ x \in Nat /\ x <= upto
  BY <1>1, LenProperties DEF Min2, Done
<1>3. a \in Seq(Line)
  <2>1. \A k \in x + 1..upto : lines[k] \in Line
    BY <1>2, ElementOfSeq
  <2> QED
    BY <1>1, <1>2, <2>1, Lines
<1>4. done = [new_lines |-> done.new_lines, current_line |-> x, msg_idx |-> m]
  BY <1>1 DEF Done
<1>5. CASE upto <= x
  <2>1. CopyUpTo(lines, done, upto) = done /\ x = upto
    BY <1>1, <1>2, <1>5 DEF CopyUpTo
  <2>2. a = <<>>
    BY <1>1, <1>2, <1>5, SubSeqEmpty
  <2>3. done.new_lines \o <<>> = done.new_lines
    BY <1>2, ConcatEmptySeq
  <2> QED
    BY <1>1, <1>3, <1>4, <2>1, <2>2, <2>3
<1>6. CASE ~(upto <= x)
  <2>1. PICK d : d = done.new_lines \o a
    OBVIOUS
  <2>2. CopyUpTo(lines, done, upto) = [done EXCEPT !.new_lines = d, !.current_line = upto]
    BY <1>1, <1>2, <1>6, <2>1 DEF CopyUpTo
  <2>3. PICK y : y = [done EXCEPT !.new_lines = d]
    OBVIOUS
  <2>4. y = [new_lines |-> d, current_line |-> x, msg_idx |-> m]
    BY <1>4, <2>3
  <2>5. [y EXCEPT !.current_line = upto] = [new_lines |-> d, current_line |-> upto, msg_idx |-> m]
    BY <2>4
  <2>6. CopyUpTo(lines, done, upto) = [y EXCEPT !.current_line = upto]
    BY <2>2, <2>3
  <2> QED
    BY <1>1, <1>3, <2>1, <2>5, <2>6
<1> QED
  BY <1>5, <1>6

\* What is dealt to a RESPONSE when m messages have been.
Deals(s, response, m) == s.type = "RESPONSE" /\ Len(response.messages) > m
Count(s, response, m) ==
    Min2(expected_count(s, Len(response.messages) - m), Len(response.messages) - m)
Dealt(s, response, m) == SubSeq(response.messages, m + 1, m + Count(s, response, m))
BlankLines(n) == [i \in 1..n |-> Blank]
ResponseBody(lines, response, s, o, m) ==
    Body(Dealt(s, response, m)) \o BlankLines(trailing_blank_line_count(lines, o, s.end_line))

\* A RESPONSE is dealt as many messages as its count says, at least one where one is
\* left, and never more than there are.
LEMMA DealtIs ==
    ASSUME NEW response, IsAnswer(response), NEW s, IsSection(s), NEW m \in 0..Len(response.messages)
    PROVE  LET L == Len(response.messages)
               n == Count(s, response, m)
           IN  /\ n \in Nat /\ m + n \in 0..L
               /\ Dealt(s, response, m) \in Seq(Messages) /\ Len(Dealt(s, response, m)) = n
               /\ n = Min2(expected_count(s, L - m), L - m) /\ expected_count(s, L - m) \in Nat
               /\ s.type = "RESPONSE" /\ L > m => n >= 1
<1>1. PICK L, e, n, r : /\ L = Len(response.messages) /\ r = L - m /\ e = expected_count(s, r)
                        /\ n = Count(s, response, m)
  OBVIOUS
<1>2. L \in Nat /\ response.messages \in Seq(Messages) /\ m \in Nat /\ m <= L /\ r \in Nat
  BY <1>1, LenProperties DEF IsAnswer
<1>3. e \in Nat /\ (r >= 1 => e >= 1)
  <2>1. CASE s.with_asserts
    BY <1>1, <1>2, <2>1 DEF expected_count
  <2>2. CASE ~s.with_asserts /\ s.want = <<>>
    BY <1>1, <1>2, <2>2 DEF expected_count
  <2>3. CASE ~s.with_asserts /\ s.want # <<>>
    <3>1. e = Len(s.want)
      BY <1>1, <2>3 DEF expected_count
    <3>2. s.want \in Seq(Messages)
      BY DEF IsSection
    <3> QED
      BY <2>3, <3>1, <3>2, EmptySeq
  <2> QED
    BY <2>1, <2>2, <2>3
<1>4. n = Min2(e, r)
  BY <1>1 DEF Count
<1>5. n \in Nat /\ n <= r /\ (r >= 1 => n >= 1)
  BY <1>2, <1>3, <1>4 DEF Min2
<1>6. m + n \in 0..L
  BY <1>1, <1>2, <1>5
<1>7. Dealt(s, response, m) \in Seq(Messages) /\ Len(Dealt(s, response, m)) = n
  <2>1. \A i \in m + 1..m + n : response.messages[i] \in Messages
    <3> TAKE i \in m + 1..m + n
    <3>1. i \in 1..L
      BY <1>2, <1>6
    <3> QED
      BY <1>1, <1>2, <3>1, ElementOfSeq
  <2>2. m + 1 \in Int /\ m + n \in Int /\ (IF m + 1 <= m + n THEN (m + n) - (m + 1) + 1 ELSE 0) = n
    BY <1>2, <1>5
  <2> QED
    BY <1>1, <2>1, <2>2, SubSeqProperties DEF Dealt
<1> QED
  BY <1>1, <1>2, <1>3, <1>4, <1>5, <1>6, <1>7

\* Blank lines are lines of a body.
LEMMA BlankLinesType ==
    ASSUME NEW n \in Nat PROVE BlankLines(n) \in Seq({Blank}) /\ BlankLines(n) \in Seq(BodyLine) /\ Len(BlankLines(n)) = n
<1>1. [i \in 1..n |-> Blank] \in Seq({Blank})
  BY IsASeq
<1>2. Len([i \in 1..n |-> Blank]) = n
  OBVIOUS
<1> QED
  BY <1>1, <1>2, ContentBlank DEF BlankLines

\* WriteResponse adds the header, the messages dealt and the blank lines kept.
LEMMA WriteResponseIs ==
    ASSUME NEW lines \in Seq(Line), NEW response, IsAnswer(response),
           NEW done \in Done(Len(response.messages)), NEW s, IsSection(s), s.type = "RESPONSE"
    PROVE  LET m == done.msg_idx
               body == ResponseBody(lines, response, s, Len(done.new_lines) + 1, m)
           IN  /\ WriteResponse(lines, done, s, response)
                    = [new_lines |-> Append(done.new_lines, Header(s.type, s.with_asserts)) \o body,
                       msg_idx |-> m + Count(s, response, m), current_line |-> s.end_line]
               /\ body \in Seq(BodyLine)
<1>1. PICK m, new, header : m = done.msg_idx /\ new = done.new_lines /\ header = Header("RESPONSE", s.with_asserts)
  OBVIOUS
<1>2. new \in Seq(Line) /\ m \in 0..Len(response.messages)
  BY <1>1 DEF Done
<1>3. header \in Line /\ header = Header(s.type, s.with_asserts)
  BY <1>1, HeaderLine DEF IsSection
<1>4. Append(new, header) \in Seq(Line) /\ Len(Append(new, header)) = Len(new) + 1 /\ Len(new) + 1 \in Nat
  BY <1>2, <1>3, AppendProperties, LenProperties
<1>5. PICK b, t : /\ b = Body(Dealt(s, response, m))
                  /\ t = BlankLines(trailing_blank_line_count(lines, Len(new) + 1, s.end_line))
  OBVIOUS
<1>6. b \in Seq(BodyLine)
  BY <1>2, <1>5, DealtIs, BodyIs DEF BodyHolds
<1>7. t \in Seq(BodyLine)
  <2>1. trailing_blank_line_count(lines, Len(new) + 1, s.end_line) \in Nat
    BY <1>4, TrailingBlanks DEF IsSection
  <2> QED
    BY <1>5, <2>1, BlankLinesType
<1>8. ResponseBody(lines, response, s, Len(new) + 1, m) = b \o t /\ b \o t \in Seq(BodyLine)
  BY <1>5, <1>6, <1>7, ConcatProperties DEF ResponseBody
<1>9. WriteResponse(lines, done, s, response)
        = [new_lines |-> (Append(new, header) \o b) \o t,
           msg_idx |-> m + Count(s, response, m), current_line |-> s.end_line]
  BY <1>1, <1>4, <1>5 DEF WriteResponse, Count, Dealt, BlankLines
<1>10. (Append(new, header) \o b) \o t = Append(new, header) \o (b \o t)
  <2>1. b \in Seq(Line) /\ t \in Seq(Line)
    BY <1>6, <1>7, BodyLineIs, SeqMonotonic
  <2>2. PICK p : p = Append(new, header)
    OBVIOUS
  <2>3. p \in Seq(Line)
    BY <1>4, <2>2
  <2>4. (p \o b) \o t = p \o (b \o t)
    BY <2>1, <2>3, LinesAssociate
  <2> QED
    BY <2>2, <2>4
<1> QED
  BY <1>1, <1>3, <1>8, <1>9, <1>10

StatusLine == <<Text("status message")>>

\* The line an ERROR is given may stand in a body.
LEMMA StatusLineType == StatusLine \in Seq(BodyLine) /\ Text("status message") \in BodyLine
<1>1. Text("status message") \in [kind : {"attribute", "blank", "text"}, what : Words, n : {0}]
  BY SnapshotAssumption DEF Text
<1>2. Text("status message").kind \notin {"header", "attribute"}
  BY DEF Text
<1>3. Text("status message") \in BodyLine
  BY <1>1, <1>2 DEF BodyLine, Line
<1>4. \A x \in BodyLine : <<x>> \in Seq(BodyLine)
  OBVIOUS
<1>5. <<Text("status message")>> \in Seq(BodyLine)
  BY <1>3, <1>4
<1> QED
  BY <1>3, <1>5 DEF StatusLine

\* WriteError adds the header and that line.
LEMMA WriteErrorIs ==
    ASSUME NEW n \in Nat, NEW done \in Done(n), NEW s, IsSection(s), s.type = "ERROR"
    PROVE  WriteError(done, s)
             = [new_lines |-> Append(done.new_lines, Header(s.type, s.with_asserts)) \o StatusLine,
                msg_idx |-> done.msg_idx, current_line |-> s.end_line]
<1>1. PICK header, text, new : /\ header = Header("ERROR", s.with_asserts) /\ text = Text("status message")
                               /\ new = done.new_lines
  OBVIOUS
<1>2. header \in Line /\ text \in Line /\ new \in Seq(Line) /\ header = Header(s.type, s.with_asserts)
  BY <1>1, HeaderLine, StatusLineType, BodyLineIs DEF IsSection, Done
<1>3. new \o <<header, text>> = Append(new, header) \o <<text>>
  <2>1. <<header>> \in Seq(Line) /\ <<text>> \in Seq(Line)
    BY <1>2
  <2>2. <<header, text>> = <<header>> \o <<text>>
    <3>1. PICK t, u : t = Append(<<header>>, text) /\ u = <<header, text>>
      OBVIOUS
    <3>2. Len(<<header>>) = 1 /\ <<header>>[1] = header
      OBVIOUS
    <3>3. t \in Seq(Line) /\ Len(t) = 2 /\ t[1] = header /\ t[2] = text
      BY <1>2, <2>1, <3>1, <3>2, AppendProperties
    <3>4. u \in Seq(Line) /\ Len(u) = 2 /\ u[1] = header /\ u[2] = text
      BY <1>2, <3>1
    <3>5. \A i \in 1..Len(t) : t[i] = u[i]
      <4>1. \A i \in 1..2 : i = 1 \/ i = 2
        OBVIOUS
      <4> QED
        BY <3>3, <3>4, <4>1
    <3>6. t = u
      BY <3>3, <3>4, <3>5, SeqEqual
    <3> QED
      BY <1>2, <2>1, <3>1, <3>6, AppendIsConcat
  <2>3. Append(new, header) = new \o <<header>>
    BY <1>2, AppendIsConcat
  <2> QED
    BY <1>2, <2>1, <2>2, <2>3, ConcatAssociative
<1>4. WriteError(done, s) = [done EXCEPT !.new_lines = new \o <<header, text>>, !.current_line = s.end_line]
  BY <1>1 DEF WriteError
<1>5. done = [new_lines |-> done.new_lines, current_line |-> done.current_line, msg_idx |-> done.msg_idx]
  BY DEF Done
<1>6. WriteError(done, s) = [new_lines |-> new \o <<header, text>>, msg_idx |-> done.msg_idx,
                             current_line |-> s.end_line]
  BY <1>4, <1>5
<1> QED
  BY <1>1, <1>2, <1>3, <1>6 DEF StatusLine

\* Whatever sections a test holds, what it writes are lines.
LEMMA WriteSectionType ==
    ASSUME NEW lines \in Seq(Line), NEW response, IsAnswer(response),
           NEW done \in Done(Len(response.messages)), NEW s, IsSection(s)
    PROVE  WriteSection(lines, done, s, response) \in Done(Len(response.messages))
<1>1. PICK n, m, new, o : /\ n = Len(response.messages) /\ m = done.msg_idx /\ new = done.new_lines
                          /\ o = Append(new, Header(s.type, s.with_asserts))
  OBVIOUS
<1>2. n \in Nat /\ s.end_line \in Nat /\ m \in 0..n /\ new \in Seq(Line)
  BY <1>1, LenProperties DEF IsAnswer, IsSection, Done
<1>3. o \in Seq(Line)
  BY <1>1, <1>2, HeaderLine, AppendProperties DEF IsSection
<1>4. ASSUME NEW c \in Seq(BodyLine) PROVE o \o c \in Seq(Line)
  <2>1. c \in Seq(Line)
    BY BodyLineIs, SeqMonotonic
  <2> QED
    BY <1>3, <2>1, ConcatProperties
<1>5. CASE Deals(s, response, m)
  <2>1. PICK b : b = ResponseBody(lines, response, s, Len(new) + 1, m)
    OBVIOUS
  <2>2. /\ WriteResponse(lines, done, s, response)
             = [new_lines |-> o \o b, msg_idx |-> m + Count(s, response, m), current_line |-> s.end_line]
        /\ b \in Seq(BodyLine)
    BY <1>1, <1>5, <2>1, WriteResponseIs DEF Deals
  <2>3. m + Count(s, response, m) \in 0..n
    BY <1>1, <1>2, DealtIs
  <2>4. WriteSection(lines, done, s, response) = WriteResponse(lines, done, s, response)
    BY <1>1, <1>5 DEF WriteSection, Deals
  <2>5. o \o b \in Seq(Line)
    BY <1>4, <2>2
  <2> HIDE DEF Line
  <2> QED
    BY <1>1, <1>2, <2>2, <2>3, <2>4, <2>5 DEF Done
<1>6. CASE ~Deals(s, response, m) /\ s.type = "ERROR" /\ response.error
  <2>1. WriteError(done, s) = [new_lines |-> o \o StatusLine, msg_idx |-> m, current_line |-> s.end_line]
    BY <1>1, <1>2, <1>6, WriteErrorIs
  <2>2. WriteSection(lines, done, s, response) = WriteError(done, s)
    BY <1>1, <1>6 DEF WriteSection, Deals
  <2>3. o \o StatusLine \in Seq(Line)
    BY <1>4, StatusLineType
  <2> HIDE DEF Line
  <2> QED
    BY <1>1, <1>2, <2>1, <2>2, <2>3 DEF Done
<1>7. CASE ~Deals(s, response, m) /\ ~(s.type = "ERROR" /\ response.error)
  <2>1. WriteSection(lines, done, s, response) = CopyUpTo(lines, done, s.end_line)
    BY <1>1, <1>7 DEF WriteSection, Deals
  <2> QED
    BY <1>1, <1>2, <2>1, CopyType
<1> QED
  BY <1>5, <1>6, <1>7

\* Updated, section by section.
NothingWritten == [new_lines |-> <<>>, current_line |-> 0, msg_idx |-> 0]

\* Updated writes one section after the other.
LEMMA UpdatedSteps ==
    ASSUME NEW lines \in Seq(Line), NEW sections, IsSections(sections), NEW response, IsAnswer(response)
    PROVE  \E written :
               /\ written[0] = NothingWritten
               /\ \A k \in 1..Len(sections) :
                    written[k] = WriteSection(lines, CopyUpTo(lines, written[k - 1], sections[k].start_line),
                                              sections[k], response)
               /\ \A k \in 0..Len(sections) : written[k] \in Done(Len(response.messages))
               /\ Updated(lines, sections, response)
                    = CopyUpTo(lines, written[Len(sections)], Len(lines)).new_lines
<1> DEFINE n == Len(sections)
           V == Done(Len(response.messages))
           Write(v, k) == WriteSection(lines, CopyUpTo(lines, v, sections[k].start_line),
                                       sections[k], response)
           Fits(f) == f = [k \in 0..n |-> IF k = 0 THEN NothingWritten ELSE Write(f[k - 1], k)]
<1>1. n \in Nat /\ Len(response.messages) \in Nat /\ \A k \in 1..n : IsSection(sections[k])
  BY LenProperties DEF IsSections, IsAnswer
<1>2. NothingWritten \in V
  BY <1>1 DEF NothingWritten, Done
<1> HIDE DEF n
<1>3. ASSUME NEW k \in 1..n, NEW v \in V PROVE Write(v, k) \in V
  <2>1. IsSection(sections[k]) /\ sections[k].start_line \in Nat
    BY <1>1 DEF IsSection
  <2>2. CopyUpTo(lines, v, sections[k].start_line) \in V
    BY <1>1, <2>1, CopyType
  <2> QED
    BY <2>1, <2>2, WriteSectionType
<1> HIDE DEF V
<1>4. PICK step : /\ step \in Steps(n, V)
                  /\ \A k \in 1..n : \A v \in V : step[k][v] = Write(v, k)
  <2> DEFINE s == [k \in 1..n |-> [v \in V |-> Write(v, k)]]
  <2> HIDE DEF Write
  <2>1. s \in Steps(n, V)
    BY <1>3 DEF Steps
  <2>2. \A k \in 1..n : \A v \in V : s[k][v] = Write(v, k)
    OBVIOUS
  <2> HIDE DEF s
  <2> QED
    BY <2>1, <2>2
<1>5. PICK f : Recursion(f, n, V, NothingWritten, step)
  BY <1>1, <1>2, <1>4, RecursionExists
<1> HIDE DEF Write
<1>6. Fits(f)
  <2>1. \A k \in 1..n : f[k] = Write(f[k - 1], k)
    <3> TAKE k \in 1..n
    <3>1. k - 1 \in 0..n /\ f[k - 1] \in V
      BY <1>1, <1>5 DEF Recursion
    <3> QED
      BY <1>4, <1>5, <3>1 DEF Recursion
  <2>2. \A k \in 0..n : k = 0 \/ k \in 1..n
    BY <1>1
  <2>3. f = [k \in 0..n |-> f[k]] /\ f[0] = NothingWritten
    BY <1>5 DEF Recursion
  <2>4. \A k \in 0..n : f[k] = IF k = 0 THEN NothingWritten ELSE Write(f[k - 1], k)
    BY <2>1, <2>2, <2>3
  <2> QED
    BY <2>3, <2>4
<1>7. PICK written : /\ Fits(written)
                     /\ Updated(lines, sections, response) = CopyUpTo(lines, written[n], Len(lines)).new_lines
  <2> DEFINE u == CHOOSE u : Fits(u)
  <2>1. Updated(lines, sections, response) = CopyUpTo(lines, u[n], Len(lines)).new_lines
    BY DEF Updated, n, NothingWritten, Write
  <2>2. Fits(u)
    <3> HIDE DEF Fits
    <3> QED
      BY <1>6
  <2> HIDE DEF u, Fits
  <2> QED
    BY <2>1, <2>2
<1>8. \A k \in 0..n : written[k] = IF k = 0 THEN NothingWritten ELSE Write(written[k - 1], k)
  BY <1>7
<1>9. written[0] = NothingWritten /\ \A k \in 1..n : written[k] = Write(written[k - 1], k)
  <2>1. 0 \in 0..n /\ \A k \in 1..n : k \in 0..n /\ k # 0
    BY <1>1
  <2> QED
    BY <1>8, <2>1
<1>10. \A k \in 0..n : written[k] \in V
  <2> DEFINE T == {k \in 0..n : written[k] \in V}
  <2>1. 0 \in T
    BY <1>1, <1>2, <1>9
  <2>2. ASSUME NEW k \in 0..n - 1, k \in T PROVE k + 1 \in T
    <3>1. k + 1 \in 1..n /\ k + 1 \in 0..n /\ (k + 1) - 1 = k
      BY <1>1
    <3>2. written[k] \in V
      BY <2>2
    <3>3. written[k + 1] = Write(written[k], k + 1)
      BY <1>9, <3>1
    <3>4. written[k + 1] \in V
      BY <1>3, <3>1, <3>2, <3>3
    <3> QED
      BY <3>1, <3>4
  <2>3. \A k \in 0..n : k \in T
    <3> HIDE DEF T
    <3> QED
      BY <1>1, <2>1, <2>2, BoundedInduction
  <2> QED
    BY <2>3
<1> QED
  BY <1>7, <1>9, <1>10 DEF n, V, Write

\* Whatever sections it was parsed to, what is written is a file.
LEMMA UpdatedType ==
    ASSUME NEW lines \in Seq(Line), NEW sections, IsSections(sections), NEW response, IsAnswer(response)
    PROVE  Updated(lines, sections, response) \in Seq(Line)
<1>1. PICK w \in Done(Len(response.messages)) :
        Updated(lines, sections, response) = CopyUpTo(lines, w, Len(lines)).new_lines
  <2>1. Len(sections) \in 0..Len(sections)
    BY DEF IsSections
  <2> QED
    BY <2>1, UpdatedSteps
<1>2. CopyUpTo(lines, w, Len(lines)) \in Done(Len(response.messages))
  <2>1. Len(lines) \in Nat /\ Len(response.messages) \in Nat
    BY LenProperties DEF IsAnswer
  <2> QED
    BY <2>1, CopyType
<1> QED
  BY <1>1, <1>2 DEF Done

-----------------------------------------------------------------------------
(* Writing over a file that is laid out as it was parsed                   *)

NewBody(text, response, s, b, o, m) ==
    IF Deals(s, response, m) THEN ResponseBody(text, response, s, o, m)
    ELSE IF s.type = "ERROR" /\ response.error THEN StatusLine
    ELSE Inner(text, b, s.end_line)

NewIdx(s, response, m) == IF Deals(s, response, m) THEN m + Count(s, response, m) ELSE m

\* A section of a layout is parsed with the lines it begins and ends at, and its
\* header is written again as it was.
LEMMA ParsedIs ==
    ASSUME NEW text \in Seq(Line), NEW k, NEW a, NEW b, NEW c, SectionAt(text, k, a, b, c)
    PROVE  /\ IsSection(Parsed(text, b, c))
           /\ Parsed(text, b, c).start_line = b - 1 /\ Parsed(text, b, c).end_line = c
           /\ Header(Parsed(text, b, c).type, Parsed(text, b, c).with_asserts) = text[b]
<1>1. PICK l, s : l = text[b] /\ s = Parsed(text, b, c)
  OBVIOUS
<1>2. l \in Line /\ IsHeader(l) /\ Inner(text, b, c) \in Seq(BodyLine)
  BY <1>1, Pieces
<1>3. b \in Nat \ {0} /\ c \in Nat
  BY DEF SectionAt
<1>4. /\ s.type = l.what /\ s.with_asserts = (l.n = 1) /\ s.start_line = b - 1 /\ s.end_line = c
      /\ s.want = Content(Inner(text, b, c)).want
  BY <1>1 DEF Parsed
<1>5. l \in [kind : {"header"}, what : Words, n : {0, 1}]
  BY <1>2 DEF IsHeader, Line
<1>6. Header(l.what, l.n = 1) = l
  <2>1. l = [kind |-> "header", what |-> l.what, n |-> l.n] /\ l.n \in {0, 1}
    BY <1>5
  <2>2. (IF l.n = 1 THEN 1 ELSE 0) = l.n
    BY <2>1
  <2> QED
    BY <2>1, <2>2 DEF Header
<1>7. s.want \in Seq(Messages)
  BY <1>2, <1>4, ContentType
<1>8. s.type \in Words /\ s.with_asserts \in BOOLEAN /\ s.start_line \in Nat
  <2>1. l.what \in Words
    BY <1>5
  <2> QED
    BY <1>3, <1>4, <2>1
<1>9. IsSection(s)
  BY <1>3, <1>4, <1>7, <1>8 DEF IsSection
<1> QED
  BY <1>1, <1>4, <1>6, <1>9

\* What one section becomes.
RewriteAt(text, response, a, b, c, z, m, body, z2, m2) ==
    /\ body = NewBody(text, response, Parsed(text, b, c), b, Len(z \o Gap(text, a, b)) + 1, m)
    /\ body \in Seq(BodyLine)
    /\ z2 = Append(z \o Gap(text, a, b), text[b]) \o body
    /\ m2 = NewIdx(Parsed(text, b, c), response, m)

\* Written when the sections before it have been, a section leaves the copy at its end.
LEMMA WriteAt ==
    ASSUME NEW text \in Seq(Line), NEW k, NEW a, NEW b, NEW c, SectionAt(text, k, a, b, c),
           NEW response, IsAnswer(response),
           NEW done \in Done(Len(response.messages)), done.current_line = a,
           NEW s, s = Parsed(text, b, c),
           NEW w, w = WriteSection(text, CopyUpTo(text, done, s.start_line), s, response)
    PROVE  /\ w.current_line = c
           /\ \E body : RewriteAt(text, response, a, b, c, done.new_lines, done.msg_idx, body,
                                  w.new_lines, w.msg_idx)
<1>1. PICK z, m, g, y, l, L : /\ z = done.new_lines /\ m = done.msg_idx /\ g = Gap(text, a, b)
                              /\ y = Inner(text, b, c) /\ l = text[b] /\ L = Len(response.messages)
  OBVIOUS
<1>2. /\ z \in Seq(Line) /\ m \in 0..L /\ L \in Nat
      /\ a \in Nat /\ b \in Nat \ {0} /\ c \in Nat /\ a < b /\ b <= c /\ c <= Len(text) /\ Len(text) \in Nat
  BY <1>1, LenProperties DEF SectionAt, Done, IsAnswer
<1>3. g \in Seq(Line) /\ y \in Seq(BodyLine) /\ l \in Line /\ IsHeader(l)
  BY <1>1, Pieces
<1>4. IsSection(s) /\ s.start_line = b - 1 /\ s.end_line = c /\ Header(s.type, s.with_asserts) = l
  BY <1>1, ParsedIs
<1>5. PICK new, copied : /\ new = z \o g /\ copied = CopyUpTo(text, done, b - 1)
  OBVIOUS
<1>6. new \in Seq(Line)
  BY <1>2, <1>3, <1>5, ConcatProperties
<1>7. copied = [new_lines |-> new, current_line |-> b - 1, msg_idx |-> m]
  <2>1. b - 1 \in Nat /\ a <= b - 1 /\ b - 1 <= Len(text)
    BY <1>2
  <2> QED
    BY <1>1, <1>2, <1>5, <2>1, CopyIs DEF Gap
<1>8. copied \in Done(L)
  <2>1. b - 1 \in Nat
    BY <1>2
  <2> HIDE DEF Line
  <2> QED
    BY <1>2, <1>6, <1>7, <2>1 DEF Done
<1>9. copied.new_lines = new /\ copied.msg_idx = m /\ copied.current_line = b - 1
  BY <1>7
<1>10. w = WriteSection(text, copied, s, response)
  BY <1>4, <1>5
<1>11. PICK body : body = NewBody(text, response, s, b, Len(new) + 1, m)
  OBVIOUS
<1>12. copied \in Done(Len(response.messages))
  BY <1>1, <1>8
<1> DEFINE Written == /\ w = [new_lines |-> Append(new, l) \o body, msg_idx |-> NewIdx(s, response, m),
                              current_line |-> c]
                      /\ body \in Seq(BodyLine)
<1>13. ASSUME Deals(s, response, m) PROVE Written
  <2>1. w = WriteResponse(text, copied, s, response)
    BY <1>1, <1>9, <1>10, <1>13 DEF WriteSection, Deals
  <2>2. body = ResponseBody(text, response, s, Len(new) + 1, m)
    BY <1>11, <1>13 DEF NewBody
  <2>3. /\ WriteResponse(text, copied, s, response)
             = [new_lines |-> Append(new, l) \o body, msg_idx |-> m + Count(s, response, m), current_line |-> c]
        /\ body \in Seq(BodyLine)
    <3>1. s.type = "RESPONSE"
      BY <1>13 DEF Deals
    <3>2. /\ WriteResponse(text, copied, s, response)
               = [new_lines |-> Append(copied.new_lines, Header(s.type, s.with_asserts))
                                  \o ResponseBody(text, response, s, Len(copied.new_lines) + 1, copied.msg_idx),
                  msg_idx |-> copied.msg_idx + Count(s, response, copied.msg_idx),
                  current_line |-> s.end_line]
          /\ ResponseBody(text, response, s, Len(copied.new_lines) + 1, copied.msg_idx) \in Seq(BodyLine)
      BY <1>4, <1>12, <3>1, WriteResponseIs
    <3> QED
      BY <1>4, <1>9, <2>2, <3>2
  <2> QED
    BY <1>13, <2>1, <2>3 DEF NewIdx
<1>14. ASSUME ~Deals(s, response, m) /\ s.type = "ERROR" /\ response.error PROVE Written
  <2>1. w = WriteError(copied, s)
    BY <1>1, <1>9, <1>10, <1>14 DEF WriteSection, Deals
  <2>2. body = StatusLine
    BY <1>11, <1>14 DEF NewBody
  <2>3. WriteError(copied, s) = [new_lines |-> Append(new, l) \o body, msg_idx |-> m, current_line |-> c]
    BY <1>2, <1>4, <1>8, <1>9, <1>14, <2>2, WriteErrorIs
  <2> QED
    BY <1>14, <2>1, <2>2, <2>3, StatusLineType DEF NewIdx
<1>15. ASSUME ~Deals(s, response, m) /\ ~(s.type = "ERROR" /\ response.error) PROVE Written
  <2>1. w = CopyUpTo(text, copied, c)
    BY <1>1, <1>4, <1>9, <1>10, <1>15 DEF WriteSection, Deals
  <2>2. body = y
    BY <1>1, <1>4, <1>11, <1>15 DEF NewBody
  <2>3. w = [new_lines |-> new \o SubSeq(text, b, c), current_line |-> c, msg_idx |-> m]
    <3>1. b - 1 <= c /\ (b - 1) + 1 = b
      BY <1>2
    <3>2. Len(response.messages) \in Nat /\ copied \in Done(Len(response.messages))
          /\ copied.current_line <= c /\ c <= Len(text) /\ c \in Nat
      BY <1>2, <1>8, <1>9, <1>12, <3>1
    <3>3. CopyUpTo(text, copied, c)
            = [new_lines |-> copied.new_lines \o SubSeq(text, copied.current_line + 1, c),
               current_line |-> c, msg_idx |-> copied.msg_idx]
      BY <3>2, CopyIs
    <3> QED
      BY <1>9, <2>1, <3>1, <3>3
  <2>4. SubSeq(text, b, c) = <<l>> \o y
    <3>1. b \in 1..Len(text) /\ c \in b..Len(text)
      BY <1>2
    <3> QED
      BY <1>1, <3>1, SubSeqRecursiveFirst DEF Inner
  <2>5. new \o (<<l>> \o y) = Append(new, l) \o y
    <3>1. <<l>> \in Seq(Line) /\ y \in Seq(Line)
      BY <1>3, BodyLineIs, SeqMonotonic
    <3>2. (new \o <<l>>) \o y = new \o (<<l>> \o y)
      BY <1>6, <3>1, ConcatAssociative
    <3>3. Append(new, l) = new \o <<l>>
      BY <1>3, <1>6, AppendIsConcat
    <3> QED
      BY <3>2, <3>3
  <2> QED
    BY <1>3, <1>15, <2>2, <2>3, <2>4, <2>5 DEF NewIdx
<1>16. Written
  BY <1>13, <1>14, <1>15
<1>17. w.current_line = c /\ w.new_lines = Append(new, l) \o body /\ w.msg_idx = NewIdx(s, response, m)
  BY <1>16
<1>18. RewriteAt(text, response, a, b, c, z, m, body, w.new_lines, w.msg_idx)
  BY <1>1, <1>5, <1>11, <1>16, <1>17 DEF RewriteAt
<1> QED
  BY <1>1, <1>17, <1>18

\* Section by section, z[k] has been written and m[k] messages are dealt.
Rewrites(text, n, h, e, response, z, m, body) ==
    /\ z[0] = <<>> /\ m[0] = 0
    /\ \A k \in 1..n : RewriteAt(text, response, e[k - 1], h[k], e[k], z[k - 1], m[k - 1], body[k], z[k], m[k])
    /\ \A k \in 0..n : z[k] \in Seq(Line) /\ m[k] \in 0..Len(response.messages)

\* What is written over a file that is laid out is the sections, rewritten in turn.
LEMMA RewriteExists ==
    ASSUME NEW text \in Seq(Line), NEW n, NEW h, NEW e, Layout(text, n, h, e),
           NEW response, IsAnswer(response)
    PROVE  \E z, m, body :
               /\ Rewrites(text, n, h, e, response, z, m, body)
               /\ n > 0 => Updated(text, Sections(text), response) = z[n]
               /\ n = 0 => Updated(text, Sections(text), response) = text
<1>1. /\ n \in Nat /\ e[0] = 0 /\ \A k \in 1..n : SectionAt(text, k, e[k - 1], h[k], e[k])
      /\ n > 0 => e[n] = Len(text)
  BY DEF Layout, Laid
<1>2. PICK sections : sections = Sections(text)
  OBVIOUS
<1>3. Len(sections) = n /\ \A k \in 1..n : sections[k] = Parsed(text, h[k], e[k])
  BY <1>2, SectionsLaid
<1>4. IsSections(sections)
  <2>1. \A k \in 1..n : IsSection(sections[k])
    BY <1>1, <1>3, ParsedIs
  <2> QED
    BY <1>1, <1>3, <2>1 DEF IsSections
<1>5. PICK w : /\ w[0] = NothingWritten
               /\ \A k \in 1..n : w[k] = WriteSection(text, CopyUpTo(text, w[k - 1], sections[k].start_line),
                                                      sections[k], response)
               /\ \A k \in 0..n : w[k] \in Done(Len(response.messages))
               /\ Updated(text, sections, response) = CopyUpTo(text, w[n], Len(text)).new_lines
  BY <1>3, <1>4, UpdatedSteps
<1>6. \A k \in 0..n : w[k].current_line = e[k]
  <2> DEFINE T == {k \in 0..n : w[k].current_line = e[k]}
  <2>1. 0 \in T
    BY <1>1, <1>5 DEF NothingWritten
  <2>2. ASSUME NEW k \in 0..n - 1, k \in T PROVE k + 1 \in T
    <3>1. k + 1 \in 1..n /\ k + 1 \in 0..n /\ (k + 1) - 1 = k /\ k \in 0..n
      <4>1. n \in Nat
        BY <1>1
      <4> QED
        BY <4>1
    <3>2. SectionAt(text, k + 1, e[k], h[k + 1], e[k + 1])
      BY <1>1, <3>1
    <3>3. w[k].current_line = e[k] /\ w[k] \in Done(Len(response.messages))
      BY <1>5, <2>2
    <3>4. w[k + 1] = WriteSection(text, CopyUpTo(text, w[k], sections[k + 1].start_line), sections[k + 1], response)
      BY <1>5, <3>1
    <3>5. sections[k + 1] = Parsed(text, h[k + 1], e[k + 1])
      BY <1>3, <3>1
    <3>6. w[k + 1].current_line = e[k + 1]
      BY <3>2, <3>3, <3>4, <3>5, WriteAt
    <3> QED
      BY <3>1, <3>6
  <2>3. \A k \in 0..n : k \in T
    <3> HIDE DEF T
    <3> QED
      BY <1>1, <2>1, <2>2, BoundedInduction
  <2> QED
    BY <2>3
<1> DEFINE z == [k \in Nat |-> w[k].new_lines]
           m == [k \in Nat |-> w[k].msg_idx]
           Becomes(k, x) == RewriteAt(text, response, e[k - 1], h[k], e[k], z[k - 1], m[k - 1], x, z[k], m[k])
           body == [k \in Nat |-> CHOOSE x : Becomes(k, x)]
<1>7. ASSUME NEW k \in 1..n PROVE Becomes(k, body[k])
  <2>1. k - 1 \in 0..n /\ k - 1 \in Nat /\ k \in Nat
    BY <1>1
  <2>2. PICK v, y : v = w[k - 1] /\ y = w[k]
    OBVIOUS
  <2>3. v \in Done(Len(response.messages)) /\ v.current_line = e[k - 1]
    BY <1>5, <1>6, <2>1, <2>2
  <2>4. y = WriteSection(text, CopyUpTo(text, v, sections[k].start_line), sections[k], response)
    BY <1>5, <2>2
  <2>5. \E x : RewriteAt(text, response, e[k - 1], h[k], e[k], v.new_lines, v.msg_idx, x, y.new_lines, y.msg_idx)
    BY <1>1, <1>3, <2>3, <2>4, WriteAt
  <2>6. z[k - 1] = v.new_lines /\ m[k - 1] = v.msg_idx /\ z[k] = y.new_lines /\ m[k] = y.msg_idx
    BY <2>1, <2>2
  <2>7. \E x : Becomes(k, x)
    BY <2>5, <2>6
  <2>8. body[k] = CHOOSE x : Becomes(k, x)
    BY <2>1
  <2> HIDE DEF Becomes, body
  <2> QED
    BY <2>7, <2>8
<1>8. z[0] = <<>> /\ m[0] = 0
  BY <1>5 DEF NothingWritten
<1>9. \A k \in 0..n : z[k] \in Seq(Line) /\ m[k] \in 0..Len(response.messages)
  <2> TAKE k \in 0..n
  <2>1. z[k] = w[k].new_lines /\ m[k] = w[k].msg_idx /\ w[k] \in Done(Len(response.messages))
    BY <1>1, <1>5
  <2> QED
    BY <2>1 DEF Done
<1>10. PICK added : added = SubSeq(text, e[n] + 1, Len(text))
  OBVIOUS
<1>11. Updated(text, sections, response) = z[n] \o added /\ z[n] \in Seq(Line)
  <2>1. n \in 0..n /\ Len(text) \in Nat
    BY <1>1, LenProperties
  <2>2. e[n] \in Nat /\ e[n] <= Len(text)
    BY DEF Layout, Laid
  <2>3. PICK v : v = w[n]
    OBVIOUS
  <2>4. v \in Done(Len(response.messages)) /\ v.current_line = e[n]
    BY <1>5, <1>6, <2>1, <2>3
  <2>5. CopyUpTo(text, v, Len(text)) = [new_lines |-> v.new_lines \o added, current_line |-> Len(text), msg_idx |-> v.msg_idx]
    <3>1. Len(response.messages) \in Nat
      BY LenProperties DEF IsAnswer
    <3>2. CopyUpTo(text, v, Len(text))
            = [new_lines |-> v.new_lines \o SubSeq(text, v.current_line + 1, Len(text)),
               current_line |-> Len(text), msg_idx |-> v.msg_idx]
      <4>1. v.current_line <= Len(text) /\ Len(text) <= Len(text)
        BY <2>1, <2>2, <2>4
      <4> QED
        BY <2>1, <2>4, <3>1, <4>1, CopyIs
    <3> QED
      BY <1>10, <2>4, <3>2
  <2>6. z[n] = v.new_lines
    BY <1>1, <2>3
  <2> HIDE DEF z
  <2> QED
    BY <1>5, <1>9, <2>1, <2>3, <2>5, <2>6
<1>12. n > 0 => Updated(text, sections, response) = z[n]
  <2> SUFFICES ASSUME n > 0 PROVE Updated(text, sections, response) = z[n]
    OBVIOUS
  <2>1. added = <<>>
    <3>1. e[n] = Len(text) /\ Len(text) \in Nat
      BY <1>1, LenProperties
    <3> QED
      BY <1>10, <3>1, SubSeqEmpty
  <2> HIDE DEF z
  <2> QED
    BY <1>11, <2>1, ConcatEmptySeq
<1>13. n = 0 => Updated(text, sections, response) = text
  <2> SUFFICES ASSUME n = 0 PROVE Updated(text, sections, response) = text
    OBVIOUS
  <2>1. added = text
    BY <1>1, <1>10, SubSeqFull
  <2>2. z[n] = <<>>
    BY <1>8
  <2> HIDE DEF z
  <2> QED
    BY <1>11, <2>1, <2>2, ConcatEmptySeq
<1>14. Rewrites(text, n, h, e, response, z, m, body)
  <2> HIDE DEF z, m, body
  <2> QED
    BY <1>7, <1>8, <1>9 DEF Rewrites
<1> HIDE DEF z, m, body
<1> QED
  BY <1>2, <1>12, <1>13, <1>14
\* The beginning of a file.
Begins(p, w) == Len(p) <= Len(w) /\ \A i \in 1..Len(p) : w[i] = p[i]

PieceOf(p, g, l, y, z, a, b, c) ==
    /\ z = Append(p \o g, l) \o y
    /\ a = Len(p) /\ b = Len(p \o g) + 1 /\ c = Len(z)

\* Where a file begins with lines p, a gap, a header and a body, a section is found.
LEMMA PieceAt ==
    ASSUME NEW p \in Seq(Line), NEW k, NEW g \in Seq(GapLine(k)), NEW l \in Line, IsHeader(l),
           NEW y \in Seq(BodyLine), NEW z, NEW w \in Seq(Line), Begins(z, w),
           NEW a, NEW b, NEW c, PieceOf(p, g, l, y, z, a, b, c)
    PROVE  /\ SectionAt(w, k, a, b, c)
           /\ w[b] = l /\ Gap(w, a, b) = g /\ Inner(w, b, c) = y
           /\ Begins(p, z)
<1>1. PICK d, f, q, r : /\ a = Len(p) /\ d = Len(g) /\ f = Len(y) /\ q = p \o g /\ r = Append(q, l)
                        /\ b = Len(q) + 1 /\ c = Len(z) /\ z = r \o y
  BY DEF PieceOf
<1>2. GapLine(k) \subseteq Line /\ g \in Seq(Line) /\ y \in Seq(Line)
  <2>1. GapLine(k) \subseteq Line
    BY DEF GapLine
  <2> QED
    BY <2>1, BodyLineIs, SeqMonotonic
<1>3. a \in Nat /\ d \in Nat /\ f \in Nat /\ Len(w) \in Nat
  BY <1>1, LenProperties
<1>4. q \in Seq(Line) /\ Len(q) = a + d /\ \A i \in 1..a + d : q[i] = IF i <= a THEN p[i] ELSE g[i - a]
  BY <1>1, <1>2, ConcatProperties
<1>5. r \in Seq(Line) /\ Len(r) = a + d + 1 /\ r[a + d + 1] = l /\ \A i \in 1..a + d : r[i] = q[i]
  BY <1>1, <1>4, AppendProperties
<1>6. /\ z \in Seq(Line) /\ Len(z) = a + d + 1 + f
      /\ \A i \in 1..a + d + 1 + f : z[i] = IF i <= a + d + 1 THEN r[i] ELSE y[i - (a + d + 1)]
  <2> QED
    BY <1>1, <1>2, <1>5, ConcatProperties
<1>7. \A i \in 1..a + d + 1 + f : w[i] = z[i]
  BY <1>6 DEF Begins
<1>8. a + d + 1 + f <= Len(w)
  BY <1>6 DEF Begins
<1>9. \A i \in 1..a : z[i] = p[i]
  <2> TAKE i \in 1..a
  <2>1. i \in 1..a + d /\ i \in 1..a + d + 1 + f /\ i <= a /\ i <= a + d + 1
    BY <1>3
  <2> QED
    BY <1>4, <1>5, <1>6, <2>1
<1>10. \A i \in 1..d : w[a + i] = g[i]
  <2> TAKE i \in 1..d
  <2>1. PICK j : j = a + i
    OBVIOUS
  <2>2. j \in 1..a + d /\ j \in 1..a + d + 1 + f /\ ~(j <= a) /\ j <= a + d + 1 /\ j - a = i
    BY <1>3, <2>1
  <2>3. q[j] = g[i] /\ r[j] = q[j] /\ z[j] = r[j] /\ w[j] = z[j]
    BY <1>4, <1>5, <1>6, <1>7, <2>2
  <2> QED
    BY <2>1, <2>3
<1>11. w[a + d + 1] = l
  <2>1. a + d + 1 \in 1..a + d + 1 + f /\ a + d + 1 <= a + d + 1
    BY <1>3
  <2> QED
    BY <1>5, <1>6, <1>7, <2>1
<1>12. \A i \in 1..f : w[a + d + 1 + i] = y[i]
  <2> TAKE i \in 1..f
  <2>1. PICK j : j = a + d + 1 + i
    OBVIOUS
  <2>2. j \in 1..a + d + 1 + f /\ ~(j <= a + d + 1) /\ j - (a + d + 1) = i
    BY <1>3, <2>1
  <2>3. z[j] = y[i] /\ w[j] = z[j]
    BY <1>6, <1>7, <2>2
  <2> QED
    BY <2>1, <2>3
<1>13. b = a + d + 1 /\ c = a + d + 1 + f
  BY <1>1, <1>4, <1>6
<1>14. a \in Nat /\ b \in Nat /\ c \in Nat /\ a < b /\ b <= c /\ c <= Len(w) /\ c = b + f /\ b - 1 = a + d
  BY <1>3, <1>8, <1>13
<1>15. \A i \in a + 1..b - 1 : w[i] = g[i - a] /\ i - a \in 1..d
  <2> TAKE i \in a + 1..b - 1
  <2>1. PICK j : j = i - a
    OBVIOUS
  <2>2. j \in 1..d /\ a + j = i
    BY <1>3, <1>14, <2>1
  <2> QED
    BY <1>10, <2>1, <2>2
<1>16. \A i \in b + 1..c : w[i] = y[i - b] /\ i - b \in 1..f
  <2> TAKE i \in b + 1..c
  <2>1. PICK j : j = i - b
    OBVIOUS
  <2>2. j \in 1..f /\ a + d + 1 + j = i
    BY <1>3, <1>13, <1>14, <2>1
  <2> QED
    BY <1>12, <2>1, <2>2
<1>17. SectionAt(w, k, a, b, c)
  <2>1. \A i \in a + 1..b - 1 : w[i] \in GapLine(k)
    BY <1>1, <1>15, ElementOfSeq
  <2>2. \A i \in b + 1..c : w[i] \in BodyLine
    BY <1>1, <1>16, ElementOfSeq
  <2>3. w[b] = l
    BY <1>11, <1>13
  <2> QED
    BY <1>14, <2>1, <2>2, <2>3 DEF SectionAt
<1>18. Gap(w, a, b) = g
  <2>1. PICK u : u = SubSeq(w, a + 1, b - 1)
    OBVIOUS
  <2>2. /\ u \in Seq(GapLine(k)) /\ Len(u) = d
        /\ \A i \in 1..d : u[i] = w[a + i]
    <3>1. \A i \in a + 1..b - 1 : w[i] \in GapLine(k)
      BY <1>17 DEF SectionAt
    <3>2. a + 1 \in Int /\ b - 1 \in Int /\ (IF a + 1 <= b - 1 THEN (b - 1) - (a + 1) + 1 ELSE 0) = d /\ (b - 1) - (a + 1) + 1 = d
      BY <1>3, <1>14
    <3>3. u \in Seq(GapLine(k)) /\ Len(u) = d /\ \A i \in 1..d : u[i] = w[(a + 1) + i - 1]
      BY <2>1, <3>1, <3>2, SubSeqProperties
    <3>4. \A i \in 1..d : (a + 1) + i - 1 = a + i
      BY <1>3
    <3> QED
      BY <3>3, <3>4
  <2>3. u = g
    BY <1>1, <1>10, <2>2, SeqEqual
  <2> QED
    BY <2>1, <2>3 DEF Gap
<1>19. Inner(w, b, c) = y
  <2>1. PICK u : u = SubSeq(w, b + 1, c)
    OBVIOUS
  <2>2. /\ u \in Seq(BodyLine) /\ Len(u) = f
        /\ \A i \in 1..f : u[i] = w[b + i]
    <3>1. \A i \in b + 1..c : w[i] \in BodyLine
      BY <1>17 DEF SectionAt
    <3>2. b + 1 \in Int /\ c \in Int /\ (IF b + 1 <= c THEN c - (b + 1) + 1 ELSE 0) = f /\ c - (b + 1) + 1 = f
      BY <1>3, <1>14
    <3>3. u \in Seq(BodyLine) /\ Len(u) = f /\ \A i \in 1..f : u[i] = w[(b + 1) + i - 1]
      BY <2>1, <3>1, <3>2, SubSeqProperties
    <3>4. \A i \in 1..f : (b + 1) + i - 1 = b + i
      BY <1>3, <1>14
    <3> QED
      BY <3>3, <3>4
  <2>3. u = y
    BY <1>1, <1>12, <1>13, <2>2, SeqEqual
  <2> QED
    BY <2>1, <2>3 DEF Inner
<1>20. Begins(p, z)
  BY <1>1, <1>3, <1>6, <1>9 DEF Begins
<1>21. w[b] = l
  BY <1>11, <1>13
<1> QED
  BY <1>17, <1>18, <1>19, <1>20, <1>21

\* What begins the beginning of a file begins the file.
LEMMA BeginsTransitive ==
    ASSUME NEW p \in Seq(Line), NEW q \in Seq(Line), NEW r \in Seq(Line), Begins(p, q), Begins(q, r)
    PROVE  Begins(p, r)
<1>1. Len(p) \in Nat /\ Len(q) \in Nat /\ Len(r) \in Nat
  BY LenProperties
<1> QED
  BY <1>1 DEF Begins

\* A section of the new file has the gap and the header of the old one.
Relays(text, a, b, z, body, w, a2, b2, c2) ==
    /\ b2 = Len(z \o Gap(text, a, b)) + 1
    /\ w[b2] = text[b]
    /\ Gap(w, a2, b2) = Gap(text, a, b)
    /\ Inner(w, b2, c2) = body

\* The file written is laid out like the file it was written over.
LEMMA Relaid ==
    ASSUME NEW text \in Seq(Line), NEW n, NEW h, NEW e, Layout(text, n, h, e), n > 0,
           NEW response, NEW z, NEW m, NEW body, Rewrites(text, n, h, e, response, z, m, body)
    PROVE  \E h2, e2 :
               /\ Layout(z[n], n, h2, e2)
               /\ \A k \in 1..n : Relays(text, e[k - 1], h[k], z[k - 1], body[k], z[n], e2[k - 1], h2[k], e2[k])
<1> DEFINE g(k) == Gap(text, e[k - 1], h[k])
<1>1. n \in Nat /\ \A k \in 1..n : SectionAt(text, k, e[k - 1], h[k], e[k])
  BY DEF Layout, Laid
<1>2. /\ z[0] = <<>>
      /\ \A k \in 0..n : z[k] \in Seq(Line)
      /\ \A k \in 1..n : z[k] = Append(z[k - 1] \o g(k), text[h[k]]) \o body[k] /\ body[k] \in Seq(BodyLine)
  BY DEF Rewrites, RewriteAt
<1>3. \A k \in 1..n : g(k) \in Seq(GapLine(k)) /\ text[h[k]] \in Line /\ IsHeader(text[h[k]])
  BY <1>1, Pieces
<1>4. \A k \in 1..n : k - 1 \in 0..n /\ k \in 0..n
  BY <1>1
<1> HIDE DEF g
<1>5. ASSUME NEW k \in 1..n PROVE Begins(z[k - 1], z[k])
  <2>1. PICK p, y, l, f, x : p = z[k - 1] /\ y = body[k] /\ l = text[h[k]] /\ f = g(k) /\ x = z[k]
    OBVIOUS
  <2>2. /\ p \in Seq(Line) /\ y \in Seq(BodyLine) /\ l \in Line /\ IsHeader(l) /\ f \in Seq(GapLine(k))
        /\ x \in Seq(Line) /\ x = Append(p \o f, l) \o y
    BY <1>2, <1>3, <1>4, <2>1
  <2>3. Begins(x, x)
    BY <2>2, LenProperties DEF Begins
  <2>4. Begins(p, x)
    <3>1. PICK a, b, c : a = Len(p) /\ b = Len(p \o f) + 1 /\ c = Len(x)
      OBVIOUS
    <3>2. PieceOf(p, f, l, y, x, a, b, c)
      BY <2>2, <3>1 DEF PieceOf
    <3> QED
      BY <2>2, <2>3, <3>2, PieceAt
  <2> QED
    BY <2>1, <2>4
<1>6. \A k \in 0..n : Begins(z[k], z[n])
  <2> DEFINE T == {j \in 0..n : Begins(z[n - j], z[n])}
  <2>1. 0 \in T
    <3>1. n - 0 = n /\ n \in 0..n /\ 0 \in 0..n
      BY <1>1
    <3>2. Begins(z[n], z[n])
      BY <1>2, <3>1, LenProperties DEF Begins
    <3> QED
      BY <3>1, <3>2
  <2>2. ASSUME NEW j \in 0..n - 1, j \in T PROVE j + 1 \in T
    <3>1. n - j \in 1..n /\ n - (j + 1) = (n - j) - 1 /\ j + 1 \in 0..n /\ n \in 0..n
      BY <1>1
    <3>2. PICK k : k = n - j
      OBVIOUS
    <3>3. Begins(z[k - 1], z[k]) /\ Begins(z[k], z[n])
      BY <1>5, <2>2, <3>1, <3>2
    <3>4. z[k - 1] \in Seq(Line) /\ z[k] \in Seq(Line) /\ z[n] \in Seq(Line)
      BY <1>2, <1>4, <3>1, <3>2
    <3>5. Begins(z[k - 1], z[n])
      BY <3>3, <3>4, BeginsTransitive
    <3> QED
      BY <3>1, <3>2, <3>5
  <2>3. \A j \in 0..n : j \in T
    <3> HIDE DEF T
    <3> QED
      BY <1>1, <2>1, <2>2, BoundedInduction
  <2> TAKE k \in 0..n
  <2>4. n - k \in 0..n /\ n - (n - k) = k
    BY <1>1
  <2>5. Begins(z[n - (n - k)], z[n])
    BY <2>3, <2>4
  <2> QED
    BY <2>4, <2>5
<1> DEFINE h2 == [k \in Nat |-> Len(z[k - 1] \o g(k)) + 1]
           e2 == [k \in Nat |-> Len(z[k])]
<1>7. ASSUME NEW k \in 1..n
      PROVE  /\ SectionAt(z[n], k, e2[k - 1], h2[k], e2[k])
             /\ h2[k] = Len(z[k - 1] \o g(k)) + 1
             /\ z[n][h2[k]] = text[h[k]]
             /\ Gap(z[n], e2[k - 1], h2[k]) = g(k)
             /\ Inner(z[n], h2[k], e2[k]) = body[k]
  <2>1. PICK p, y, l, f, x, w : /\ p = z[k - 1] /\ y = body[k] /\ l = text[h[k]] /\ f = g(k)
                                /\ x = z[k] /\ w = z[n]
    OBVIOUS
  <2>2. n \in 0..n
    BY <1>1
  <2>3. /\ p \in Seq(Line) /\ y \in Seq(BodyLine) /\ l \in Line /\ IsHeader(l) /\ f \in Seq(GapLine(k))
        /\ x \in Seq(Line) /\ x = Append(p \o f, l) \o y /\ w \in Seq(Line) /\ Begins(x, w)
    BY <1>2, <1>3, <1>4, <1>6, <2>1, <2>2
  <2>4. PICK a, b, c : a = Len(p) /\ b = Len(p \o f) + 1 /\ c = Len(x)
    OBVIOUS
  <2>5. SectionAt(w, k, a, b, c) /\ w[b] = l /\ Gap(w, a, b) = f /\ Inner(w, b, c) = y
    <3>1. PieceOf(p, f, l, y, x, a, b, c)
      BY <2>3, <2>4 DEF PieceOf
    <3> QED
      BY <2>3, <3>1, PieceAt
  <2>6. e2[k - 1] = a /\ h2[k] = b /\ e2[k] = c
    <3>1. k - 1 \in Nat /\ k \in Nat
      BY <1>1
    <3> QED
      BY <2>1, <2>4, <3>1
  <2> HIDE DEF h2, e2
  <2> QED
    BY <2>1, <2>4, <2>5, <2>6
<1>8. e2[0] = 0
  BY <1>2
<1>9. e2[n] = Len(z[n]) /\ Len(z[n]) \in Nat
  <2>1. n \in 0..n
    BY <1>1
  <2>2. Len(z[n]) \in Nat
    BY <1>2, <2>1, LenProperties
  <2> QED
    BY <1>1, <2>2
<1> HIDE DEF h2, e2
<1>10. Layout(z[n], n, h2, e2)
  <2>1. \A i \in e2[n] + 1..Len(z[n]) : z[n][i] \in GapLine(n + 1)
    BY <1>9
  <2> QED
    BY <1>1, <1>7, <1>8, <1>9, <2>1 DEF Layout, Laid
<1>11. ASSUME NEW k \in 1..n
       PROVE  Relays(text, e[k - 1], h[k], z[k - 1], body[k], z[n], e2[k - 1], h2[k], e2[k])
  BY <1>7 DEF g, Relays
<1> QED
  BY <1>10, <1>11
-----------------------------------------------------------------------------
(* A snapshot taken again                                                  *)

\* The blank lines a body ended with are counted again.
LEMMA BlanksAgain ==
    ASSUME NEW w \in Seq(Line), NEW b \in Nat \ {0}, NEW c \in Nat, b <= c, c <= Len(w),
           NEW d \in Seq(BodyLine), Len(d) # 0, NotBlank(d[Len(d)]), NEW t \in Nat,
           \A i \in b + 1..c : w[i] \in BodyLine,
           Inner(w, b, c) = d \o BlankLines(t)
    PROVE  trailing_blank_line_count(w, b, c) = t
<1> DEFINE upper == IF c < Len(w) THEN c ELSE Len(w)
           blanks == {n \in 1..Len(w) : /\ b + n <= upper
                                        /\ \A i \in (upper - n + 1)..upper : w[i] = Blank}
<1>1. PICK f, q, x, y : f = Len(d) /\ q = BlankLines(t) /\ x = Inner(w, b, c) /\ y = d[Len(d)]
  OBVIOUS
<1>2. Len(w) \in Nat /\ f \in Nat \ {0} /\ upper = c
  BY <1>1, LenProperties
<1>3. q \in Seq(BodyLine) /\ Len(q) = t /\ \A i \in 1..t : q[i] = Blank
  BY <1>1, BlankLinesType DEF BlankLines
<1>4. /\ Len(x) = f + t
      /\ \A i \in 1..f + t : x[i] = IF i <= f THEN d[i] ELSE q[i - f]
  <2>1. /\ Len(d \o q) = Len(d) + Len(q)
        /\ \A i \in 1..Len(d) + Len(q) : (d \o q)[i] = IF i <= Len(d) THEN d[i] ELSE q[i - Len(d)]
    BY <1>3, ConcatProperties
  <2>2. x = d \o q
    BY <1>1
  <2> QED
    BY <1>1, <1>3, <2>1, <2>2
<1>5. Len(x) = c - b /\ \A i \in 1..c - b : x[i] = w[b + i]
  <2>1. b + 1 \in Int /\ c \in Int /\ (IF b + 1 <= c THEN c - (b + 1) + 1 ELSE 0) = c - b /\ c - (b + 1) + 1 = c - b
    OBVIOUS
  <2>2. /\ Len(SubSeq(w, b + 1, c)) = c - b
        /\ \A i \in 1..c - b : SubSeq(w, b + 1, c)[i] = w[(b + 1) + i - 1]
    BY <2>1, SubSeqProperties
  <2>3. \A i \in 1..c - b : (b + 1) + i - 1 = b + i
    OBVIOUS
  <2> QED
    BY <1>1, <2>2, <2>3 DEF Inner
<1>6. c = b + f + t
  BY <1>2, <1>4, <1>5
<1>7. w[c - t] = y
  <2>1. f \in 1..f + t /\ f <= f /\ b + f = c - t /\ f \in 1..c - b
    BY <1>2, <1>6
  <2>2. x[f] = w[b + f]
    BY <1>5, <2>1
  <2>3. x[f] = d[f]
    BY <1>4, <2>1
  <2> QED
    BY <1>1, <2>1, <2>2, <2>3
<1>8. \A i \in c - t + 1..c : w[i] = Blank
  <2> TAKE i \in c - t + 1..c
  <2>1. PICK j : j = i - b
    OBVIOUS
  <2>2. j \in 1..c - b /\ j \in 1..f + t /\ ~(j <= f) /\ j - f \in 1..t /\ b + j = i
    BY <1>2, <1>6, <2>1
  <2>3. w[b + j] = x[j]
    BY <1>5, <2>2
  <2>4. x[j] = q[j - f]
    BY <1>4, <2>2
  <2> QED
    BY <1>3, <2>2, <2>3, <2>4
<1>9. y # Blank
  <2>1. ~NotBlank(Blank)
    BY DEF NotBlank, Blank
  <2>2. NotBlank(y)
    BY <1>1
  <2> QED
    BY <2>1, <2>2
<1> HIDE DEF upper
<1>10. \A n \in blanks : n \in 1..t
  <2> SUFFICES ASSUME NEW n \in blanks, n > t PROVE FALSE
    OBVIOUS
  <2>1. n \in 1..Len(w) /\ b + n <= c /\ \A i \in c - n + 1..c : w[i] = Blank
    BY <1>2
  <2>2. c - t \in c - n + 1..c
    BY <1>2, <1>6, <2>1
  <2> QED
    BY <1>7, <1>9, <2>1, <2>2
<1>11. t # 0 => t \in blanks
  <2> SUFFICES ASSUME t # 0 PROVE t \in blanks
    OBVIOUS
  <2>1. t \in 1..Len(w) /\ b + t <= c
    BY <1>2, <1>6
  <2> QED
    BY <1>2, <1>8, <2>1
<1>12. ~(b >= c \/ b >= Len(w))
  BY <1>2, <1>6
<1>13. trailing_blank_line_count(w, b, c)
         = IF b >= c \/ b >= Len(w) \/ blanks = {} THEN 0
           ELSE CHOOSE n \in blanks : \A k \in blanks : k <= n
  BY DEF trailing_blank_line_count, upper
<1> HIDE DEF blanks
<1>14. CASE t = 0
  <2>1. blanks = {}
    BY <1>10, <1>14
  <2> QED
    BY <1>13, <1>14, <2>1
<1>15. CASE t # 0
  <2>1. t \in blanks /\ \A k \in blanks : k <= t
    BY <1>10, <1>11, <1>15
  <2>2. PICK r : r = CHOOSE n \in blanks : \A k \in blanks : k <= n
    OBVIOUS
  <2>3. r \in blanks /\ \A k \in blanks : k <= r
    BY <2>1, <2>2
  <2>4. r = t
    <3>1. r \in 1..t /\ t <= r
      BY <1>10, <2>1, <2>3
    <3> QED
      BY <3>1
  <2> QED
    BY <1>12, <1>13, <2>1, <2>2, <2>4
<1> QED
  BY <1>14, <1>15

\* A body that holds the messages of part.
Holds(body, part) ==
    /\ part # <<>>
    /\ Content(body).want = part
    /\ Content(body).body = Lined(part)
    /\ \E t \in Nat : body = Body(part) \o BlankLines(t)

\* What a RESPONSE is given is what it expects from then on.
LEMMA ResponseBodyIs ==
    ASSUME NEW text \in Seq(Line), NEW response, IsAnswer(response), NEW s, IsSection(s),
           NEW m \in 0..Len(response.messages), Deals(s, response, m), NEW o \in Nat,
           NEW body, body = ResponseBody(text, response, s, o, m)
    PROVE  Holds(body, Dealt(s, response, m))
<1>1. PICK part, t, b, q : /\ part = Dealt(s, response, m) /\ b = Body(part) /\ q = BlankLines(t)
                           /\ t = trailing_blank_line_count(text, o, s.end_line)
  OBVIOUS
<1>2. part \in Seq(Messages) /\ Len(part) = Count(s, response, m) /\ Count(s, response, m) >= 1
  BY <1>1, DealtIs DEF Deals
<1>3. part # <<>>
  <2>1. Len(<<>>) = 0 /\ ~(0 >= 1)
    OBVIOUS
  <2> QED
    BY <1>2, <2>1
<1>4. t \in Nat
  BY <1>1, TrailingBlanks DEF IsSection
<1>5. b \in Seq(BodyLine) /\ Content(b).want = part /\ Content(b).body = Lined(part)
  BY <1>1, <1>2, BodyIs DEF BodyHolds
<1>6. q \in Seq(BodyLine) /\ Content(q).want = <<>> /\ Content(q).body = <<>>
  BY <1>1, <1>4, BlankLinesType, ContentBlank
<1>7. body = b \o q
  BY <1>1 DEF ResponseBody
<1>8. Content(body).want = part \o <<>> /\ Content(body).body = Lined(part) \o <<>>
  BY <1>5, <1>6, <1>7, ContentConcat
<1>9. Lined(part) \in Seq(Line)
  BY <1>5, ContentType
<1>10. part \o <<>> = part /\ Lined(part) \o <<>> = Lined(part)
  BY <1>2, <1>9, ConcatEmptySeq
<1> QED
  BY <1>1, <1>3, <1>4, <1>7, <1>8, <1>10 DEF Holds

\* A section of the new file, read by the parser.
LEMMA ParsedAgain ==
    ASSUME NEW text \in Seq(Line), NEW a, NEW b, NEW c,
           NEW z, NEW body, NEW w, NEW a2, NEW b2, NEW c2,
           Relays(text, a, b, z, body, w, a2, b2, c2)
    PROVE  /\ Parsed(w, b2, c2).type = Parsed(text, b, c).type
           /\ Parsed(w, b2, c2).with_asserts = Parsed(text, b, c).with_asserts
           /\ Parsed(w, b2, c2).want = Content(body).want
           /\ Parsed(w, b2, c2).body = Content(body).body
           /\ Parsed(w, b2, c2).end_line = c2
BY DEF Parsed, Relays

\* A section written over with the answer it holds stays: it is dealt as many
\* messages, and the blank lines counted are those it was given.
LEMMA AgainAt ==
    ASSUME NEW text \in Seq(Line), NEW k, NEW a, NEW b, NEW c, SectionAt(text, k, a, b, c),
           NEW response, IsAnswer(response),
           NEW z \in Seq(Line), NEW m \in 0..Len(response.messages), NEW body, NEW z2, NEW m2,
           RewriteAt(text, response, a, b, c, z, m, body, z2, m2),
           NEW w \in Seq(Line), NEW a2, NEW b2, NEW c2, SectionAt(w, k, a2, b2, c2),
           Relays(text, a, b, z, body, w, a2, b2, c2),
           NEW body3, NEW z3, NEW m3, RewriteAt(w, response, a2, b2, c2, z, m, body3, z3, m3)
    PROVE  z3 = z2 /\ m3 = m2
<1>1. PICK s, s2, o : s = Parsed(text, b, c) /\ s2 = Parsed(w, b2, c2) /\ o = Len(z \o Gap(text, a, b)) + 1
  OBVIOUS
<1>2. IsSection(s) /\ IsSection(s2)
  BY <1>1, ParsedIs
<1>3. /\ s2.type = s.type /\ s2.with_asserts = s.with_asserts /\ s2.want = Content(body).want
      /\ s2.end_line = c2
  BY <1>1, ParsedAgain
<1>4. b2 = o /\ Gap(w, a2, b2) = Gap(text, a, b) /\ w[b2] = text[b] /\ Inner(w, b2, c2) = body
  BY <1>1 DEF Relays
<1>5. /\ body = NewBody(text, response, s, b, o, m) /\ m2 = NewIdx(s, response, m)
      /\ z2 = Append(z \o Gap(text, a, b), text[b]) \o body
  BY <1>1 DEF RewriteAt
<1>6. /\ body3 = NewBody(w, response, s2, b2, o, m) /\ m3 = NewIdx(s2, response, m)
      /\ z3 = Append(z \o Gap(text, a, b), text[b]) \o body3
  BY <1>1, <1>4 DEF RewriteAt
<1>7. o \in Nat
  BY <1>4 DEF SectionAt
<1>8. body3 = body /\ m3 = m2
  <2>1. CASE Deals(s, response, m)
    <3>1. Deals(s2, response, m)
      BY <1>3, <2>1 DEF Deals
    <3>2. PICK L, part, n, r : /\ L = Len(response.messages) /\ part = Dealt(s, response, m)
                               /\ n = Count(s, response, m) /\ r = L - m
      OBVIOUS
    <3>3. /\ L \in Nat /\ part \in Seq(Messages) /\ Len(part) = n /\ n \in Nat
          /\ n = Min2(expected_count(s, r), r) /\ expected_count(s, r) \in Nat /\ r \in Nat
      <4>1. L \in Nat /\ r \in Nat
        BY <3>2, LenProperties DEF IsAnswer
      <4> QED
        BY <1>2, <3>2, <4>1, DealtIs
    <3>4. body = ResponseBody(text, response, s, o, m)
      BY <1>5, <2>1 DEF NewBody
    <3>5. Content(body).want = part /\ part # <<>> /\ \E t \in Nat : body = Body(part) \o BlankLines(t)
      <4>1. Holds(body, Dealt(s, response, m))
        BY <1>2, <1>7, <2>1, <3>4, ResponseBodyIs
      <4>2. Holds(body, part)
        BY <3>2, <4>1
      <4> QED
        BY <4>2 DEF Holds
    <3>6. Count(s2, response, m) = n
      <4>1. Count(s2, response, m) = Min2(expected_count(s2, r), r)
        BY <3>2 DEF Count
      <4>2. CASE s.with_asserts
        <5>1. expected_count(s2, r) = r /\ expected_count(s, r) = r
          BY <1>3, <4>2 DEF expected_count
        <5> QED
          BY <3>3, <4>1, <5>1
      <4>3. CASE ~s.with_asserts
        <5>1. expected_count(s2, r) = n
          BY <1>3, <3>3, <3>5, <4>3 DEF expected_count
        <5>2. n <= r
          BY <3>3 DEF Min2
        <5>3. Min2(n, r) = n
          BY <3>3, <5>2 DEF Min2
        <5> QED
          BY <4>1, <5>1, <5>3
      <4> QED
        BY <4>2, <4>3
    <3>7. Dealt(s2, response, m) = part
      BY <3>2, <3>6 DEF Dealt
    <3>8. PICK t \in Nat : body = Body(part) \o BlankLines(t)
      BY <3>5
    <3>9. trailing_blank_line_count(w, o, c2) = t
      <4>1. Body(part) \in Seq(BodyLine) /\ Len(Body(part)) # 0 /\ NotBlank(Body(part)[Len(Body(part))])
        BY <3>3, <3>5, BodyIs DEF BodyHolds
      <4>2. o \in Nat \ {0} /\ c2 \in Nat /\ o <= c2 /\ c2 <= Len(w) /\ \A i \in o + 1..c2 : w[i] \in BodyLine
        BY <1>4 DEF SectionAt
      <4>3. Inner(w, o, c2) = Body(part) \o BlankLines(t)
        BY <1>4, <3>8
      <4>4. PICK d : d = Body(part)
        OBVIOUS
      <4> QED
        BY <4>1, <4>2, <4>3, <4>4, BlanksAgain
    <3>10. body3 = ResponseBody(w, response, s2, o, m)
      BY <1>6, <3>1 DEF NewBody
    <3>11. body3 = body
      BY <1>3, <3>7, <3>8, <3>9, <3>10 DEF ResponseBody
    <3>12. m3 = m2
      BY <1>5, <1>6, <2>1, <3>1, <3>2, <3>6 DEF NewIdx
    <3> QED
      BY <3>11, <3>12
  <2>2. CASE ~Deals(s, response, m)
    <3>1. ~Deals(s2, response, m)
      BY <1>3, <2>2 DEF Deals
    <3>2. m3 = m2
      BY <1>5, <1>6, <2>2, <3>1 DEF NewIdx
    <3>3. CASE s.type = "ERROR" /\ response.error
      BY <1>3, <1>5, <1>6, <2>2, <3>1, <3>2, <3>3 DEF NewBody
    <3>4. CASE ~(s.type = "ERROR" /\ response.error)
      <4>1. body3 = Inner(w, b2, c2)
        BY <1>3, <1>6, <3>1, <3>4 DEF NewBody
      <4> QED
        BY <1>4, <3>2, <4>1
    <3> QED
      BY <3>3, <3>4
  <2> QED
    BY <2>1, <2>2
<1> QED
  BY <1>5, <1>6, <1>8

\* A snapshot taken again changes nothing.
LEMMA WrittenAgain ==
    ASSUME NEW text \in Seq(Line), AttributesAdjacent(text), NEW response, IsAnswer(response)
    PROVE  LET w == Updated(text, Sections(text), response)
           IN  Updated(w, Sections(w), response) = w
<1>1. PICK n, h, e : Layout(text, n, h, e)
  BY LayoutExists
<1>2. PICK z, m, body :
        /\ Rewrites(text, n, h, e, response, z, m, body)
        /\ n > 0 => Updated(text, Sections(text), response) = z[n]
        /\ n = 0 => Updated(text, Sections(text), response) = text
  BY <1>1, RewriteExists
<1>3. n \in Nat /\ \A k \in 1..n : SectionAt(text, k, e[k - 1], h[k], e[k])
  BY <1>1 DEF Layout, Laid
<1>4. CASE n = 0
  BY <1>2, <1>4
<1>5. CASE n > 0
  <2>1. PICK w : w = z[n]
    OBVIOUS
  <2>2. w \in Seq(Line)
    <3>1. n \in 0..n
      BY <1>3
    <3> QED
      BY <1>2, <2>1, <3>1 DEF Rewrites
  <2>3. PICK h2, e2 :
          /\ Layout(w, n, h2, e2)
          /\ \A k \in 1..n : Relays(text, e[k - 1], h[k], z[k - 1], body[k], w, e2[k - 1], h2[k], e2[k])
    BY <1>1, <1>2, <1>5, <2>1, Relaid
  <2>4. \A k \in 1..n : SectionAt(w, k, e2[k - 1], h2[k], e2[k])
    BY <2>3 DEF Layout, Laid
  <2>5. PICK z3, m3, body3 :
          /\ Rewrites(w, n, h2, e2, response, z3, m3, body3)
          /\ Updated(w, Sections(w), response) = z3[n]
    BY <1>5, <2>2, <2>3, RewriteExists
  <2> DEFINE T == {k \in 0..n : z3[k] = z[k] /\ m3[k] = m[k]}
  <2>6. 0 \in T
    BY <1>2, <1>3, <2>5 DEF Rewrites
  <2>7. ASSUME NEW k \in 0..n - 1, k \in T PROVE k + 1 \in T
    <3>1. k + 1 \in 1..n /\ k + 1 \in 0..n /\ (k + 1) - 1 = k /\ k \in 0..n
      BY <1>3
    <3>2. RewriteAt(text, response, e[k], h[k + 1], e[k + 1], z[k], m[k], body[k + 1], z[k + 1], m[k + 1])
      BY <1>2, <3>1 DEF Rewrites
    <3>3. RewriteAt(w, response, e2[k], h2[k + 1], e2[k + 1], z[k], m[k], body3[k + 1], z3[k + 1], m3[k + 1])
      <4>1. RewriteAt(w, response, e2[k], h2[k + 1], e2[k + 1], z3[k], m3[k], body3[k + 1], z3[k + 1], m3[k + 1])
        BY <2>5, <3>1 DEF Rewrites
      <4>2. z3[k] = z[k] /\ m3[k] = m[k]
        BY <2>7
      <4> QED
        BY <4>1, <4>2
    <3>4. /\ SectionAt(text, k + 1, e[k], h[k + 1], e[k + 1]) /\ SectionAt(w, k + 1, e2[k], h2[k + 1], e2[k + 1])
          /\ Relays(text, e[k], h[k + 1], z[k], body[k + 1], w, e2[k], h2[k + 1], e2[k + 1])
      BY <1>3, <2>3, <2>4, <3>1
    <3>5. z[k] \in Seq(Line) /\ m[k] \in 0..Len(response.messages)
      BY <1>2, <3>1 DEF Rewrites
    <3>6. z3[k + 1] = z[k + 1] /\ m3[k + 1] = m[k + 1]
      BY <2>2, <3>2, <3>3, <3>4, <3>5, AgainAt
    <3> QED
      BY <3>1, <3>6
  <2>8. z3[n] = z[n]
    <3>1. \A k \in 0..n : k \in T
      <4> HIDE DEF T
      <4> QED
        BY <1>3, <2>6, <2>7, BoundedInduction
    <3>2. n \in 0..n
      BY <1>3
    <3> QED
      BY <3>1, <3>2
  <2> QED
    BY <1>2, <1>5, <2>1, <2>5, <2>8
<1> QED
  BY <1>3, <1>4, <1>5
-----------------------------------------------------------------------------
(* What a snapshot leaves alone                                            *)

\* Whatever the file, its sections are what a snapshot can write from.
LEMMA SectionsAre ==
    ASSUME NEW text \in Seq(Line) PROVE IsSections(Sections(text))
<1>1. PICK f : f = Found(text)
  OBVIOUS
<1>2. f \in Seq(Raw) /\ Len(f) \in Nat /\ Len(text) \in Nat /\ DOMAIN f = 1..Len(f)
  BY <1>1, FoundType, LenProperties
<1>3. Sections(text) = [k \in 1..Len(f) |->
            [type |-> f[k].type, with_asserts |-> f[k].with_asserts,
             start_line |-> f[k].start_line, end_line |-> EndLine(text, f, k),
             want |-> f[k].want, body |-> f[k].body]]
  BY <1>1, <1>2 DEF Sections
<1>4. Len(Sections(text)) = Len(f)
  BY <1>2, <1>3
<1>5. ASSUME NEW k \in 1..Len(f) PROVE IsSection(Sections(text)[k])
  <2>1. PICK r \in Raw : r = f[k]
    BY <1>2, ElementOfSeq
  <2>2. /\ r.type \in Words /\ r.with_asserts \in BOOLEAN /\ r.start_line \in Nat /\ r.size \in Nat
        /\ r.want \in Seq(Messages)
    BY DEF Raw
  <2>3. EndLine(text, f, k) \in Nat
    <3>1. r.start_line + r.size + 1 \in Nat
      BY <2>2
    <3>2. EndLine(text, f, k) = IF k = Len(f) THEN Len(text) ELSE r.start_line + r.size + 1
      BY <2>1 DEF EndLine
    <3> QED
      BY <1>2, <3>1, <3>2
  <2>4. /\ Sections(text)[k].type = r.type /\ Sections(text)[k].with_asserts = r.with_asserts
        /\ Sections(text)[k].start_line = r.start_line /\ Sections(text)[k].want = r.want
        /\ Sections(text)[k].end_line = EndLine(text, f, k)
    BY <1>3, <2>1
  <2> QED
    BY <2>2, <2>3, <2>4 DEF IsSection
<1> QED
  BY <1>2, <1>4, <1>5 DEF IsSections

\* A section that is written over, or copied, says the same outside its body.
LEMMA RestAt ==
    ASSUME NEW text \in Seq(Line), NEW k, NEW a, NEW b, NEW c, SectionAt(text, k, a, b, c),
           NEW response, NEW z \in Seq(Line), NEW m, NEW body, NEW z2, NEW m2,
           RewriteAt(text, response, a, b, c, z, m, body, z2, m2),
           ReadThrough(z) = ReadThrough(SubSeq(text, 1, a))
    PROVE  ReadThrough(z2) = ReadThrough(SubSeq(text, 1, c))
<1>1. PICK p, g, l, y, q, r : /\ p = SubSeq(text, 1, a) /\ g = Gap(text, a, b) /\ l = text[b]
                              /\ y = Inner(text, b, c) /\ q = Append(p \o g, l) /\ r = Append(z \o g, l)
  OBVIOUS
<1>2. /\ p \in Seq(Line) /\ g \in Seq(Line) /\ y \in Seq(BodyLine) /\ l \in Line /\ IsHeader(l)
      /\ p \o g \in Seq(Line)
  BY <1>1, Pieces
<1>3. SubSeq(text, 1, c) = q \o y
  <2>1. PartsOf(text, a, b, c)
    BY Pieces
  <2> QED
    BY <1>1, <2>1 DEF PartsOf
<1>4. z2 = r \o body /\ body \in Seq(BodyLine)
  BY <1>1 DEF RewriteAt
<1>5. PICK u, v : u = p \o g /\ v = z \o g
  OBVIOUS
<1>6. u \in Seq(Line) /\ v \in Seq(Line)
  BY <1>2, <1>5, ConcatProperties
<1>7. ReadThrough(u) = ReadThrough(v)
  <2>1. ReadThrough(z) = ReadThrough(p)
    BY <1>1
  <2>2. \A x \in Seq(Line) : ReadThrough(z \o x) = ReadThrough(p \o x)
    BY <1>2, <2>1, ReadThroughConcat
  <2> QED
    BY <1>2, <1>5, <2>2
<1>8. q = Append(u, l) /\ r = Append(v, l) /\ q \in Seq(Line) /\ r \in Seq(Line)
  BY <1>1, <1>2, <1>5, <1>6, AppendProperties
<1>9. ReadThrough(q) = ReadLine(ReadThrough(u), l) /\ ReadThrough(r) = ReadLine(ReadThrough(v), l)
  BY <1>2, <1>6, <1>8, ReadThroughAppend
<1>10. ReadThrough(q) = ReadThrough(r)
  BY <1>7, <1>9
<1>11. y \in Seq(Line)
  BY <1>2, BodyLineIs, SeqMonotonic
<1>12. CASE body = y
  <2>1. ReadThrough(q \o y) = ReadThrough(r \o y)
    BY <1>8, <1>10, <1>11, ReadThroughConcat
  <2> QED
    BY <1>3, <1>4, <1>12, <2>1
<1>13. CASE body # y
  <2>1. PICK s, o : s = Parsed(text, b, c) /\ o = Len(z \o g) + 1
    OBVIOUS
  <2>2. body = NewBody(text, response, s, b, o, m) /\ s.type = l.what /\ s.end_line = c
    BY <1>1, <2>1 DEF RewriteAt, Parsed
  <2>3. s.type \in {"RESPONSE", "ERROR"}
    BY <1>1, <1>13, <2>2 DEF NewBody, Deals
  <2>4. ReadThrough(q).inside /\ ReadThrough(r).inside
    <3>1. \A x : ReadLine(x, l).inside
      BY <1>2, <2>2, <2>3 DEF ReadLine
    <3> QED
      BY <1>9, <3>1
  <2>5. ReadThrough(q \o y) = ReadThrough(q)
    BY <1>2, <1>8, <2>4, ReadThroughBody
  <2>6. ReadThrough(r \o body) = ReadThrough(r)
    BY <1>4, <1>8, <2>4, ReadThroughBody
  <2> QED
    BY <1>3, <1>4, <1>10, <2>5, <2>6
<1> QED
  BY <1>12, <1>13

\* Outside the bodies of RESPONSE and ERROR a snapshot loses and adds nothing.
LEMMA RestOfUpdated ==
    ASSUME NEW text \in Seq(Line), AttributesAdjacent(text), NEW response, IsAnswer(response)
    PROVE  Rest(Updated(text, Sections(text), response)) = Rest(text)
<1>1. PICK n, h, e : Layout(text, n, h, e)
  BY LayoutExists
<1>2. PICK z, m, body :
        /\ Rewrites(text, n, h, e, response, z, m, body)
        /\ n > 0 => Updated(text, Sections(text), response) = z[n]
        /\ n = 0 => Updated(text, Sections(text), response) = text
  BY <1>1, RewriteExists
<1>3. /\ n \in Nat /\ e[0] = 0 /\ (n > 0 => e[n] = Len(text))
      /\ \A k \in 1..n : SectionAt(text, k, e[k - 1], h[k], e[k])
  BY <1>1 DEF Layout, Laid
<1>4. CASE n = 0
  BY <1>2, <1>4
<1>5. CASE n > 0
  <2> DEFINE T == {k \in 0..n : ReadThrough(z[k]) = ReadThrough(SubSeq(text, 1, e[k]))}
  <2>1. 0 \in T
    <3>1. z[0] = <<>>
      BY <1>2 DEF Rewrites
    <3>2. SubSeq(text, 1, e[0]) = <<>>
      BY <1>3, SubSeqEmpty
    <3>3. 0 \in 0..n
      BY <1>3
    <3> QED
      BY <3>1, <3>2, <3>3
  <2>2. ASSUME NEW k \in 0..n - 1, k \in T PROVE k + 1 \in T
    <3>1. k + 1 \in 1..n /\ k + 1 \in 0..n /\ (k + 1) - 1 = k /\ k \in 0..n
      BY <1>3
    <3>2. RewriteAt(text, response, e[k], h[k + 1], e[k + 1], z[k], m[k], body[k + 1], z[k + 1], m[k + 1])
      BY <1>2, <3>1 DEF Rewrites
    <3>3. SectionAt(text, k + 1, e[k], h[k + 1], e[k + 1]) /\ z[k] \in Seq(Line)
      BY <1>2, <1>3, <3>1 DEF Rewrites
    <3>4. ReadThrough(z[k]) = ReadThrough(SubSeq(text, 1, e[k]))
      BY <2>2
    <3>5. ReadThrough(z[k + 1]) = ReadThrough(SubSeq(text, 1, e[k + 1]))
      BY <3>2, <3>3, <3>4, RestAt
    <3> QED
      BY <3>1, <3>5
  <2>3. n \in T
    <3>1. \A k \in 0..n : k \in T
      <4> HIDE DEF T
      <4> QED
        BY <1>3, <2>1, <2>2, BoundedInduction
    <3>2. n \in 0..n
      BY <1>3
    <3> HIDE DEF T
    <3> QED
      BY <3>1, <3>2
  <2>4. ReadThrough(z[n]) = ReadThrough(text)
    <3>1. SubSeq(text, 1, e[n]) = text
      BY <1>3, <1>5, SubSeqFull
    <3> QED
      BY <2>3, <3>1
  <2> QED
    BY <1>2, <1>5, <2>4 DEF Rest
<1> QED
  BY <1>3, <1>4, <1>5
-----------------------------------------------------------------------------
(* What a document reads and checks                                        *)

\* A count that grows by add[k] with section k.
Sums(f, n, add) ==
    /\ f[0] = 0
    /\ \A k \in 1..n : f[k] = f[k - 1] + add[k]
    /\ \A k \in 0..n : f[k] \in Nat

\* Such counts exist,
LEMMA SumExists ==
    ASSUME NEW n \in Nat, NEW add \in [1..n -> Nat]
    PROVE  \E f : f = [k \in 0..n |-> f[k]] /\ Sums(f, n, add)
<1>1. PICK step : step \in Steps(n, Nat) /\ \A k \in 1..n : \A v \in Nat : step[k][v] = v + add[k]
  <2> DEFINE s == [k \in 1..n |-> [v \in Nat |-> v + add[k]]]
  <2>1. s \in Steps(n, Nat)
    BY DEF Steps
  <2>2. \A k \in 1..n : \A v \in Nat : s[k][v] = v + add[k]
    OBVIOUS
  <2> HIDE DEF s
  <2> QED
    BY <2>1, <2>2
<1>2. PICK f : Recursion(f, n, Nat, 0, step)
  BY <1>1, RecursionExists
<1>3. f = [k \in 0..n |-> f[k]] /\ f[0] = 0 /\ \A k \in 0..n : f[k] \in Nat
  BY <1>2 DEF Recursion
<1>4. \A k \in 1..n : f[k] = f[k - 1] + add[k]
  <2> TAKE k \in 1..n
  <2>1. k - 1 \in 0..n
    OBVIOUS
  <2>2. f[k - 1] \in Nat
    BY <1>3, <2>1
  <2> QED
    BY <1>1, <1>2, <2>2 DEF Recursion
<1> QED
  BY <1>3, <1>4 DEF Sums

\* are in the order of what they add,
LEMMA SumsAtMost ==
    ASSUME NEW n \in Nat, NEW a \in [1..n -> Nat], NEW b \in [1..n -> Nat], \A k \in 1..n : a[k] <= b[k],
           NEW f, NEW g, Sums(f, n, a), Sums(g, n, b)
    PROVE  f[n] <= g[n]
<1> DEFINE T == {k \in 0..n : f[k] <= g[k]}
<1>1. 0 \in T
  BY DEF Sums
<1>2. ASSUME NEW k \in 0..n - 1, k \in T PROVE k + 1 \in T
  <2>1. k + 1 \in 1..n /\ k + 1 \in 0..n /\ (k + 1) - 1 = k /\ k \in 0..n
    OBVIOUS
  <2>2. f[k] \in Nat /\ g[k] \in Nat /\ f[k] <= g[k]
    BY <1>2, <2>1 DEF Sums
  <2>3. f[k + 1] = f[k] + a[k + 1] /\ g[k + 1] = g[k] + b[k + 1]
    BY <2>1 DEF Sums
  <2>4. a[k + 1] \in Nat /\ b[k + 1] \in Nat /\ a[k + 1] <= b[k + 1]
    BY <2>1
  <2>5. f[k + 1] <= g[k + 1]
    BY <2>2, <2>3, <2>4
  <2> QED
    BY <2>1, <2>5
<1>3. n \in T
  <2>1. \A k \in 0..n : k \in T
    <3> HIDE DEF T
    <3> QED
      BY <1>1, <1>2, BoundedInduction
  <2>2. n \in 0..n
    OBVIOUS
  <2> HIDE DEF T
  <2> QED
    BY <2>1, <2>2
<1> QED
  BY <1>3

\* and are the same when they add the same.
LEMMA SumsSame ==
    ASSUME NEW n \in Nat, NEW a, NEW f, NEW g, Sums(f, n, a), Sums(g, n, a)
    PROVE  \A k \in 0..n : f[k] = g[k]
<1> DEFINE T == {k \in 0..n : f[k] = g[k]}
<1>1. 0 \in T
  BY DEF Sums
<1>2. ASSUME NEW k \in 0..n - 1, k \in T PROVE k + 1 \in T
  <2>1. k + 1 \in 1..n /\ k + 1 \in 0..n /\ (k + 1) - 1 = k
    OBVIOUS
  <2>2. f[k + 1] = f[k] + a[k + 1] /\ g[k + 1] = g[k] + a[k + 1] /\ f[k] = g[k]
    BY <1>2, <2>1 DEF Sums
  <2> QED
    BY <2>1, <2>2
<1>3. \A k \in 0..n : k \in T
  <2> HIDE DEF T
  <2> QED
    BY <1>1, <1>2, BoundedInduction
<1> QED
  BY <1>3

\* What grows by natural numbers is one.
LEMMA SumsWhen ==
    ASSUME NEW n \in Nat, NEW add \in [1..n -> Nat], NEW g, g[0] = 0,
           \A k \in 1..n : g[k] = g[k - 1] + add[k]
    PROVE  Sums(g, n, add)
<1> DEFINE T == {k \in 0..n : g[k] \in Nat}
<1>1. 0 \in T
  OBVIOUS
<1>2. ASSUME NEW k \in 0..n - 1, k \in T PROVE k + 1 \in T
  <2>1. k + 1 \in 1..n /\ k + 1 \in 0..n /\ (k + 1) - 1 = k
    OBVIOUS
  <2>2. g[k + 1] = g[k] + add[k + 1] /\ g[k] \in Nat /\ add[k + 1] \in Nat
    BY <1>2, <2>1
  <2> QED
    BY <2>1, <2>2
<1>3. \A k \in 0..n : k \in T
  <2> HIDE DEF T
  <2> QED
    BY <1>1, <1>2, BoundedInduction
<1> QED
  BY <1>3 DEF Sums

ReadsAt(s) == IF IsResponse(s) THEN Reads(s) ELSE 0
ChecksAt(s) == IF IsResponse(s) THEN Len(s.want) ELSE 0
ReadsOf(sections) == [k \in 1..Len(sections) |-> ReadsAt(sections[k])]
ChecksOf(sections) == [k \in 1..Len(sections) |-> ChecksAt(sections[k])]

\* What a section reads and what it checks are numbers; it checks no more than it reads.
LEMMA AddsType ==
    ASSUME NEW sections, IsSections(sections)
    PROVE  /\ ReadsOf(sections) \in [1..Len(sections) -> Nat]
           /\ ChecksOf(sections) \in [1..Len(sections) -> Nat]
           /\ \A k \in 1..Len(sections) : ChecksOf(sections)[k] <= ReadsOf(sections)[k]
<1>1. ASSUME NEW k \in 1..Len(sections)
      PROVE  /\ ReadsAt(sections[k]) \in Nat /\ ChecksAt(sections[k]) \in Nat
             /\ ChecksAt(sections[k]) <= ReadsAt(sections[k])
  <2>1. PICK s : s = sections[k]
    OBVIOUS
  <2>2. s.want \in Seq(Messages) /\ Len(s.want) \in Nat
    BY <2>1, LenProperties DEF IsSections, IsSection
  <2>3. s.want = <<>> => Len(s.want) = 0
    OBVIOUS
  <2> QED
    BY <2>1, <2>2, <2>3 DEF ReadsAt, ChecksAt, Reads
<1> QED
  BY <1>1 DEF ReadsOf, ChecksOf

\* ReadBy is such a count.
LEMMA ReadBySums ==
    ASSUME NEW sections, IsSections(sections)
    PROVE  Sums(ReadBy(sections), Len(sections), ReadsOf(sections))
<1> DEFINE n == Len(sections)
           add == ReadsOf(sections)
           Fits(f) == f = [k \in 0..n |-> IF k = 0 THEN 0 ELSE f[k - 1] + ReadsAt(sections[k])]
<1>1. n \in Nat /\ add \in [1..n -> Nat]
  BY AddsType DEF IsSections
<1>2. \A k \in 1..n : add[k] = ReadsAt(sections[k])
  BY DEF ReadsOf
<1>3. ReadBy(sections) = CHOOSE f : Fits(f)
  BY DEF ReadBy, ReadsAt
<1> HIDE DEF n, add
<1>4. PICK f : f = [k \in 0..n |-> f[k]] /\ Sums(f, n, add)
  BY <1>1, SumExists
<1>5. Fits(f)
  <2>1. \A k \in 0..n : k = 0 \/ k \in 1..n
    BY <1>1
  <2>2. \A k \in 0..n : f[k] = IF k = 0 THEN 0 ELSE f[k - 1] + ReadsAt(sections[k])
    BY <1>2, <1>4, <2>1 DEF Sums
  <2> QED
    BY <1>4, <2>2
<1>6. PICK g : g = ReadBy(sections) /\ Fits(g)
  <2> HIDE DEF Fits
  <2> QED
    BY <1>3, <1>5
<1>7. \A k \in 0..n : g[k] = IF k = 0 THEN 0 ELSE g[k - 1] + ReadsAt(sections[k])
  BY <1>6
<1>8. g[0] = 0 /\ \A k \in 1..n : g[k] = g[k - 1] + add[k]
  <2>1. 0 \in 0..n /\ \A k \in 1..n : k \in 0..n /\ k # 0
    BY <1>1
  <2> QED
    BY <1>2, <1>7, <2>1
<1> QED
  BY <1>1, <1>6, <1>8, SumsWhen DEF n, add

\* The messages checked are counted alike.
LEMMA ChecksSums ==
    ASSUME NEW sections, IsSections(sections)
    PROVE  \E f : Sums(f, Len(sections), ChecksOf(sections)) /\ Checks(sections) = f[Len(sections)]
<1> DEFINE n == Len(sections)
           add == ChecksOf(sections)
           Fits(f) == f = [k \in 0..n |-> IF k = 0 THEN 0 ELSE f[k - 1] + ChecksAt(sections[k])]
           chosen == CHOOSE f : Fits(f)
<1>1. n \in Nat /\ add \in [1..n -> Nat]
  BY AddsType DEF IsSections
<1>2. \A k \in 1..n : add[k] = ChecksAt(sections[k])
  BY DEF ChecksOf
<1>3. Checks(sections) = chosen[n]
  BY DEF Checks, ChecksAt
<1> HIDE DEF n, add
<1>4. PICK f : f = [k \in 0..n |-> f[k]] /\ Sums(f, n, add)
  BY <1>1, SumExists
<1>5. Fits(f)
  <2>1. \A k \in 0..n : k = 0 \/ k \in 1..n
    BY <1>1
  <2>2. \A k \in 0..n : f[k] = IF k = 0 THEN 0 ELSE f[k - 1] + ChecksAt(sections[k])
    BY <1>2, <1>4, <2>1 DEF Sums
  <2> QED
    BY <1>4, <2>2
<1>6. PICK g : g = chosen /\ Fits(g)
  <2> HIDE DEF Fits
  <2> QED
    BY <1>5
<1> HIDE DEF chosen
<1>7. \A k \in 0..n : g[k] = IF k = 0 THEN 0 ELSE g[k - 1] + ChecksAt(sections[k])
  BY <1>6
<1>8. g[0] = 0 /\ \A k \in 1..n : g[k] = g[k - 1] + add[k]
  <2>1. 0 \in 0..n /\ \A k \in 1..n : k \in 0..n /\ k # 0
    BY <1>1
  <2> QED
    BY <1>2, <1>7, <2>1
<1> QED
  BY <1>1, <1>3, <1>6, <1>8, SumsWhen DEF n, add
-----------------------------------------------------------------------------
(* A snapshot replays                                                      *)

\* The messages are dealt to the sections in turn: m[k] to the first k.
Turns(sections, response, m) ==
    /\ IsSections(sections) /\ IsAnswer(response) /\ m[0] = 0
    /\ \A k \in 1..Len(sections) : m[k] = NewIdx(sections[k], response, m[k - 1])
    /\ \A k \in 0..Len(sections) : m[k] \in 0..Len(response.messages)

\* Only the last RESPONSE takes what is left, and every one has a message to take.
Dealable(sections, response) ==
    /\ \A k \in 1..Len(sections) : IsResponse(sections[k]) /\ sections[k].with_asserts =>
         \A j \in 1..Len(sections) : j > k => ~IsResponse(sections[j])
    /\ \A k \in 1..Len(sections) :
         IsResponse(sections[k]) => ReadBy(sections)[k - 1] < Len(response.messages)

\* One turn.
LEMMA TurnIs ==
    ASSUME NEW response, IsAnswer(response), NEW s, IsSection(s), NEW m \in 0..Len(response.messages)
    PROVE  /\ ~IsResponse(s) => NewIdx(s, response, m) = m
           /\ IsResponse(s) /\ Len(response.messages) > m =>
                /\ Deals(s, response, m)
                /\ s.with_asserts => NewIdx(s, response, m) = Len(response.messages)
                /\ ~s.with_asserts =>
                     NewIdx(s, response, m) = Min2(m + Reads(s), Len(response.messages))
           /\ ReadsAt(s) \in Nat /\ (IsResponse(s) => ReadsAt(s) = Reads(s))
<1>1. PICK L, r : L = Len(response.messages) /\ r = L - m
  OBVIOUS
<1>2. L \in Nat /\ r \in Nat /\ s.want \in Seq(Messages) /\ Len(s.want) \in Nat
  BY <1>1, LenProperties DEF IsAnswer, IsSection
<1>3. ~IsResponse(s) => NewIdx(s, response, m) = m
  BY DEF IsResponse, NewIdx, Deals
<1>4. Reads(s) \in Nat
  BY <1>2 DEF Reads
<1>5. ReadsAt(s) \in Nat /\ (IsResponse(s) => ReadsAt(s) = Reads(s))
  BY <1>4 DEF ReadsAt
<1>6. ASSUME IsResponse(s), L > m
      PROVE  /\ Deals(s, response, m)
             /\ s.with_asserts => NewIdx(s, response, m) = L
             /\ ~s.with_asserts => NewIdx(s, response, m) = Min2(m + Reads(s), L)
  <2>1. Deals(s, response, m)
    BY <1>1, <1>6 DEF IsResponse, Deals
  <2>2. NewIdx(s, response, m) = m + Min2(expected_count(s, r), r)
    BY <1>1, <2>1 DEF NewIdx, Count
  <2>3. expected_count(s, r) = IF s.with_asserts THEN r ELSE Reads(s)
    BY DEF expected_count, Reads
  <2>4. m + Min2(r, r) = L /\ m + Min2(Reads(s), r) = Min2(m + Reads(s), L)
    BY <1>1, <1>2, <1>4 DEF Min2
  <2> QED
    BY <2>1, <2>2, <2>3, <2>4
<1> QED
  BY <1>1, <1>3, <1>5, <1>6

\* No RESPONSE is dealt more than it reads while another is to come.
LEMMA NoneAhead ==
    ASSUME NEW sections, NEW response, NEW m, Turns(sections, response, m), Dealable(sections, response)
    PROVE  \A k \in 1..Len(sections) : IsResponse(sections[k]) =>
               /\ m[k - 1] <= ReadBy(sections)[k - 1]
               /\ m[k - 1] < Len(response.messages)
<1> DEFINE n == Len(sections)
           L == Len(response.messages)
           R == ReadBy(sections)
           ToCome(k) == \E j \in 1..n : j > k /\ IsResponse(sections[j])
           T == {k \in 0..n : ToCome(k) => m[k] <= R[k]}
<1>1. n \in Nat /\ L \in Nat /\ \A k \in 1..n : IsSection(sections[k])
  BY LenProperties DEF Turns, IsSections, IsAnswer
<1>2. /\ m[0] = 0 /\ \A k \in 1..n : m[k] = NewIdx(sections[k], response, m[k - 1])
      /\ \A k \in 0..n : m[k] \in 0..L
  BY DEF Turns
<1>3. /\ R[0] = 0 /\ \A k \in 1..n : R[k] = R[k - 1] + ReadsAt(sections[k])
      /\ \A k \in 0..n : R[k] \in Nat
  <2>1. Sums(R, n, ReadsOf(sections))
    BY ReadBySums DEF Turns
  <2>2. \A k \in 1..n : ReadsOf(sections)[k] = ReadsAt(sections[k])
    BY DEF ReadsOf
  <2> HIDE DEF R
  <2> QED
    BY <2>1, <2>2 DEF Sums
<1>4. /\ \A k \in 1..n : IsResponse(sections[k]) /\ sections[k].with_asserts => ~ToCome(k)
      /\ \A k \in 1..n : IsResponse(sections[k]) => R[k - 1] < L
  BY DEF Dealable
<1>5. IsAnswer(response)
  BY DEF Turns
<1> HIDE DEF n, L, R
<1>6. 0 \in T
  BY <1>1, <1>2, <1>3
<1>7. ASSUME NEW k \in 0..n - 1, k \in T PROVE k + 1 \in T
  <2>1. k + 1 \in 1..n /\ k + 1 \in 0..n /\ (k + 1) - 1 = k /\ k \in 0..n
    BY <1>1
  <2> SUFFICES ASSUME ToCome(k + 1) PROVE m[k + 1] <= R[k + 1]
    BY <2>1
  <2>2. ToCome(k)
    BY <2>1
  <2>3. m[k] <= R[k]
    BY <1>7, <2>2
  <2>4. PICK s : s = sections[k + 1]
    OBVIOUS
  <2>5. /\ m[k] \in 0..L /\ R[k] \in Nat /\ IsSection(s)
        /\ m[k + 1] = NewIdx(s, response, m[k]) /\ R[k + 1] = R[k] + ReadsAt(s)
    BY <1>1, <1>2, <1>3, <2>1, <2>4
  <2>6. ReadsAt(s) \in Nat
    BY <1>5, <2>5, TurnIs DEF L
  <2>7. CASE ~IsResponse(s)
    <3>1. m[k + 1] = m[k]
      BY <1>5, <2>5, <2>7, TurnIs DEF L
    <3> QED
      BY <2>3, <2>5, <2>6, <3>1
  <2>8. CASE IsResponse(s)
    <3>1. ~s.with_asserts /\ R[k] < L
      BY <1>4, <2>1, <2>4, <2>8
    <3>2. L > m[k]
      BY <1>1, <2>3, <2>5, <3>1
    <3>3. m[k + 1] = Min2(m[k] + ReadsAt(s), L)
      BY <1>5, <2>5, <2>8, <3>1, <3>2, TurnIs DEF L
    <3> QED
      BY <1>1, <2>3, <2>5, <2>6, <3>3 DEF Min2
  <2> QED
    BY <2>7, <2>8
<1>8. \A k \in 0..n : k \in T
  <2> HIDE DEF T
  <2> QED
    BY <1>1, <1>6, <1>7, BoundedInduction
<1>9. ASSUME NEW k \in 1..n, IsResponse(sections[k]) PROVE m[k - 1] <= R[k - 1] /\ m[k - 1] < L
  <2>1. k - 1 \in 0..n /\ k > k - 1
    BY <1>1
  <2>2. m[k - 1] <= R[k - 1]
    BY <1>8, <1>9, <2>1
  <2>3. R[k - 1] < L /\ R[k - 1] \in Nat /\ m[k - 1] \in 0..L
    BY <1>2, <1>3, <1>4, <1>9, <2>1
  <2> QED
    BY <1>1, <2>2, <2>3
<1> QED
  BY <1>9 DEF n, L, R

\* Together they are dealt as much as they read, as long as there is as much.
LEMMA AsManyDealt ==
    ASSUME NEW sections, NEW response, NEW m, Turns(sections, response, m), Dealable(sections, response)
    PROVE  m[Len(sections)] >= Min2(ReadBy(sections)[Len(sections)], Len(response.messages))
<1> DEFINE n == Len(sections)
           L == Len(response.messages)
           R == ReadBy(sections)
           T == {k \in 0..n : m[k] >= Min2(R[k], L)}
<1>1. n \in Nat /\ L \in Nat /\ IsAnswer(response) /\ \A k \in 1..n : IsSection(sections[k])
  BY LenProperties DEF Turns, IsSections, IsAnswer
<1>2. /\ m[0] = 0 /\ \A k \in 1..n : m[k] = NewIdx(sections[k], response, m[k - 1])
      /\ \A k \in 0..n : m[k] \in 0..L
  BY DEF Turns
<1>3. /\ R[0] = 0 /\ \A k \in 1..n : R[k] = R[k - 1] + ReadsAt(sections[k])
      /\ \A k \in 0..n : R[k] \in Nat
  <2>1. Sums(R, n, ReadsOf(sections))
    BY ReadBySums DEF Turns
  <2>2. \A k \in 1..n : ReadsOf(sections)[k] = ReadsAt(sections[k])
    BY DEF ReadsOf
  <2> HIDE DEF R
  <2> QED
    BY <2>1, <2>2 DEF Sums
<1>4. \A k \in 1..n : IsResponse(sections[k]) => R[k - 1] < L /\ m[k - 1] < L
  BY NoneAhead DEF Dealable
<1> HIDE DEF n, L, R
<1>5. 0 \in T
  BY <1>1, <1>2, <1>3 DEF Min2
<1>6. ASSUME NEW k \in 0..n - 1, k \in T PROVE k + 1 \in T
  <2>1. k + 1 \in 1..n /\ k + 1 \in 0..n /\ (k + 1) - 1 = k /\ k \in 0..n
    BY <1>1
  <2>2. PICK s : s = sections[k + 1]
    OBVIOUS
  <2>3. /\ m[k] \in 0..L /\ R[k] \in Nat /\ IsSection(s) /\ m[k] >= Min2(R[k], L)
        /\ m[k + 1] = NewIdx(s, response, m[k]) /\ R[k + 1] = R[k] + ReadsAt(s)
    BY <1>1, <1>2, <1>3, <1>6, <2>1, <2>2
  <2>4. ReadsAt(s) \in Nat
    BY <1>1, <2>3, TurnIs DEF L
  <2>5. CASE ~IsResponse(s)
    <3>1. m[k + 1] = m[k] /\ ReadsAt(s) = 0
      BY <1>1, <2>3, <2>5, TurnIs DEF L, ReadsAt
    <3> QED
      BY <2>1, <2>3, <3>1
  <2>6. CASE IsResponse(s)
    <3>1. R[k] < L /\ L > m[k]
      BY <1>1, <1>4, <2>1, <2>2, <2>3, <2>6
    <3>2. CASE s.with_asserts
      <4>1. m[k + 1] = L
        BY <1>1, <2>3, <2>6, <3>1, <3>2, TurnIs DEF L
      <4> QED
        BY <1>1, <2>1, <2>3, <2>4, <4>1 DEF Min2
    <3>3. CASE ~s.with_asserts
      <4>1. m[k + 1] = Min2(m[k] + ReadsAt(s), L)
        BY <1>1, <2>3, <2>6, <3>1, <3>3, TurnIs DEF L
      <4> QED
        BY <1>1, <2>1, <2>3, <2>4, <3>1, <4>1 DEF Min2
    <3> QED
      BY <3>2, <3>3
  <2> QED
    BY <2>5, <2>6
<1>7. n \in T
  <2>1. \A k \in 0..n : k \in T
    <3> HIDE DEF T
    <3> QED
      BY <1>1, <1>5, <1>6, BoundedInduction
  <2>2. n \in 0..n
    BY <1>1
  <2> HIDE DEF T
  <2> QED
    BY <2>1, <2>2
<1> QED
  BY <1>7 DEF n, L, R

\* Each RESPONSE of the new file expects what it was dealt.
Answered(old, new, response, m) ==
    /\ Turns(old, response, m) /\ Dealable(old, response)
    /\ IsSections(new) /\ Len(new) = Len(old) /\ DOMAIN new = 1..Len(new)
    /\ \A k \in 1..Len(old) :
        /\ new[k].type = old[k].type
        /\ IsResponse(old[k]) => Deals(old[k], response, m[k - 1]) /\ new[k].want = Dealt(old[k], response, m[k - 1])

\* What is dealt is what the new file reads, and what it checks.
LEMMA ReadsWhatIsDealt ==
    ASSUME NEW old, NEW new, NEW response, NEW m, Answered(old, new, response, m)
    PROVE  /\ \A k \in 0..Len(old) : ReadBy(new)[k] = m[k]
           /\ Checks(new) = m[Len(old)]
           /\ \A k \in 1..Len(old) : IsResponse(old[k]) =>
                new[k].want = SubSeq(response.messages, m[k - 1] + 1, m[k])
<1>1. PICK n : n = Len(old) /\ n \in Nat /\ Len(new) = n
  BY DEF Answered, Turns, IsSections
<1>2. ASSUME NEW k \in 1..n
      PROVE  /\ m[k] = m[k - 1] + ReadsAt(new[k]) /\ m[k] = m[k - 1] + ChecksAt(new[k])
             /\ m[k - 1] \in Nat
             /\ IsResponse(old[k]) => new[k].want = SubSeq(response.messages, m[k - 1] + 1, m[k])
    <2>1. PICK s, t, x, L : s = old[k] /\ t = new[k] /\ x = m[k - 1] /\ L = Len(response.messages)
      OBVIOUS
    <2>2. k - 1 \in 0..n
      BY <1>1
    <2>3. /\ IsSection(s) /\ IsAnswer(response) /\ x \in 0..L /\ L \in Nat /\ m[k] = NewIdx(s, response, x)
          /\ t.type = s.type
      BY <1>1, <2>1, <2>2, LenProperties DEF Answered, Turns, IsSections, IsAnswer
    <2>4. CASE ~IsResponse(s)
      <3>1. m[k] = x
        BY <2>1, <2>3, <2>4, TurnIs
      <3>2. ReadsAt(t) = 0 /\ ChecksAt(t) = 0
        BY <2>3, <2>4 DEF IsResponse, ReadsAt, ChecksAt
      <3> QED
        BY <2>1, <2>3, <2>4, <3>1, <3>2
    <2>5. CASE IsResponse(s)
      <3>1. Deals(s, response, x) /\ t.want = Dealt(s, response, x)
        BY <1>1, <2>1, <2>5 DEF Answered
      <3>2. PICK c, part : c = Count(s, response, x) /\ part = Dealt(s, response, x)
        OBVIOUS
      <3>3. c \in Nat /\ c >= 1 /\ Len(part) = c
        <4>1. s.type = "RESPONSE" /\ Len(response.messages) > x
          BY <3>1 DEF Deals
        <4>2. IsAnswer(response) /\ IsSection(s) /\ x \in 0..Len(response.messages)
          BY <2>1, <2>3
        <4>3. /\ Count(s, response, x) \in Nat /\ Count(s, response, x) >= 1
              /\ Len(Dealt(s, response, x)) = Count(s, response, x)
          BY <4>1, <4>2, DealtIs
        <4> QED
          BY <3>2, <4>3
      <3>4. m[k] = x + c
        BY <2>3, <3>1, <3>2 DEF NewIdx
      <3>5. ReadsAt(t) = c /\ ChecksAt(t) = c
        <4>1. t.want = part /\ part # <<>>
          BY <3>1, <3>2, <3>3
        <4>2. IsResponse(t)
          BY <2>3, <2>5 DEF IsResponse
        <4> QED
          BY <3>3, <4>1, <4>2 DEF ReadsAt, ChecksAt, Reads
      <3>6. t.want = SubSeq(response.messages, x + 1, m[k])
        BY <3>1, <3>2, <3>4 DEF Dealt
      <3> QED
        BY <2>1, <2>3, <3>4, <3>5, <3>6
    <2> QED
      BY <2>4, <2>5
<1>3. m[0] = 0 /\ \A k \in 0..n : m[k] \in Nat
  <2>1. \A k \in 0..n : m[k] \in 0..Len(response.messages)
    BY <1>1 DEF Answered, Turns
  <2> QED
    BY <2>1 DEF Answered, Turns
<1>4. Sums(m, n, ReadsOf(new)) /\ Sums(m, n, ChecksOf(new))
  <2>1. \A k \in 1..n : ReadsOf(new)[k] = ReadsAt(new[k]) /\ ChecksOf(new)[k] = ChecksAt(new[k])
    BY <1>1 DEF ReadsOf, ChecksOf
  <2> QED
    BY <1>2, <1>3, <2>1 DEF Sums
<1>5. IsSections(new)
  BY DEF Answered
<1>6. Sums(ReadBy(new), n, ReadsOf(new))
  BY <1>1, <1>5, ReadBySums
<1>7. \A k \in 0..n : ReadBy(new)[k] = m[k]
  BY <1>1, <1>4, <1>6, SumsSame
<1>8. PICK f : Sums(f, n, ChecksOf(new)) /\ Checks(new) = f[n]
  BY <1>1, <1>5, ChecksSums
<1>9. f[n] = m[n]
  <2>1. n \in 0..n
    BY <1>1
  <2> QED
    BY <1>1, <1>4, <1>8, <2>1, SumsSame
<1> QED
  BY <1>1, <1>2, <1>7, <1>8, <1>9

\* So the new file passes, and checks no fewer messages than the old.
LEMMA PassesAnswered ==
    ASSUME NEW old, NEW new, NEW response, NEW m, Answered(old, new, response, m)
    PROVE  /\ Passes(new, response.messages)
           /\ Checks(new) >= Min2(Checks(old), Len(response.messages))
<1>1. PICK n, L : n = Len(old) /\ n \in Nat /\ DOMAIN new = 1..n /\ L = Len(response.messages)
  BY DEF Answered, Turns, IsSections
<1>2. L \in Nat /\ \A k \in 0..n : m[k] \in 0..L
  BY <1>1, LenProperties DEF Answered, Turns, IsAnswer
<1>3. ASSUME NEW k \in DOMAIN new, IsResponse(new[k])
      PROVE  /\ ReadBy(new)[k] <= L
             /\ new[k].want = SubSeq(response.messages, ReadBy(new)[k - 1] + 1, ReadBy(new)[k])
  <2>1. k \in 1..n /\ k \in 0..n /\ k - 1 \in 0..n
    BY <1>1
  <2>2. ReadBy(new)[k] = m[k] /\ ReadBy(new)[k - 1] = m[k - 1]
    BY <1>1, <2>1, ReadsWhatIsDealt
  <2>3. IsResponse(old[k])
    BY <1>1, <1>3, <2>1 DEF Answered, IsResponse
  <2>4. new[k].want = SubSeq(response.messages, m[k - 1] + 1, m[k])
    BY <1>1, <2>1, <2>3, ReadsWhatIsDealt
  <2> QED
    BY <1>2, <2>1, <2>2, <2>4
<1>4. Passes(new, response.messages)
  BY <1>1, <1>3 DEF Passes
<1>5. IsSections(old) /\ Turns(old, response, m) /\ Dealable(old, response)
  BY DEF Answered, Turns
<1>6. m[n] >= Min2(ReadBy(old)[n], L)
  BY <1>1, <1>5, AsManyDealt
<1>7. PICK f : Sums(f, n, ChecksOf(old)) /\ Checks(old) = f[n]
  BY <1>1, <1>5, ChecksSums
<1>8. Sums(ReadBy(old), n, ReadsOf(old))
  BY <1>1, <1>5, ReadBySums
<1>9. f[n] <= ReadBy(old)[n]
  BY <1>1, <1>5, <1>7, <1>8, AddsType, SumsAtMost
<1>10. f[n] \in Nat /\ ReadBy(old)[n] \in Nat /\ m[n] \in Nat
  <2>1. n \in 0..n
    BY <1>1
  <2> QED
    BY <1>2, <1>7, <1>8, <2>1 DEF Sums
<1>11. Checks(new) = m[n]
  BY <1>1, ReadsWhatIsDealt
<1>12. m[n] >= Min2(f[n], L)
  BY <1>2, <1>6, <1>9, <1>10 DEF Min2
<1> QED
  BY <1>1, <1>4, <1>7, <1>11, <1>12

\* The sections of the file written, against those of the file before.
LEMMA AnsweredBy ==
    ASSUME NEW text \in Seq(Line), NEW n, NEW h, NEW e, Layout(text, n, h, e), n > 0,
           NEW response, IsAnswer(response), NEW z, NEW m, NEW body,
           Rewrites(text, n, h, e, response, z, m, body),
           Dealable(Sections(text), response)
    PROVE  /\ Answered(Sections(text), Sections(z[n]), response, m)
           /\ \A k \in 1..n : IsResponse(Sections(text)[k]) =>
                Sections(z[n])[k].body = Lined(Sections(z[n])[k].want)
<1>1. PICK w, old, new : w = z[n] /\ old = Sections(text) /\ new = Sections(w)
  OBVIOUS
<1>2. n \in Nat /\ \A k \in 1..n : SectionAt(text, k, e[k - 1], h[k], e[k])
  BY DEF Layout, Laid
<1>3. w \in Seq(Line)
  <2>1. n \in 0..n
    BY <1>2
  <2> QED
    BY <1>1, <2>1 DEF Rewrites
<1>4. PICK h2, e2 :
        /\ Layout(w, n, h2, e2)
        /\ \A k \in 1..n : Relays(text, e[k - 1], h[k], z[k - 1], body[k], w, e2[k - 1], h2[k], e2[k])
  BY <1>1, Relaid
<1>5. IsSections(old) /\ IsSections(new)
  BY <1>1, <1>3, SectionsAre
<1>6. Len(old) = n /\ Len(new) = n /\ DOMAIN new = 1..n
  BY <1>1, <1>3, <1>4, SectionsLaid
<1>7. \A k \in 1..n : old[k] = Parsed(text, h[k], e[k])
  BY <1>1, SectionsLaid
<1>8. \A k \in 1..n : new[k] = Parsed(w, h2[k], e2[k])
  BY <1>1, <1>3, <1>4, SectionsLaid
<1>9. /\ m[0] = 0 /\ \A k \in 0..n : m[k] \in 0..Len(response.messages)
      /\ \A k \in 1..n : RewriteAt(text, response, e[k - 1], h[k], e[k], z[k - 1], m[k - 1], body[k], z[k], m[k])
  BY DEF Rewrites
<1>10. Turns(old, response, m)
  <2>1. \A k \in 1..n : m[k] = NewIdx(old[k], response, m[k - 1])
    BY <1>7, <1>9 DEF RewriteAt
  <2> QED
    BY <1>5, <1>6, <1>9, <2>1 DEF Turns
<1>11. ASSUME NEW k \in 1..n
       PROVE  /\ new[k].type = old[k].type
              /\ new[k].want = Content(body[k]).want /\ new[k].body = Content(body[k]).body
  BY <1>4, <1>7, <1>8, ParsedAgain
<1>12. ASSUME NEW k \in 1..n, IsResponse(old[k])
       PROVE  /\ Deals(old[k], response, m[k - 1])
              /\ new[k].want = Dealt(old[k], response, m[k - 1])
              /\ new[k].body = Lined(new[k].want)
  <2>1. PICK s, x, b, o : /\ s = old[k] /\ x = m[k - 1] /\ b = body[k]
                          /\ o = Len(z[k - 1] \o Gap(text, e[k - 1], h[k])) + 1
    OBVIOUS
  <2>2. k - 1 \in 0..n /\ k \in 0..n
    BY <1>2
  <2>3. IsSection(s) /\ x \in 0..Len(response.messages)
    BY <1>5, <1>6, <1>9, <2>1, <2>2 DEF IsSections
  <2>4. Deals(s, response, x)
    <3>1. x < Len(response.messages)
      BY <1>1, <1>6, <1>10, <1>12, <2>1, NoneAhead
    <3>2. Len(response.messages) \in Nat
      BY LenProperties DEF IsAnswer
    <3> QED
      BY <1>12, <2>1, <2>3, <3>1, <3>2, TurnIs
  <2>5. b = ResponseBody(text, response, s, o, x)
    <3>1. b = NewBody(text, response, s, h[k], o, x)
      BY <1>7, <1>9, <2>1 DEF RewriteAt
    <3> QED
      BY <2>4, <3>1 DEF NewBody
  <2>6. o \in Nat
    <3>1. z[k - 1] \in Seq(Line) /\ Gap(text, e[k - 1], h[k]) \in Seq(Line)
      BY <1>2, <2>2, Pieces DEF Rewrites
    <3>2. PICK v : v = z[k - 1] \o Gap(text, e[k - 1], h[k])
      OBVIOUS
    <3>3. v \in Seq(Line)
      BY <3>1, <3>2, ConcatProperties
    <3>4. Len(v) \in Nat /\ o = Len(v) + 1
      BY <2>1, <3>2, <3>3, LenProperties
    <3> QED
      BY <3>4
  <2>7. Holds(b, Dealt(s, response, x))
    BY <2>3, <2>4, <2>5, <2>6, ResponseBodyIs
  <2>8. Content(b).want = Dealt(s, response, x) /\ Content(b).body = Lined(Dealt(s, response, x))
    BY <2>7 DEF Holds
  <2> QED
    BY <1>11, <2>1, <2>4, <2>8
<1>13. Answered(old, new, response, m)
  BY <1>1, <1>5, <1>6, <1>10, <1>11, <1>12 DEF Answered
<1> QED
  BY <1>1, <1>12, <1>13

\* A snapshot replays.
LEMMA Replays ==
    ASSUME NEW text \in Seq(Line), AttributesAdjacent(text), NEW response, IsAnswer(response),
           Replayable(Sections(text)), Enough(Sections(text), response.messages)
    PROVE  LET w == Updated(text, Sections(text), response)
           IN  /\ Parses(w) /\ Passes(Sections(w), response.messages)
               /\ Checks(Sections(w)) >= Min2(Checks(Sections(text)), Len(response.messages))
<1>1. PICK n, h, e : Layout(text, n, h, e)
  BY LayoutExists
<1>2. PICK z, m, body :
        /\ Rewrites(text, n, h, e, response, z, m, body)
        /\ n > 0 => Updated(text, Sections(text), response) = z[n]
        /\ n = 0 => Updated(text, Sections(text), response) = text
  BY <1>1, RewriteExists
<1>3. PICK old : old = Sections(text)
  OBVIOUS
<1>4. n \in Nat /\ DOMAIN old = 1..n /\ Len(old) = n /\ IsSections(old)
  BY <1>1, <1>3, SectionsLaid, SectionsAre
<1>5. Dealable(old, response)
  BY <1>3, <1>4 DEF Dealable, Replayable, Enough, IsResponse
<1>6. CASE n = 0
  <2>1. DOMAIN old = {}
    BY <1>4, <1>6
  <2>2. Parses(text) /\ Passes(old, response.messages)
    BY <1>3, <2>1 DEF Parses, Passes
  <2>3. PICK f : Sums(f, 0, ChecksOf(old)) /\ Checks(old) = f[0]
    BY <1>4, <1>6, ChecksSums
  <2>4. Checks(old) = 0
    BY <2>3 DEF Sums
  <2>5. Len(response.messages) \in Nat
    BY LenProperties DEF IsAnswer
  <2>6. Checks(old) >= Min2(Checks(old), Len(response.messages))
    BY <2>4, <2>5 DEF Min2
  <2> QED
    BY <1>2, <1>3, <1>6, <2>2, <2>6
<1>7. CASE n > 0
  <2>1. PICK w, new : w = z[n] /\ new = Sections(w)
    OBVIOUS
  <2>2. /\ Answered(old, new, response, m)
        /\ \A k \in 1..n : IsResponse(old[k]) => new[k].body = Lined(new[k].want)
    BY <1>1, <1>2, <1>3, <1>5, <1>7, <2>1, AnsweredBy
  <2>3. DOMAIN new = 1..n /\ \A k \in 1..n : new[k].type = old[k].type
    BY <1>4, <2>2 DEF Answered
  <2>4. \A k \in 1..n : old[k].type # "ERROR"
    BY <1>3, <1>4 DEF Replayable
  <2>5. ASSUME NEW k \in 1..n PROVE SectionParses(new[k])
    <3>1. new[k].type \in {"RESPONSE", "ERROR"} => new[k].type = "RESPONSE" /\ new[k].body = Lined(new[k].want)
      BY <2>2, <2>3, <2>4 DEF IsResponse
    <3> QED
      BY <3>1 DEF SectionParses, Lined
  <2>6. Parses(w)
    BY <2>1, <2>3, <2>5 DEF Parses
  <2>7. Passes(new, response.messages) /\ Checks(new) >= Min2(Checks(old), Len(response.messages))
    BY <2>2, PassesAnswered
  <2> QED
    BY <1>2, <1>3, <1>7, <2>1, <2>6, <2>7
<1> QED
  BY <1>4, <1>6, <1>7
-----------------------------------------------------------------------------
(* The tests, the file and its editor                                      *)

\* A test that parsed the file as it is holds its sections, and one about to
\* write over it its lines.
TaskOK(x) ==
    /\ x = [pc |-> x.pc, sections |-> x.sections, parsed |-> x.parsed, lines |-> x.lines,
            response |-> x.response]
    /\ x.pc \in {"idle", "run", "write"}
    /\ x.pc \in {"run", "write"} =>
        /\ IsSections(x.sections) /\ x.parsed \in Nat /\ x.parsed <= version
        /\ x.parsed = version => x.sections = Sections(disk)
    /\ x.pc = "write" =>
        /\ x.lines \in Seq(Line) /\ IsAnswer(x.response)
        /\ x.parsed = version => x.lines = disk

\* What the file holds is what the last undisturbed write made of the lines before.
LastOK ==
    \/ last = <<>>
    \/ \E before, response, v :
        /\ last = <<[before |-> before, response |-> response, version |-> v]>>
        /\ before \in Seq(Line) /\ IsAnswer(response)
        /\ v \in Nat /\ v <= version
        /\ v = version => disk = Updated(before, Sections(before), response)

SnapshotInv ==
    /\ disk \in Seq(Line) /\ version \in Nat
    /\ task = [t \in Tasks |-> task[t]]
    /\ \A t \in Tasks : TaskOK(task[t])
    /\ LastOK

\* Before the first step no test has parsed the file.
LEMMA SnapshotInitInv == SnapshotInit => SnapshotInv
<1> SUFFICES ASSUME SnapshotInit PROVE SnapshotInv
  OBVIOUS
<1>1. disk \in Seq(Line) /\ version \in Nat /\ last = <<>>
  BY SnapshotAssumption DEF SnapshotInit
<1>2. \A t \in Tasks : task[t] = Idle
  BY DEF SnapshotInit
<1>3. task = [t \in Tasks |-> task[t]]
  BY DEF SnapshotInit
<1>4. TaskOK(Idle)
  BY DEF TaskOK, Idle
<1>5. \A t \in Tasks : TaskOK(task[t])
  BY <1>2, <1>4
<1>6. LastOK
  BY <1>1 DEF LastOK
<1> QED
  BY <1>1, <1>3, <1>5, <1>6 DEF SnapshotInv

\* A test that does not change stays right when the file stays, and when it is
\* changed, for then no test has parsed it.
LEMMA OthersOK ==
    ASSUME SnapshotInv, NEW x, TaskOK(x),
           \/ disk' = disk /\ version' = version
           \/ version' = version + 1
    PROVE  TaskOK(x)'
<1>1. version \in Nat
  BY DEF SnapshotInv
<1>2. CASE disk' = disk /\ version' = version
  BY <1>2 DEF TaskOK
<1>3. CASE version' = version + 1
  <2>1. x.pc \in {"run", "write"} => x.parsed <= version' /\ x.parsed # version'
    <3> SUFFICES ASSUME x.pc \in {"run", "write"} PROVE x.parsed <= version' /\ x.parsed # version'
      OBVIOUS
    <3>1. x.parsed \in Nat /\ x.parsed <= version
      BY DEF TaskOK
    <3> QED
      BY <1>1, <1>3, <3>1
  <2> QED
    BY <2>1 DEF TaskOK
<1> QED
  BY <1>2, <1>3

\* A step that is no write leaves the last one as it was, or makes it outdated.
LEMMA LastStays ==
    ASSUME SnapshotInv, last' = last,
           \/ disk' = disk /\ version' = version
           \/ version' = version + 1
    PROVE  LastOK'
<1>1. CASE last = <<>>
  BY <1>1 DEF LastOK
<1>2. CASE last # <<>>
  <2>1. PICK before, response, v :
          /\ last = <<[before |-> before, response |-> response, version |-> v]>>
          /\ before \in Seq(Line) /\ IsAnswer(response)
          /\ v \in Nat /\ v <= version
          /\ v = version => disk = Updated(before, Sections(before), response)
    BY <1>2 DEF SnapshotInv, LastOK
  <2>2. version \in Nat
    BY DEF SnapshotInv
  <2>3. v <= version' /\ (v = version' => disk' = Updated(before, Sections(before), response))
    BY <2>1, <2>2
  <2> QED
    BY <2>1, <2>3 DEF LastOK
<1> QED
  BY <1>1, <1>2

\* One test is given a new state.
LEMMA TasksStay ==
    ASSUME SnapshotInv, NEW t \in Tasks, NEW x, task' = [task EXCEPT ![t] = x], TaskOK(x)',
           \/ disk' = disk /\ version' = version
           \/ version' = version + 1
    PROVE  /\ task' = [u \in Tasks |-> task'[u]]
           /\ \A u \in Tasks : TaskOK(task[u])'
<1>1. task = [u \in Tasks |-> task[u]] /\ \A u \in Tasks : TaskOK(task[u])
  BY DEF SnapshotInv
<1>2. task' = [u \in Tasks |-> IF u = t THEN x ELSE task[u]]
  BY <1>1
<1>3. \A u \in Tasks : task'[u] = IF u = t THEN x ELSE task[u]
  BY <1>2
<1>4. ASSUME NEW u \in Tasks PROVE TaskOK(task[u])'
  <2>1. CASE u = t
    BY <1>3, <2>1
  <2>2. CASE u # t
    <3>1. PICK y : y = task[u]
      OBVIOUS
    <3>2. TaskOK(y)
      BY <1>1, <3>1
    <3>3. TaskOK(y)'
      BY <3>2, OthersOK
    <3>4. task'[u] = y
      BY <1>3, <2>2, <3>1
    <3> QED
      BY <3>3, <3>4
  <2> QED
    BY <2>1, <2>2
<1>5. task' = [u \in Tasks |-> task'[u]]
  BY <1>2
<1> QED
  BY <1>4, <1>5

\* A test that has not begun holds nothing.
LEMMA IdleOK == TaskOK(Idle)'
BY DEF TaskOK, Idle

\* A test that parses the file holds the sections it has.
LEMMA ParseFileInv == ASSUME SnapshotInv, NEW t \in Tasks, ParseFile(t) PROVE SnapshotInv'
<1>1. disk \in Seq(Line) /\ version \in Nat
  BY DEF SnapshotInv
<1>2. PICK x : x = [Idle EXCEPT !.pc = "run", !.sections = Sections(disk), !.parsed = version]
  OBVIOUS
<1>3. task' = [task EXCEPT ![t] = x] /\ disk' = disk /\ version' = version /\ last' = last
  BY <1>2 DEF ParseFile
<1>4. /\ x = [pc |-> "run", sections |-> Sections(disk), parsed |-> version, lines |-> <<>>,
              response |-> [messages |-> <<>>, error |-> FALSE]]
  BY <1>2 DEF Idle
<1>5. IsSections(Sections(disk))
  BY <1>1, SectionsAre
<1>6. TaskOK(x)'
  BY <1>1, <1>3, <1>4, <1>5 DEF TaskOK
<1>7. LastOK'
  BY <1>3, LastStays
<1>8. task' = [u \in Tasks |-> task'[u]] /\ \A u \in Tasks : TaskOK(task[u])'
  BY <1>3, <1>6, TasksStay
<1> QED
  BY <1>1, <1>3, <1>7, <1>8 DEF SnapshotInv

\* A test that reads the file holds the lines it has.
LEMMA ReadInv ==
    ASSUME SnapshotInv, NEW t \in Tasks, NEW response \in Answers, Read(t, response)
    PROVE  SnapshotInv'
<1>1. disk \in Seq(Line) /\ version \in Nat /\ TaskOK(task[t]) /\ task = [u \in Tasks |-> task[u]]
  BY DEF SnapshotInv
<1>2. PICK y : y = task[t]
  OBVIOUS
<1>3. /\ y = [pc |-> y.pc, sections |-> y.sections, parsed |-> y.parsed, lines |-> y.lines,
              response |-> y.response]
      /\ y.pc = "run"
  BY <1>1, <1>2 DEF TaskOK, Read
<1>4. PICK x : x = [pc |-> "write", sections |-> y.sections, parsed |-> y.parsed, lines |-> disk,
                    response |-> response]
  OBVIOUS
<1>5. x = [y EXCEPT !.pc = "write", !.lines = disk, !.response = response]
  <2>1. PICK p, q, r, s, u : y = [pc |-> p, sections |-> q, parsed |-> r, lines |-> s, response |-> u]
    BY <1>3
  <2>2. y.sections = q /\ y.parsed = r
    BY <2>1
  <2>3. [y EXCEPT !.pc = "write", !.lines = disk, !.response = response]
          = [pc |-> "write", sections |-> q, parsed |-> r, lines |-> disk, response |-> response]
    <3>1. PICK y1 : y1 = [y EXCEPT !.pc = "write"]
      OBVIOUS
    <3>2. y1 = [pc |-> "write", sections |-> q, parsed |-> r, lines |-> s, response |-> u]
      BY <2>1, <3>1
    <3>3. PICK y2 : y2 = [y1 EXCEPT !.lines = disk]
      OBVIOUS
    <3>4. y2 = [pc |-> "write", sections |-> q, parsed |-> r, lines |-> disk, response |-> u]
      BY <3>2, <3>3
    <3>5. [y2 EXCEPT !.response = response]
            = [pc |-> "write", sections |-> q, parsed |-> r, lines |-> disk, response |-> response]
      BY <3>4
    <3>6. [y EXCEPT !.pc = "write", !.lines = disk, !.response = response]
            = [y2 EXCEPT !.response = response]
      BY <3>1, <3>3
    <3> QED
      BY <3>5, <3>6
  <2> QED
    BY <1>4, <2>2, <2>3
<1>6. task' = [task EXCEPT ![t] = x] /\ disk' = disk /\ version' = version /\ last' = last
  <2>1. task' = [task EXCEPT ![t].pc = "write", ![t].lines = disk, ![t].response = response]
    BY DEF Read
  <2>2. task' = [task EXCEPT ![t] = x]
    BY <1>1, <1>2, <1>5, <2>1
  <2> QED
    BY <2>2 DEF Read
<1>7. IsAnswer(response)
  BY SnapshotAssumption DEF IsAnswer
<1>8. TaskOK(x)'
  <2>1. /\ IsSections(y.sections) /\ y.parsed \in Nat /\ y.parsed <= version
        /\ y.parsed = version => y.sections = Sections(disk)
    BY <1>1, <1>2, <1>3 DEF TaskOK
  <2> QED
    BY <1>1, <1>4, <1>6, <1>7, <2>1 DEF TaskOK
<1>9. LastOK'
  BY <1>6, LastStays
<1>10. task' = [u \in Tasks |-> task'[u]] /\ \A u \in Tasks : TaskOK(task[u])'
  BY <1>6, <1>8, TasksStay
<1> QED
  BY <1>1, <1>6, <1>9, <1>10 DEF SnapshotInv

\* A test that writes is idle again, and what it wrote is what the file holds.
LEMMA ReplaceInv == ASSUME SnapshotInv, NEW t \in Tasks, Replace(t) PROVE SnapshotInv'
<1>1. disk \in Seq(Line) /\ version \in Nat /\ TaskOK(task[t])
  BY DEF SnapshotInv
<1>2. PICK y : y = task[t]
  OBVIOUS
<1>3. /\ y.pc = "write" /\ IsSections(y.sections) /\ y.lines \in Seq(Line) /\ IsAnswer(y.response)
      /\ y.parsed = version => y.sections = Sections(disk) /\ y.lines = disk
  BY <1>1, <1>2 DEF Replace, TaskOK
<1>4. /\ disk' = Updated(y.lines, y.sections, y.response) /\ version' = version + 1
      /\ task' = [task EXCEPT ![t] = Idle]
      /\ last' = IF y.parsed = version
                 THEN <<[before |-> disk, response |-> y.response, version |-> version']>> ELSE last
  BY <1>2 DEF Replace
<1>5. disk' \in Seq(Line) /\ version' \in Nat
  BY <1>1, <1>3, <1>4, UpdatedType
<1>6. task' = [u \in Tasks |-> task'[u]] /\ \A u \in Tasks : TaskOK(task[u])'
  BY <1>4, IdleOK, TasksStay
<1>7. LastOK'
  <2>1. CASE y.parsed = version
    <3>1. disk' = Updated(disk, Sections(disk), y.response)
      BY <1>3, <1>4, <2>1
    <3>2. last' = <<[before |-> disk, response |-> y.response, version |-> version']>>
      BY <1>4, <2>1
    <3> QED
      BY <1>1, <1>3, <1>5, <3>1, <3>2 DEF LastOK
  <2>2. CASE y.parsed # version
    <3>1. last' = last
      BY <1>4, <2>2
    <3> QED
      BY <1>4, <3>1, LastStays
  <2> QED
    BY <2>1, <2>2
<1> QED
  BY <1>5, <1>6, <1>7 DEF SnapshotInv

\* A test that gives up is idle again.
LEMMA GiveUpInv == ASSUME SnapshotInv, NEW t \in Tasks, GiveUp(t) PROVE SnapshotInv'
<1>1. task' = [task EXCEPT ![t] = Idle] /\ disk' = disk /\ version' = version /\ last' = last
  BY DEF GiveUp
<1>2. task' = [u \in Tasks |-> task'[u]] /\ \A u \in Tasks : TaskOK(task[u])'
  BY <1>1, IdleOK, TasksStay
<1>3. LastOK'
  BY <1>1, LastStays
<1> QED
  BY <1>1, <1>2, <1>3 DEF SnapshotInv

\* A file saved from the editor is another version, of lines still.
LEMMA EditInv == ASSUME SnapshotInv, Edit PROVE SnapshotInv'
<1>1. disk \in Seq(Line) /\ version \in Nat /\ Len(disk) \in Nat
  BY LenProperties DEF SnapshotInv
<1>2. Blank \in Line /\ <<Blank>> \in Seq(Line)
  <2>1. Blank \in Line
    BY BlankLine DEF BodyLine
  <2> QED
    BY <2>1
<1>3. ASSUME NEW i \in 1..Len(disk) + 1 PROVE SubSeq(disk, 1, i - 1) \in Seq(Line)
  <2>1. i - 1 \in 0..Len(disk)
    BY <1>1
  <2> QED
    BY <1>1, <2>1, Prefix
<1>4. ASSUME NEW i \in Nat \ {0} PROVE SubSeq(disk, i, Len(disk)) \in Seq(Line)
  <2>1. i - 1 \in Nat /\ (i - 1) + 1 = i /\ Len(disk) \in 0..Len(disk)
    BY <1>1
  <2>2. \A k \in (i - 1) + 1..Len(disk) : disk[k] \in Line
    BY <1>1, <2>1, ElementOfSeq
  <2> QED
    BY <1>1, <2>1, <2>2, Lines
<1>5. disk' \in Seq(Line) /\ version' = version + 1 /\ task' = task /\ last' = last
  <2>1. CASE \E i \in 1..Len(disk) + 1 : Save(InsertAt(disk, i, Blank))
    <3>1. PICK i \in 1..Len(disk) + 1 : Save(InsertAt(disk, i, Blank))
      BY <2>1
    <3>2. SubSeq(disk, 1, i - 1) \in Seq(Line) /\ SubSeq(disk, i, Len(disk)) \in Seq(Line)
      BY <1>1, <1>3, <1>4
    <3>3. InsertAt(disk, i, Blank) \in Seq(Line)
      BY <1>2, <3>2, ConcatProperties DEF InsertAt
    <3> QED
      BY <3>1, <3>3 DEF Save
  <2>2. CASE \E i \in DOMAIN disk : disk[i] = Blank /\ Save(RemoveAt(disk, i))
    <3>1. PICK i \in DOMAIN disk : Save(RemoveAt(disk, i))
      BY <2>2
    <3>2. i \in 1..Len(disk)
      BY <1>1, LenProperties
    <3>3. SubSeq(disk, 1, i - 1) \in Seq(Line) /\ SubSeq(disk, i + 1, Len(disk)) \in Seq(Line)
      BY <1>1, <1>3, <1>4, <3>2
    <3>4. RemoveAt(disk, i) \in Seq(Line)
      BY <3>3, ConcatProperties DEF RemoveAt
    <3> QED
      BY <3>1, <3>4 DEF Save
  <2> QED
    BY <2>1, <2>2 DEF Edit
<1>6. \A u \in Tasks : TaskOK(task[u])'
  <2> TAKE u \in Tasks
  <2>1. PICK y : y = task[u]
    OBVIOUS
  <2>2. TaskOK(y)
    BY <2>1 DEF SnapshotInv
  <2>3. TaskOK(y)'
    BY <1>5, <2>2, OthersOK
  <2>4. task'[u] = y
    BY <1>5, <2>1
  <2> QED
    BY <2>3, <2>4
<1>7. LastOK'
  BY <1>5, LastStays
<1>8. task' = [u \in Tasks |-> task'[u]] /\ version' \in Nat
  BY <1>1, <1>5 DEF SnapshotInv
<1> QED
  BY <1>5, <1>6, <1>7, <1>8 DEF SnapshotInv

\* The invariant is inductive.
LEMMA SnapshotNextInv == SnapshotInv /\ [SnapshotNext]_snapshotVars => SnapshotInv'
<1> SUFFICES ASSUME SnapshotInv, [SnapshotNext]_snapshotVars PROVE SnapshotInv'
  OBVIOUS
<1>1. ASSUME NEW t \in Tasks, ParseFile(t) PROVE SnapshotInv'
  BY <1>1, ParseFileInv
<1>2. ASSUME NEW t \in Tasks, Replace(t) PROVE SnapshotInv'
  BY <1>2, ReplaceInv
<1>3. ASSUME NEW t \in Tasks, GiveUp(t) PROVE SnapshotInv'
  BY <1>3, GiveUpInv
<1>4. ASSUME NEW t \in Tasks, NEW response \in Answers, Read(t, response) PROVE SnapshotInv'
  BY <1>4, ReadInv
<1>5. CASE Edit
  BY <1>5, EditInv
<1>6. CASE UNCHANGED snapshotVars
  BY <1>6 DEF snapshotVars, SnapshotInv, TaskOK, LastOK
<1> QED
  BY <1>1, <1>2, <1>3, <1>4, <1>5, <1>6 DEF SnapshotNext

\* What the last undisturbed write made of the lines it parsed.
LEMMA HeldIs ==
    ASSUME SnapshotInv, HeldAdjacent
    PROVE  \E before, response :
               /\ last[1].before = before /\ last[1].response = response
               /\ before \in Seq(Line) /\ IsAnswer(response) /\ AttributesAdjacent(before)
               /\ disk = Updated(before, Sections(before), response)
<1>1. PICK before, response, v :
        /\ last = <<[before |-> before, response |-> response, version |-> v]>>
        /\ before \in Seq(Line) /\ IsAnswer(response)
        /\ v = version => disk = Updated(before, Sections(before), response)
  BY DEF SnapshotInv, LastOK, HeldAdjacent, Held
<1>2. last[1].before = before /\ last[1].response = response /\ last[1].version = v
  BY <1>1
<1>3. v = version /\ AttributesAdjacent(before)
  BY <1>2 DEF HeldAdjacent, Held
<1> QED
  BY <1>1, <1>2, <1>3

\* A file written without a change in between says the same outside its bodies.
LEMMA InvKeepsRest == SnapshotInv => RestIsKept
<1> SUFFICES ASSUME SnapshotInv, HeldAdjacent PROVE Rest(disk) = Rest(last[1].before)
  BY DEF RestIsKept
<1> QED
  BY HeldIs, RestOfUpdated

\* It replays the answer it was written from, and taken again stays.
LEMMA InvHolds == SnapshotInv => SnapshotHolds
<1> SUFFICES ASSUME SnapshotInv, HeldAdjacent PROVE SnapshotHolds
  BY DEF SnapshotHolds, ReplaysItsAnswer, ChangesNothingAgain
<1>1. PICK before, response :
        /\ last[1].before = before /\ last[1].response = response
        /\ before \in Seq(Line) /\ IsAnswer(response) /\ AttributesAdjacent(before)
        /\ disk = Updated(before, Sections(before), response)
  BY HeldIs
<1>2. Updated(disk, Sections(disk), response) = disk
  BY <1>1, WrittenAgain
<1>3. ASSUME Replayable(Sections(before)), Enough(Sections(before), response.messages)
      PROVE  /\ Parses(disk) /\ Passes(Sections(disk), response.messages)
             /\ Checks(Sections(disk)) >= Min2(Checks(Sections(before)), Len(response.messages))
  BY <1>1, <1>3, Replays
<1>4. ChangesNothingAgain
  BY <1>1, <1>2 DEF ChangesNothingAgain
<1>5. ReplaysItsAnswer
  BY <1>1, <1>3 DEF ReplaysItsAnswer, Before
<1> QED
  BY <1>4, <1>5 DEF SnapshotHolds

\* A snapshot of a file no one else has changed loses, doubles and moves nothing
\* outside the bodies it is for, for every file whose attributes stand above headers,
\* every answer and any number of tests of that file (update_test_file copies by the
\* line numbers of the parser).
THEOREM RestIsKeptCorrect == SnapshotSpec => []RestIsKept
<1>1. SnapshotSpec => []SnapshotInv
  BY SnapshotInitInv, SnapshotNextInv, PTL DEF SnapshotSpec
<1> QED
  BY <1>1, InvKeepsRest, PTL

\* A snapshot of such a file passes when the server gives the same answer again and
\* checks no fewer messages than before, and a second one leaves the file as it is
\* (update_test_file deals the messages to the RESPONSEs by count and keeps the blank
\* lines each body ended with).
THEOREM SnapshotHoldsCorrect == SnapshotSpec => []SnapshotHolds
<1>1. SnapshotSpec => []SnapshotInv
  BY SnapshotInitInv, SnapshotNextInv, PTL DEF SnapshotSpec
<1> QED
  BY <1>1, InvHolds, PTL

=============================================================================

----------------------------- MODULE SuiteSpec -----------------------------
(***************************************************************************)
(* What a run of a suite promises, whatever its schedule.                  *)
(*                                                                         *)
(* The units of a suite are its tests and the set-up and tear-down         *)
(* fixtures of the directories that have a test.  Each unit ends once,     *)
(* tests after every set-up, tear-downs after every test, and a test whose *)
(* set-up failed fails.  The process succeeds only when every unit passed. *)
(***************************************************************************)
EXTENDS Naturals, Sequences

CONSTANT Dirs       \* directories that hold .gctf files

\* A work item: its directory, and whether it was doomed while the work list was
\* built (a bad row source, --write with rows).
WorkItem == [dir : Dirs, error : BOOLEAN]

VARIABLES
    work,               \* the work items, in order
    setups, teardowns,  \* directories with such a fixture
    passed, failed,     \* units that have ended
    exit_code           \* "none", "0" or "1"

vars == <<work, setups, teardowns, passed, failed, exit_code>>

Active == {work[k].dir : k \in DOMAIN work}

Setups == {"setup"} \X (Active \cap setups)
Tests == {"test"} \X DOMAIN work
Teardowns == {"teardown"} \X (Active \cap teardowns)
Units == Setups \cup Tests \cup Teardowns

Ended == passed \cup failed

Before(u) ==
    CASE u \in Setups    -> {}
      [] u \in Tests     -> Setups
      [] u \in Teardowns -> Setups \cup Tests

\* A test that cannot pass any more.
Doomed(u) ==
    /\ u \in Tests
    /\ work[u[2]].error \/ <<"setup", work[u[2]].dir>> \in failed

Init ==
    /\ work \in Seq(WorkItem) /\ setups \subseteq Dirs /\ teardowns \subseteq Dirs
    /\ passed = {} /\ failed = {} /\ exit_code = "none"

End(u) ==
    /\ exit_code = "none" /\ u \notin Ended /\ Before(u) \subseteq Ended
    /\ \/ ~Doomed(u) /\ passed' = passed \cup {u} /\ UNCHANGED failed
       \/ failed' = failed \cup {u} /\ UNCHANGED passed
    /\ UNCHANGED <<work, setups, teardowns, exit_code>>

\* A suite with no test, or whose reports cannot be written, is a failure too.
Exit ==
    /\ exit_code = "none" /\ Units \subseteq Ended
    /\ exit_code' \in IF failed = {} /\ work # <<>> THEN {"0", "1"} ELSE {"1"}
    /\ UNCHANGED <<work, setups, teardowns, passed, failed>>

Next == Exit \/ \E u \in Units : End(u)

Spec == Init /\ [][Next]_vars

=============================================================================

----------------------------- MODULE MCSuiteRun -----------------------------
(* Two directories with up to four work items, some doomed from the start.  *)
EXTENDS SuiteRun

W(d) == [dir |-> d, error |-> FALSE]
Bad(d) == [dir |-> d, error |-> TRUE]

MCWorks == {<<>>, <<W(1)>>, <<W(1), W(1), W(2)>>, <<W(2), Bad(1), W(1), W(2)>>}
\* For EveryReporterFlushed.
SmallWorks == {<<>>, <<W(1), W(2), W(1)>>}

=============================================================================

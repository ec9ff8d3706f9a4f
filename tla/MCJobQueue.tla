----------------------------- MODULE MCJobQueue -----------------------------
(* Two threads on one level of a CJobQueue.                                  *)
EXTENDS JobQueue

CONSTANTS a, b

MCThreads == {a, b}
MCNodes == {"dummy", "n1", "n2", "n3"}
=============================================================================

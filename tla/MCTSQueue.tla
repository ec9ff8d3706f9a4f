------------------------------ MODULE MCTSQueue ------------------------------
(* Two threads on one queue: three pushes and three pops between them, with    *)
(* recycled nodes or with fresh ones.  Thread a never stalls, b may.         *)
EXTENDS TSQueue

CONSTANTS a, b

MCThreads == {a, b}
MCRunning == {a}
MCNodes == {"dummy", "n1", "n2", "n3"}
=============================================================================

------------------------------ MODULE MCRWLock ------------------------------
(* The readers-writer lock shared by four threads, any of which may read or  *)
(* write, as often as it likes.                                              *)
EXTENDS RWLock

CONSTANTS t1, t2, t3, t4

MCThreads == {t1, t2, t3, t4}
=============================================================================

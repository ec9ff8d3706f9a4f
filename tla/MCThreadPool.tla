---------------------------- MODULE MCThreadPool ----------------------------
(* Two workers and their master, two priorities, two file writes and a job   *)
(* of the frame that the master may help with.                               *)
EXTENDS ThreadPool

Write == [queue |-> TRUE, serial |-> TRUE, frame |-> FALSE, thread |-> None]
Plain == [queue |-> FALSE, serial |-> FALSE, frame |-> TRUE, thread |-> None]

MCKinds == {Write, Plain}

\* All that AsyncSetPriority of the file system calls.
PriorityCalls == {"ChangePriority"}
=============================================================================

------------------------------ MODULE FifoQueue ------------------------------
(* What a queue shared by threads promises: items are appended at the back   *)
(* and leave one by one at the front.  A step may append several items: when *)
(* CTSQueue recycles nodes, linking one node may bring in another that was   *)
(* linked behind it before (module TSQueue).                                 *)
EXTENDS SequencesExt

VARIABLES queue,      \* the items inside, the oldest first
          out         \* the items that left, in that order

Init == queue = <<>> /\ out = <<>>

Push ==
    /\ IsStrictPrefix(queue, queue')
    /\ UNCHANGED out

Pop ==
    /\ queue # <<>>
    /\ queue' = Tail(queue)
    /\ out' = Append(out, Head(queue))

Spec == Init /\ [][Push \/ Pop]_<<queue, out>>
=============================================================================

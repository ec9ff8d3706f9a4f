------------------------------- MODULE TSQueue -------------------------------
(* CTSQueue, the lock-free queue of tier0 (src/src/public/tier0/tslist.h     *)
(* 628-1020): a list with a dummy node in front, two links that carry a      *)
(* sequence number, and a free list threaded through the same nodes.  Every  *)
(* read and every compare-and-swap of shared memory is one step.             *)
(*                                                                           *)
(* A queue is used in one of two ways, which are not to be mixed (616-627):  *)
(* PushItem and PopItem recycle nodes through m_FreeNodes; Push and Pop take *)
(* the client's nodes, which it does not free while anybody may be popping.  *)
EXTENDS Integers, SequencesExt

CONSTANTS Threads,    \* the threads that share the queue
          Running,    \* those of them that never stall inside a call
          Nodes,      \* the nodes operator new can give
          Dummy,      \* the node the constructor makes
          End,        \* End(): the queue's own address
          Null,       \* a null pointer
          MaxPushes,  \* bound: pushes of all threads together
          MaxPops     \* bound: pops of all threads together

ASSUME QueueAssumption ==
    /\ IsFiniteSet(Threads) /\ Running \subseteq Threads
    /\ IsFiniteSet(Nodes)
    /\ Dummy \in Nodes
    /\ End \notin Nodes /\ Null \notin Nodes /\ End # Null
    /\ MaxPushes \in Nat /\ MaxPops \in Nat

\* The k-th item a thread pushes; nothing is <<>>.
Items == Threads \X (Nat \ {0})
Nothing == <<>>

VARIABLES recycle,    \* PushItem / PopItem (TRUE) or Push / Pop of fresh nodes
          head,       \* m_Head
          tail,       \* m_Tail
          next,       \* pNext of each node, or its link in the free list
          elem,       \* elem of each node
          count,      \* m_Count
          freeTop,    \* top of m_FreeNodes
          fresh,      \* nodes operator new has not given yet
          pc,         \* where each thread is
          loc,        \* the locals of its call
          pushed,     \* how many items each thread has pushed, or begun to
          pops,       \* how many pops were called
          popped      \* the items popped, in the order their nodes left

shared == <<head, tail, next, elem, count, freeTop, fresh>>
vars == <<recycle, shared, pc, loc, pushed, pops, popped>>

TotalPushes == FoldFunction(+, 0, pushed)

\* Locals: the node, the link read (oldTail or head), pNext, tailSequence, elem;
\* empty remembers whether the queue was empty when Pop read pNext.
NoLocals == [node |-> Null, link |-> [node |-> Null, seq |-> 0],
             nxt |-> Null, tseq |-> 0, item |-> Nothing, empty |-> FALSE]

\* The items of the nodes from n on, in the order of the links.
Chain(n) ==
    LET items[k \in 0 .. Cardinality(Nodes)] ==
            [m \in Nodes \cup {End, Null} |->
                IF k = 0 \/ m \notin Nodes THEN <<>>
                ELSE <<elem[m]>> \o items[k - 1][next[m]]]
    IN  items[Cardinality(Nodes)][n]

\* What is in the queue: everything behind the dummy.
Inside == Chain(next[head.node])

Goto(t, label) == pc' = [pc EXCEPT ![t] = label]

Init ==
    /\ recycle \in BOOLEAN
    /\ head = [node |-> Dummy, seq |-> 0]
    /\ tail = [node |-> Dummy, seq |-> 0]
    /\ next = [n \in Nodes |-> IF n = Dummy THEN End ELSE Null]
    /\ elem = [n \in Nodes |-> Nothing]
    /\ count = 0
    /\ freeTop = Null
    /\ fresh = Nodes \ {Dummy}
    /\ pc = [t \in Threads |-> "idle"]
    /\ loc = [t \in Threads |-> NoLocals]
    /\ pushed = [t \in Threads |-> 0]
    /\ pops = 0
    /\ popped = <<>>
-----------------------------------------------------------------------------
\* PushItem and the first line of Push: a node from the free list, else a new
\* one, filled and made an end of list.  The node is this thread's alone until
\* pNext is End(), so these writes are one step.
FreshNode == CHOOSE n \in fresh : TRUE

TakeNode(t) ==
    /\ pc[t] = "idle"
    /\ TotalPushes < MaxPushes
    /\ freeTop # Null \/ fresh # {}
    /\ LET n == IF freeTop # Null THEN freeTop ELSE FreshNode
       IN  /\ freeTop' = IF n = freeTop THEN next[n] ELSE freeTop
           /\ fresh' = fresh \ {n}
           /\ elem' = [elem EXCEPT ![n] = <<t, pushed[t] + 1>>]
           /\ next' = [next EXCEPT ![n] = End]
           /\ loc' = [loc EXCEPT ![t].node = n]
    /\ pushed' = [pushed EXCEPT ![t] = @ + 1]
    /\ Goto(t, "readTailSeq")
    /\ UNCHANGED <<recycle, head, tail, count, pops, popped>>

\* Push reads the two halves of m_Tail one after the other.
ReadTailSeq(t) ==
    /\ pc[t] = "readTailSeq"
    /\ loc' = [loc EXCEPT ![t].link.seq = tail.seq]
    /\ Goto(t, "readTailNode")
    /\ UNCHANGED <<recycle, shared, pushed, pops, popped>>

ReadTailNode(t) ==
    /\ pc[t] = "readTailNode"
    /\ loc' = [loc EXCEPT ![t].link.node = tail.node]
    /\ Goto(t, "linkNode")
    /\ UNCHANGED <<recycle, shared, pushed, pops, popped>>

\* Mutants: the node is linked without a comparison (CompletedVisible), or to
\* any node that is linked already (NothingLost).
LinkNodeBlindly(t) ==
    /\ pc[t] = "linkNode"
    /\ next' = [next EXCEPT ![loc[t].link.node] = loc[t].node]
    /\ Goto(t, "finishPush")
    /\ UNCHANGED <<recycle, head, tail, elem, count, freeTop, fresh, loc, pushed, pops, popped>>

LinkNodeAnywhere(t) ==
    LET last == loc[t].link.node
    IN  /\ pc[t] = "linkNode"
        /\ IF next[last] # Null
           THEN /\ next' = [next EXCEPT ![last] = loc[t].node]
                /\ Goto(t, "finishPush")
           ELSE /\ Goto(t, "readTailNext")
                /\ UNCHANGED next
        /\ UNCHANGED <<recycle, head, tail, elem, count, freeTop, fresh, loc, pushed, pops, popped>>

\* The compare-and-swap of pNext, which has no sequence number.
LinkNode(t) ==
    LET last == loc[t].link.node
    IN  /\ pc[t] = "linkNode"
        /\ IF next[last] = End
           THEN /\ next' = [next EXCEPT ![last] = loc[t].node]
                /\ Goto(t, "finishPush")
           ELSE /\ Goto(t, "readTailNext")
                /\ UNCHANGED next
        /\ UNCHANGED <<recycle, head, tail, elem, count, freeTop, fresh, loc, pushed, pops, popped>>

\* Somebody else is pushing: read how far it got, to help it along.
ReadTailNext(t) ==
    /\ pc[t] = "readTailNext"
    /\ loc' = [loc EXCEPT ![t].nxt = next[loc[t].link.node]]
    /\ Goto(t, "helpPush")
    /\ UNCHANGED <<recycle, shared, pushed, pops, popped>>

\* FinishPush: m_Tail moves to node n if it still is what was read.
FinishPush(t, n) ==
    tail' = IF tail = loc[t].link THEN [node |-> n, seq |-> tail.seq + 1] ELSE tail

\* A mutant for NobodyWaits: try again until the other thread has finished.
RetryPush(t) ==
    /\ pc[t] = "helpPush"
    /\ loc' = [loc EXCEPT ![t] = [NoLocals EXCEPT !.node = loc[t].node]]
    /\ Goto(t, "readTailSeq")
    /\ UNCHANGED <<recycle, shared, pushed, pops, popped>>

HelpPush(t) ==
    /\ pc[t] = "helpPush"
    /\ FinishPush(t, loc[t].nxt)
    /\ loc' = [loc EXCEPT ![t] = [NoLocals EXCEPT !.node = loc[t].node]]
    /\ Goto(t, "readTailSeq")
    /\ UNCHANGED <<recycle, head, next, elem, count, freeTop, fresh, pushed, pops, popped>>

FinishOwnPush(t) ==
    /\ pc[t] = "finishPush"
    /\ FinishPush(t, loc[t].node)
    /\ Goto(t, "countPush")
    /\ UNCHANGED <<recycle, head, next, elem, count, freeTop, fresh, loc, pushed, pops, popped>>

CountPush(t) ==
    /\ pc[t] = "countPush"
    /\ count' = count + 1
    /\ loc' = [loc EXCEPT ![t] = NoLocals]
    /\ Goto(t, "idle")
    /\ UNCHANGED <<recycle, head, tail, next, elem, freeTop, fresh, pushed, pops, popped>>
-----------------------------------------------------------------------------
\* Pop: the sequence of m_Head first, then its node.
BeginPop(t) ==
    /\ pc[t] = "idle"
    /\ pops < MaxPops
    /\ pops' = pops + 1
    /\ Goto(t, "readHeadSeq")
    /\ UNCHANGED <<recycle, shared, loc, pushed, popped>>

\* Another turn of Pop's loop; its locals are read anew.
Retry(t) ==
    /\ loc' = [loc EXCEPT ![t] = NoLocals]
    /\ Goto(t, "readHeadSeq")

ReadHeadSeq(t) ==
    /\ pc[t] = "readHeadSeq"
    /\ loc' = [loc EXCEPT ![t].link.seq = head.seq]
    /\ Goto(t, "readHeadNode")
    /\ UNCHANGED <<recycle, shared, pushed, pops, popped>>

ReadHeadNode(t) ==
    /\ pc[t] = "readHeadNode"
    /\ loc' = [loc EXCEPT ![t].link.node = head.node]
    /\ Goto(t, "readPopTail")
    /\ UNCHANGED <<recycle, shared, pushed, pops, popped>>

ReadPopTail(t) ==
    /\ pc[t] = "readPopTail"
    /\ loc' = [loc EXCEPT ![t].tseq = tail.seq]
    /\ Goto(t, "readNext")
    /\ UNCHANGED <<recycle, shared, pushed, pops, popped>>

ReadNext(t) ==
    /\ pc[t] = "readNext"
    /\ loc' = [loc EXCEPT ![t].nxt = next[loc[t].link.node],
                          ![t].empty = (Inside = <<>>)]
    /\ Goto(t, "checkHead")
    /\ UNCHANGED <<recycle, shared, pushed, pops, popped>>

\* A mutant for EmptyHonest: only the link is looked at.
CheckNext(t) ==
    /\ pc[t] = "checkHead"
    /\ IF loc[t].nxt = Null
       THEN Retry(t)
       ELSE /\ Goto(t, "checkTail")
            /\ UNCHANGED loc
    /\ UNCHANGED <<recycle, shared, pushed, pops, popped>>

\* "if ( !pNext || head.value.sequence != *pHeadSequence ) continue"
CheckHead(t) ==
    /\ pc[t] = "checkHead"
    /\ IF loc[t].nxt = Null \/ loc[t].link.seq # head.seq
       THEN Retry(t)
       ELSE /\ Goto(t, "checkTail")
            /\ UNCHANGED loc
    /\ UNCHANGED <<recycle, shared, pushed, pops, popped>>

\* The queue is empty only if the node is both first and last and has no next.
PopEmpty(t) ==
    /\ pc[t] = "checkTail"
    /\ loc[t].link.node = tail.node
    /\ loc[t].nxt = End
    /\ loc' = [loc EXCEPT ![t] = NoLocals]
    /\ Goto(t, "idle")
    /\ UNCHANGED <<recycle, shared, pushed, pops, popped>>

\* A push is under way: the local head becomes the old tail to help it along.
SeePush(t) ==
    /\ pc[t] = "checkTail"
    /\ loc[t].link.node = tail.node
    /\ loc[t].nxt # End
    /\ loc' = [loc EXCEPT ![t].link.seq = loc[t].tseq]
    /\ Goto(t, "popHelp")
    /\ UNCHANGED <<recycle, shared, pushed, pops, popped>>

PopHelp(t) ==
    /\ pc[t] = "popHelp"
    /\ FinishPush(t, loc[t].nxt)
    /\ Retry(t)
    /\ UNCHANGED <<recycle, head, next, elem, count, freeTop, fresh, pushed, pops, popped>>

\* Otherwise read the item; the node may have been freed meanwhile, by design.
ReadElem(t) ==
    /\ pc[t] = "checkTail"
    /\ loc[t].link.node # tail.node
    /\ IF loc[t].nxt = End
       THEN Retry(t)
       ELSE /\ loc' = [loc EXCEPT ![t].item = elem[loc[t].nxt]]
            /\ Goto(t, "moveHead")
    /\ UNCHANGED <<recycle, shared, pushed, pops, popped>>

\* A mutant for QueueSpec: the head is compared without its sequence number.
MoveHeadUnnumbered(t) ==
    /\ pc[t] = "moveHead"
    /\ IF head.node = loc[t].link.node
       THEN /\ head' = [node |-> loc[t].nxt, seq |-> head.seq + 1]
            /\ popped' = Append(popped, loc[t].item)
            /\ Goto(t, "countPop")
            /\ UNCHANGED loc
       ELSE /\ Retry(t)
            /\ UNCHANGED <<head, popped>>
    /\ UNCHANGED <<recycle, tail, next, elem, count, freeTop, fresh, pushed, pops>>

MoveHead(t) ==
    /\ pc[t] = "moveHead"
    /\ IF head = loc[t].link
       THEN /\ head' = [node |-> loc[t].nxt, seq |-> head.seq + 1]
            /\ popped' = Append(popped, loc[t].item)
            /\ Goto(t, "countPop")
            /\ UNCHANGED loc
       ELSE /\ Retry(t)
            /\ UNCHANGED <<head, popped>>
    /\ UNCHANGED <<recycle, tail, next, elem, count, freeTop, fresh, pushed, pops>>

CountPop(t) ==
    /\ pc[t] = "countPop"
    /\ count' = count - 1
    /\ Goto(t, "freeNode")
    /\ UNCHANGED <<recycle, head, tail, next, elem, freeTop, fresh, loc, pushed, pops, popped>>

\* The old dummy carries the item out; PopItem gives the node to the free list.
FreeNode(t) ==
    LET n == loc[t].link.node
    IN  /\ pc[t] = "freeNode"
        /\ elem' = [elem EXCEPT ![n] = loc[t].item]
        /\ next' = IF recycle THEN [next EXCEPT ![n] = freeTop] ELSE next
        /\ freeTop' = IF recycle THEN n ELSE freeTop
        /\ loc' = [loc EXCEPT ![t] = NoLocals]
        /\ Goto(t, "idle")
        /\ UNCHANGED <<recycle, head, tail, count, fresh, pushed, pops, popped>>
-----------------------------------------------------------------------------
PushStep(t) ==
    \/ ReadTailSeq(t) \/ ReadTailNode(t) \/ LinkNode(t) \/ ReadTailNext(t)
    \/ HelpPush(t) \/ FinishOwnPush(t) \/ CountPush(t)

PopStep(t) ==
    \/ ReadHeadSeq(t) \/ ReadHeadNode(t) \/ ReadPopTail(t) \/ ReadNext(t)
    \/ CheckHead(t) \/ PopEmpty(t) \/ SeePush(t) \/ PopHelp(t) \/ ReadElem(t)
    \/ MoveHead(t) \/ CountPop(t) \/ FreeNode(t)

Next == \E t \in Threads : TakeNode(t) \/ BeginPop(t) \/ PushStep(t) \/ PopStep(t)

Spec == Init /\ [][Next]_vars

\* Only the running threads are sure to go on; any other may stall anywhere.
FairSpec == Spec /\ \A t \in Running : WF_vars(PushStep(t) \/ PopStep(t))
-----------------------------------------------------------------------------
Pushing == {t \in Threads : pc[t] \in {"readTailSeq", "readTailNode", "linkNode",
                                       "readTailNext", "helpPush"}}

\* The items hanging off the node a thread has not linked yet: its own, and
\* whatever another thread linked behind it.
Hanging(t) == IF t \in Pushing THEN Chain(loc[t].node) ELSE <<>>

Begun == UNION {{t} \X (1 .. pushed[t]) : t \in Threads}

\* A push has returned.
Finished(i) ==
    \/ i[2] < pushed[i[1]]
    \/ i[1] \notin Pushing /\ pc[i[1]] \notin {"finishPush", "countPush"}

Links == [node : Nodes, seq : Nat]

TypeOK ==
    /\ head \in Links /\ tail \in Links
    /\ next \in [Nodes -> Nodes \cup {End, Null}]
    /\ elem \in [Nodes -> Items \cup {Nothing}]
    /\ count \in Int
    /\ freeTop \in Nodes \cup {Null}
    /\ fresh \subseteq Nodes
    /\ \A t \in Threads : loc[t].nxt \in Nodes \cup {End, Null}
    /\ popped \in Seq(Items)

(* Whatever two threads do to one link, no item is lost and none is doubled: *)
(* it was popped, or it is behind the dummy, or it hangs off the node of a   *)
(* push still under way.                                                     *)
NothingLost ==
    LET out == popped \o Inside
    IN  /\ TypeOK
        /\ Begun = ToSet(out) \cup UNION {ToSet(Hanging(t)) : t \in Threads}
        /\ IsInjective(out)
        /\ \A t \in Threads :
              /\ IsInjective(Hanging(t))
              /\ ToSet(Hanging(t)) \cap ToSet(out) = {}
              /\ \A u \in Threads \ {t} : ToSet(Hanging(t)) \cap ToSet(Hanging(u)) = {}

\* With fresh nodes, or with one thread that pushes, CTSQueue is a plain queue;
\* with recycled nodes two pushes can meet in a node used twice.
Plain == ~recycle \/ Cardinality({t \in Threads : pushed[t] > 0}) <= 1

(* In a plain queue an item is there when its push returns, although the     *)
(* tail may still lag behind.                                                *)
CompletedVisible ==
    Plain => \A i \in Begun : Finished(i) => i \in ToSet(popped \o Inside)

(* Pop answers that there is nothing only if the queue was empty while it    *)
(* ran: the sequence number guards the pNext it read, even of a node that    *)
(* was popped, freed and pushed again meanwhile.                             *)
EmptyHonest ==
    \A t \in Threads : pc[t] = "checkTail" /\ loc[t].nxt = End => loc[t].empty

(* A push or a pop moves the queue the way a queue moves: items are added    *)
(* at the back, and the item handed out is the one at the front.             *)
Queue == INSTANCE FifoQueue WITH queue <- Inside, out <- popped

QueueSpec == Queue!Spec

(* A push or a pop finishes even if another thread stalls in the middle of   *)
(* its own: what it left half done is finished for it.                       *)
NobodyWaits == \A t \in Running : pc[t] # "idle" ~> pc[t] = "idle"
=============================================================================

------------------------- MODULE ConnectionHandoff -------------------------
(***************************************************************************)
(* What LITH's thread pool promises to the accept loop and to the workers: *)
(* a FIFO hand-off.  A descriptor that is pushed is delivered to at most   *)
(* one worker, in push order, and it cannot be pushed again while it is    *)
(* still queued or still in the hands of a worker.  The linked list, the   *)
(* mutex, the condition variable and the shutdown sequence that implement  *)
(* the promise are in module ThreadPool, which refines this one.           *)
(***************************************************************************)
EXTENDS Naturals, Sequences

CONSTANTS Workers,   \* the worker threads
          Sockets,   \* the client descriptors accept() may return
          NULL       \* "no descriptor"

VARIABLES queue,     \* descriptors pushed and not yet popped, oldest first
          held       \* held[w]: the descriptor worker w popped and not yet closed

handoffVars == <<queue, held>>

Queued == {queue[i] : i \in DOMAIN queue}
InHand == {held[w] : w \in Workers}

HandoffInit ==
    /\ queue = <<>>
    /\ held = [w \in Workers |-> NULL]

Enqueue(s) ==
    /\ s \notin Queued \cup InHand
    /\ queue' = Append(queue, s)
    /\ UNCHANGED held

Deliver(w) ==
    /\ queue # <<>>
    /\ held[w] = NULL
    /\ held' = [held EXCEPT ![w] = Head(queue)]
    /\ queue' = Tail(queue)

Release(w) ==
    /\ held[w] # NULL
    /\ held' = [held EXCEPT ![w] = NULL]
    /\ UNCHANGED queue

HandoffNext ==
    \/ \E s \in Sockets : Enqueue(s)
    \/ \E w \in Workers : Deliver(w) \/ Release(w)

HandoffSpec == HandoffInit /\ [][HandoffNext]_handoffVars

=============================================================================

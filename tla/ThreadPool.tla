----------------------------- MODULE ThreadPool -----------------------------
(***************************************************************************)
(* LITH's worker pool: the accept loop (src/src/server.c), the queue of    *)
(* accepted descriptors with its mutex and condition variable, the workers'*)
(* outer loop (src/src/server_worker.c) and the shutdown sequence that the *)
(* signal handler and the boot-failure path run (src/src/main.c).          *)
(*                                                                         *)
(* The queue is the code's singly linked list: nodes are addresses that    *)
(* malloc() hands out and free() takes back, so an address is reused and a *)
(* dangling head or tail pointer is a state of the model.  What a worker   *)
(* does with a connection is one step here (HandlerDone) and is modelled   *)
(* in module Connection.                                                   *)
(*                                                                         *)
(* A signal handler runs on top of the thread it interrupts: that thread,  *)
(* "closer", takes no further step of its own.  At most one shutdown       *)
(* sequence runs (a second signal is not modelled).                        *)
(***************************************************************************)
EXTENDS Integers, Sequences, FiniteSets

CONSTANTS Workers,        \* the threads thread_pool_init tries to create
          Main,           \* the main thread: boot, then the accept loop
          Sockets,        \* the descriptors accept() may return
          Nodes,          \* the addresses malloc() may return for a Node_t
          SignalTargets,  \* threads on which the kernel may run handle_sigint
          NULL            \* the null pointer, "no descriptor", "no thread"

Threads == Workers \cup {Main}

ASSUME PoolAssumption ==
    /\ IsFiniteSet(Workers)
    /\ Main \notin Workers
    /\ NULL \notin Threads \cup Sockets \cup Nodes
    /\ SignalTargets \subseteq Threads

VARIABLES
    head, tail, size, shutdown,     \* fields of ThreadPool_t
    mutex,                          \* the owner of pool->mutex, or NULL
    destroyed,                      \* pthread_mutex_destroy invalidated it
    socketOf, nextOf, allocated,    \* the heap of Node_t: fields, live addresses
    pc, sock, ptr,                  \* per thread: position, client_socket, node pointer
    open, listening,                \* kernel: open client descriptors, server socket
    closer, hpc,                    \* the thread running the shutdown, its position
    chain                           \* history variable: the nodes linked, in order

listVars == <<head, tail, size, socketOf, nextOf, allocated, chain>>
lockVars == <<shutdown, mutex, destroyed>>
kernVars == <<open, listening>>
hndlVars == <<closer, hpc>>
vars == <<listVars, lockVars, kernVars, hndlVars, pc, sock, ptr>>

MainPc   == {"spawn", "accept", "blocked", "refused", "alloc", "lock", "push", "signal", "left"}
WorkerPc == {"unborn", "failed", "pop", "check", "wait", "relock", "take",
             "unlinked", "taken", "busy", "exited"}
HandlerPc == {"idle", "lock", "set", "mutex", "cond", "exit", "exited"}

-----------------------------------------------------------------------------
(* Primitives: threads, the pthread mutex and condition variable. *)

\* A thread runs its own code unless the handler is on top of it or the
\* process is gone.
Runs(t) == closer # t /\ hpc # "exited"

Goto(t, l) == pc' = [pc EXCEPT ![t] = l]

\* pthread_mutex_lock.  On a destroyed mutex glibc returns EINVAL at once and
\* the code, which ignores the result, goes on without the lock.
Acquire(t) ==
    \/ ~destroyed /\ mutex = NULL /\ mutex' = t
    \/ destroyed /\ UNCHANGED mutex

Unlock(t) == mutex' = IF mutex = t THEN NULL ELSE mutex

Waiting == {w \in Workers : pc[w] = "wait"}

\* Threads inside pthread_cond_wait: asleep, or woken and not yet back.
InCondWait == {w \in Workers : pc[w] \in {"wait", "relock"}}

\* pthread_cond_signal seen by the sleepers: one of them wakes, if any.
WakeOne(pcs) ==
    IF Waiting = {} THEN {pcs}
    ELSE {[pcs EXCEPT ![w] = "relock"] : w \in Waiting}

-----------------------------------------------------------------------------
(* Boot: thread_pool_init's creation loop, then lith_init_server. *)

Spawn(w) ==
    /\ Runs(Main) /\ pc[Main] = "spawn" /\ pc[w] = "unborn"
    /\ \E l \in {"pop", "failed"} : Goto(w, l)      \* pthread_create may fail
    /\ UNCHANGED <<listVars, lockVars, kernVars, hndlVars, sock, ptr>>

Spawned == \A w \in Workers : pc[w] # "unborn"

InitServer ==
    /\ Runs(Main) /\ pc[Main] = "spawn" /\ Spawned
    /\ listening' = TRUE
    /\ Goto(Main, "accept")
    /\ UNCHANGED <<listVars, lockVars, open, hndlVars, sock, ptr>>

\* main() itself runs thread_pool_shutdown and returns.
InitServerFail ==
    /\ Runs(Main) /\ pc[Main] = "spawn" /\ Spawned
    /\ closer = NULL
    /\ closer' = Main /\ hpc' = "lock"
    /\ UNCHANGED <<listVars, lockVars, kernVars, pc, sock, ptr>>

-----------------------------------------------------------------------------
(* The accept loop and thread_pool_push. *)

\* A call that is under way keeps the socket: it may still return a connection
\* after the handler has closed the descriptor on another thread.
AcceptCall ==
    /\ Runs(Main) /\ pc[Main] = "accept"
    /\ Goto(Main, IF listening THEN "blocked" ELSE "refused")
    /\ UNCHANGED <<listVars, lockVars, kernVars, hndlVars, sock, ptr>>

Accept(s) ==
    /\ Runs(Main) /\ pc[Main] = "blocked" /\ s \notin open
    /\ open' = open \cup {s}
    /\ sock' = [sock EXCEPT ![Main] = s]
    /\ Goto(Main, "alloc")
    /\ UNCHANGED <<listVars, lockVars, listening, hndlVars, ptr>>

\* No descriptor left, the client already gone, ...
AcceptError ==
    /\ Runs(Main) /\ pc[Main] = "blocked"
    /\ Goto(Main, "refused")
    /\ UNCHANGED <<listVars, lockVars, kernVars, hndlVars, sock, ptr>>

\* accept() returned -1: the loop goes round again, or ends once the flag is
\* up.
AcceptRetry ==
    /\ Runs(Main) /\ pc[Main] = "refused" /\ ~shutdown
    /\ Goto(Main, "accept")
    /\ UNCHANGED <<listVars, lockVars, kernVars, hndlVars, sock, ptr>>

AcceptBreak ==
    /\ Runs(Main) /\ pc[Main] = "refused" /\ shutdown
    /\ Goto(Main, "left")
    /\ UNCHANGED <<listVars, lockVars, kernVars, hndlVars, sock, ptr>>

\* main() returns, which ends the process whatever the other threads do.
MainReturn ==
    /\ Runs(Main) /\ pc[Main] = "left"
    /\ hpc' = "exited"
    /\ UNCHANGED <<listVars, lockVars, kernVars, closer, pc, sock, ptr>>

\* Mutant: new_node->next is not initialised.
PushAllocStale(n) ==
    /\ Runs(Main) /\ pc[Main] = "alloc" /\ n \notin allocated
    /\ allocated' = allocated \cup {n}
    /\ socketOf' = [socketOf EXCEPT ![n] = sock[Main]]
    /\ UNCHANGED nextOf
    /\ ptr' = [ptr EXCEPT ![Main] = n]
    /\ Goto(Main, "lock")
    /\ UNCHANGED <<head, tail, size, chain, lockVars, kernVars, hndlVars, sock>>

PushAlloc(n) ==
    /\ Runs(Main) /\ pc[Main] = "alloc" /\ n \notin allocated
    /\ allocated' = allocated \cup {n}
    /\ socketOf' = [socketOf EXCEPT ![n] = sock[Main]]
    /\ nextOf' = [nextOf EXCEPT ![n] = NULL]
    /\ ptr' = [ptr EXCEPT ![Main] = n]
    /\ Goto(Main, "lock")
    /\ UNCHANGED <<head, tail, size, chain, lockVars, kernVars, hndlVars, sock>>

\* Mutant: the early return forgets to close the socket.
PushAllocFailOpen ==
    /\ Runs(Main) /\ pc[Main] = "alloc"
    /\ UNCHANGED open
    /\ sock' = [sock EXCEPT ![Main] = NULL]
    /\ Goto(Main, "accept")
    /\ UNCHANGED <<listVars, lockVars, listening, hndlVars, ptr>>

PushAllocFail ==
    /\ Runs(Main) /\ pc[Main] = "alloc"
    /\ open' = open \ {sock[Main]}
    /\ sock' = [sock EXCEPT ![Main] = NULL]
    /\ Goto(Main, "accept")
    /\ UNCHANGED <<listVars, lockVars, listening, hndlVars, ptr>>

PushLock ==
    /\ Runs(Main) /\ pc[Main] = "lock"
    /\ Acquire(Main)
    /\ Goto(Main, "push")
    /\ UNCHANGED <<listVars, shutdown, destroyed, kernVars, hndlVars, sock, ptr>>

\* Mutant: the early return forgets free(new_node).
PushRefuseLeak ==
    /\ Runs(Main) /\ pc[Main] = "push" /\ shutdown
    /\ Unlock(Main)
    /\ UNCHANGED allocated
    /\ open' = open \ {sock[Main]}
    /\ sock' = [sock EXCEPT ![Main] = NULL]
    /\ ptr' = [ptr EXCEPT ![Main] = NULL]
    /\ Goto(Main, "accept")
    /\ UNCHANGED <<head, tail, size, socketOf, nextOf, chain, shutdown,
                   destroyed, listening, hndlVars>>

PushRefuse ==
    /\ Runs(Main) /\ pc[Main] = "push" /\ shutdown
    /\ Unlock(Main)
    /\ allocated' = allocated \ {ptr[Main]}
    /\ open' = open \ {sock[Main]}
    /\ sock' = [sock EXCEPT ![Main] = NULL]
    /\ ptr' = [ptr EXCEPT ![Main] = NULL]
    /\ Goto(Main, "accept")
    /\ UNCHANGED <<head, tail, size, socketOf, nextOf, chain, shutdown,
                   destroyed, listening, hndlVars>>

\* Mutant: the node is linked at the head.
PushLinkFront ==
    /\ Runs(Main) /\ pc[Main] = "push" /\ ~shutdown
    /\ head' = ptr[Main]
    /\ nextOf' = [nextOf EXCEPT ![ptr[Main]] = head]
    /\ tail' = IF tail = NULL THEN ptr[Main] ELSE tail
    /\ chain' = <<ptr[Main]>> \o chain
    /\ sock' = [sock EXCEPT ![Main] = NULL]
    /\ ptr' = [ptr EXCEPT ![Main] = NULL]
    /\ Goto(Main, "signal")
    /\ UNCHANGED <<size, socketOf, allocated, lockVars, kernVars, hndlVars>>

\* Mutant: the push does not look at the shutdown flag.
PushLinkUnchecked ==
    /\ Runs(Main) /\ pc[Main] = "push"
    /\ IF tail = NULL
       THEN head' = ptr[Main] /\ UNCHANGED nextOf
       ELSE nextOf' = [nextOf EXCEPT ![tail] = ptr[Main]] /\ UNCHANGED head
    /\ tail' = ptr[Main]
    /\ chain' = Append(chain, ptr[Main])
    /\ sock' = [sock EXCEPT ![Main] = NULL]
    /\ ptr' = [ptr EXCEPT ![Main] = NULL]
    /\ Goto(Main, "signal")
    /\ UNCHANGED <<size, socketOf, allocated, lockVars, kernVars, hndlVars>>

PushLink ==
    /\ Runs(Main) /\ pc[Main] = "push" /\ ~shutdown
    /\ IF tail = NULL
       THEN head' = ptr[Main] /\ UNCHANGED nextOf
       ELSE nextOf' = [nextOf EXCEPT ![tail] = ptr[Main]] /\ UNCHANGED head
    /\ tail' = ptr[Main]
    /\ chain' = Append(chain, ptr[Main])
    /\ sock' = [sock EXCEPT ![Main] = NULL]
    /\ ptr' = [ptr EXCEPT ![Main] = NULL]
    /\ Goto(Main, "signal")
    /\ UNCHANGED <<size, socketOf, allocated, lockVars, kernVars, hndlVars>>

\* Mutant: the connection is linked and never counted.
PushSignalUncounted ==
    /\ Runs(Main) /\ pc[Main] = "signal"
    /\ UNCHANGED size
    /\ pc' \in WakeOne([pc EXCEPT ![Main] = "accept"])
    /\ Unlock(Main)
    /\ UNCHANGED <<head, tail, socketOf, nextOf, allocated, chain, shutdown,
                   destroyed, kernVars, hndlVars, sock, ptr>>

\* Mutant: only the push into an empty queue signals.
PushSignalOnEmpty ==
    /\ Runs(Main) /\ pc[Main] = "signal"
    /\ size' = size + 1
    /\ pc' \in IF head = tail THEN WakeOne([pc EXCEPT ![Main] = "accept"])
                           ELSE {[pc EXCEPT ![Main] = "accept"]}
    /\ Unlock(Main)
    /\ UNCHANGED <<head, tail, socketOf, nextOf, allocated, chain, shutdown,
                   destroyed, kernVars, hndlVars, sock, ptr>>

PushSignal ==
    /\ Runs(Main) /\ pc[Main] = "signal"
    /\ size' = size + 1
    /\ pc' \in WakeOne([pc EXCEPT ![Main] = "accept"])
    /\ Unlock(Main)
    /\ UNCHANGED <<head, tail, socketOf, nextOf, allocated, chain, shutdown,
                   destroyed, kernVars, hndlVars, sock, ptr>>

-----------------------------------------------------------------------------
(* thread_pool_pop and the outer loop of lith_client_handler. *)

PopLock(w) ==
    /\ Runs(w) /\ pc[w] \in {"pop", "relock"}
    /\ Acquire(w)
    /\ Goto(w, "check")
    /\ UNCHANGED <<listVars, shutdown, destroyed, kernVars, hndlVars, sock, ptr>>

PopWait(w) ==
    /\ Runs(w) /\ pc[w] = "check" /\ head = NULL /\ ~shutdown
    /\ Unlock(w)
    /\ Goto(w, "wait")
    /\ UNCHANGED <<listVars, shutdown, destroyed, kernVars, hndlVars, sock, ptr>>

SpuriousWakeup(w) ==
    /\ Runs(w) /\ pc[w] = "wait"
    /\ Goto(w, "relock")
    /\ UNCHANGED <<listVars, lockVars, kernVars, hndlVars, sock, ptr>>

\* pop returns -1 and the worker leaves its loop.
PopQuit(w) ==
    /\ Runs(w) /\ pc[w] = "check" /\ shutdown
    /\ Unlock(w)
    /\ Goto(w, "exited")
    /\ UNCHANGED <<listVars, shutdown, destroyed, kernVars, hndlVars, sock, ptr>>

PopCheck(w) ==
    /\ Runs(w) /\ pc[w] = "check" /\ head # NULL /\ ~shutdown
    /\ Goto(w, "take")
    /\ UNCHANGED <<listVars, lockVars, kernVars, hndlVars, sock, ptr>>

\* Mutant: popping the last node leaves the tail pointer behind.
PopTakeKeepsTail(w) ==
    /\ Runs(w) /\ pc[w] = "take"
    /\ ptr' = [ptr EXCEPT ![w] = head]
    /\ head' = nextOf[head]
    /\ tail' = tail
    /\ size' = size - 1
    /\ chain' = Tail(chain)
    /\ Unlock(w)
    /\ Goto(w, "unlinked")
    /\ UNCHANGED <<socketOf, nextOf, allocated, shutdown, destroyed, kernVars,
                   hndlVars, sock>>

PopTake(w) ==
    /\ Runs(w) /\ pc[w] = "take"
    /\ ptr' = [ptr EXCEPT ![w] = head]
    /\ head' = nextOf[head]
    /\ tail' = IF nextOf[head] = NULL THEN NULL ELSE tail
    /\ size' = size - 1
    /\ chain' = Tail(chain)
    /\ Unlock(w)
    /\ Goto(w, "unlinked")
    /\ UNCHANGED <<socketOf, nextOf, allocated, shutdown, destroyed, kernVars,
                   hndlVars, sock>>

\* After the unlock: read the socket, free the node.
PopFree(w) ==
    /\ Runs(w) /\ pc[w] = "unlinked"
    /\ sock' = [sock EXCEPT ![w] = socketOf[ptr[w]]]
    /\ allocated' = allocated \ {ptr[w]}
    /\ ptr' = [ptr EXCEPT ![w] = NULL]
    /\ Goto(w, "taken")
    /\ UNCHANGED <<head, tail, size, socketOf, nextOf, chain, lockVars,
                   kernVars, hndlVars>>

\* The unlocked re-read of pool->shutdown: the worker leaves with the
\* descriptor it has just popped still open.
HandlerBreak(w) ==
    /\ Runs(w) /\ pc[w] = "taken" /\ shutdown
    /\ Goto(w, "exited")
    /\ UNCHANGED <<listVars, lockVars, kernVars, hndlVars, sock, ptr>>

HandlerServe(w) ==
    /\ Runs(w) /\ pc[w] = "taken" /\ ~shutdown
    /\ Goto(w, "busy")
    /\ UNCHANGED <<listVars, lockVars, kernVars, hndlVars, sock, ptr>>

\* Every path of the connection handler ends in lith_close_socket.
HandlerDone(w) ==
    /\ Runs(w) /\ pc[w] = "busy"
    /\ open' = open \ {sock[w]}
    /\ sock' = [sock EXCEPT ![w] = NULL]
    /\ Goto(w, "pop")
    /\ UNCHANGED <<listVars, lockVars, listening, hndlVars, ptr>>

-----------------------------------------------------------------------------
(* handle_sigint and thread_pool_shutdown, executed by "closer". *)

\* The handler starts on t, wherever t is, and closes the server socket.
Signal(t) ==
    /\ hpc = "idle"
    /\ t \in SignalTargets /\ pc[t] \notin {"unborn", "failed", "exited"}
    /\ closer' = t /\ hpc' = "lock"
    /\ listening' = FALSE
    /\ UNCHANGED <<listVars, lockVars, open, pc, sock, ptr>>

\* Mutant: the flag is raised without the mutex.
ShutdownLockFree ==
    /\ hpc = "lock"
    /\ UNCHANGED mutex
    /\ hpc' = "set"
    /\ UNCHANGED <<listVars, shutdown, destroyed, kernVars, closer, pc, sock, ptr>>

\* The mutex is not recursive: if t was interrupted while it owned the
\* mutex, this step is never enabled.
ShutdownLock ==
    /\ hpc = "lock"
    /\ Acquire(closer)
    /\ hpc' = "set"
    /\ UNCHANGED <<listVars, shutdown, destroyed, kernVars, closer, pc, sock, ptr>>

\* Mutant: nobody is woken for the shutdown.
ShutdownSetQuiet ==
    /\ hpc = "set"
    /\ shutdown' = TRUE
    /\ UNCHANGED pc
    /\ Unlock(closer)
    /\ hpc' = "mutex"
    /\ UNCHANGED <<listVars, destroyed, kernVars, closer, sock, ptr>>

ShutdownSet ==
    /\ hpc = "set"
    /\ shutdown' = TRUE
    /\ pc' = [t \in Threads |-> IF pc[t] = "wait" THEN "relock" ELSE pc[t]]
    /\ Unlock(closer)
    /\ hpc' = "mutex"
    /\ UNCHANGED <<listVars, destroyed, kernVars, closer, sock, ptr>>

\* Destroying a mutex that a thread owns or that a pthread_cond_wait refers
\* to is undefined: the call may fail with EBUSY or invalidate the mutex.
ShutdownMutexDestroy ==
    /\ hpc = "mutex"
    /\ \/ destroyed' = TRUE
       \/ (mutex # NULL \/ InCondWait # {}) /\ UNCHANGED destroyed
    /\ hpc' = "cond"
    /\ UNCHANGED <<listVars, shutdown, mutex, kernVars, closer, pc, sock, ptr>>

\* pthread_cond_destroy blocks (glibc) until no thread is inside a wait.
ShutdownCondDestroy ==
    /\ hpc = "cond" /\ InCondWait = {}
    /\ hpc' = "exit"
    /\ UNCHANGED <<listVars, lockVars, kernVars, closer, pc, sock, ptr>>

\* exit(0), or the return from main after a boot failure.
Exit ==
    /\ hpc = "exit"
    /\ hpc' = "exited"
    /\ UNCHANGED <<listVars, lockVars, kernVars, closer, pc, sock, ptr>>

Gone == hpc = "exited" /\ UNCHANGED vars

-----------------------------------------------------------------------------
Init ==
    /\ head = NULL /\ tail = NULL /\ size = 0 /\ shutdown = FALSE
    /\ mutex = NULL /\ destroyed = FALSE
    /\ socketOf = [n \in Nodes |-> NULL]
    /\ nextOf = [n \in Nodes |-> NULL]
    /\ allocated = {}
    /\ pc = [t \in Threads |-> IF t = Main THEN "spawn" ELSE "unborn"]
    /\ sock = [t \in Threads |-> NULL]
    /\ ptr = [t \in Threads |-> NULL]
    /\ open = {} /\ listening = FALSE
    /\ closer = NULL /\ hpc = "idle"
    /\ chain = <<>>

MainStep ==
    \/ \E w \in Workers : Spawn(w)
    \/ InitServer \/ InitServerFail
    \/ AcceptCall \/ AcceptRetry \/ AcceptBreak \/ MainReturn
    \/ \E n \in Nodes : PushAlloc(n)
    \/ PushAllocFail \/ PushLock \/ PushRefuse \/ PushLink \/ PushSignal

WorkerStep(w) ==
    \/ PopLock(w) \/ PopWait(w) \/ PopQuit(w) \/ PopCheck(w) \/ PopTake(w)
    \/ PopFree(w) \/ HandlerBreak(w) \/ HandlerServe(w)

ShutdownStep ==
    \/ ShutdownLock \/ ShutdownSet \/ ShutdownMutexDestroy
    \/ ShutdownCondDestroy \/ Exit

\* What the outside world decides: clients, the kernel, the operator.
Environment ==
    \/ \E s \in Sockets : Accept(s)
    \/ AcceptError
    \/ \E w \in Workers : HandlerDone(w) \/ SpuriousWakeup(w)
    \/ \E t \in Threads : Signal(t)

Next ==
    \/ MainStep
    \/ \E w \in Workers : WorkerStep(w)
    \/ ShutdownStep
    \/ Environment
    \/ Gone

Spec == Init /\ [][Next]_vars

\* The scheduler runs every thread that can run.  Clients, spurious wake-ups
\* and signals owe nothing, and neither does the end of a connection.  The
\* strong fairness says that a mutex released again and again (by workers
\* that keep waking up for nothing) is one day obtained by the shutdown.
FairSpec ==
    /\ Spec
    /\ WF_vars(MainStep)
    /\ \A w \in Workers : WF_vars(WorkerStep(w))
    /\ WF_vars(ShutdownStep) /\ SF_vars(ShutdownLock)

-----------------------------------------------------------------------------
(* Properties. *)

\* Types of the pool's fields and of each thread's locals; pool->size is
\* never negative.
TypeOK ==
    /\ head \in Nodes \cup {NULL} /\ tail \in Nodes \cup {NULL}
    /\ size \in Nat /\ shutdown \in BOOLEAN
    /\ mutex \in Threads \cup {NULL} /\ destroyed \in BOOLEAN
    /\ socketOf \in [Nodes -> Sockets \cup {NULL}]
    /\ nextOf \in [Nodes -> Nodes \cup {NULL}]
    /\ allocated \subseteq Nodes
    /\ pc \in [Threads -> MainPc \cup WorkerPc]
    /\ pc[Main] \in MainPc /\ \A w \in Workers : pc[w] \in WorkerPc
    /\ sock \in [Threads -> Sockets \cup {NULL}]
    /\ ptr \in [Threads -> Nodes \cup {NULL}]
    /\ open \subseteq Sockets /\ listening \in BOOLEAN
    /\ closer \in Threads \cup {NULL} /\ hpc \in HandlerPc
    /\ chain \in Seq(Nodes)

LinkedNodes == {chain[i] : i \in 1 .. Len(chain)}

\* The list is intact in every state, even in the middle of a push and while
\* workers run through a destroyed mutex: head, tail and the next pointers
\* spell exactly the nodes linked and not yet unlinked, size counts them
\* (the node being pushed is counted by PushSignal), and no node that is
\* linked, or that a thread still points to, has been freed.
ListIntact ==
    /\ head = IF chain = <<>> THEN NULL ELSE chain[1]
    /\ tail = IF chain = <<>> THEN NULL ELSE chain[Len(chain)]
    /\ \A i \in 1 .. Len(chain) :
          nextOf[chain[i]] = IF i = Len(chain) THEN NULL ELSE chain[i + 1]
    /\ \A i, j \in 1 .. Len(chain) : chain[i] = chain[j] => i = j
    /\ size = Len(chain) - (IF pc[Main] = "signal" THEN 1 ELSE 0)
    /\ LinkedNodes \subseteq allocated

InHand == {ptr[t] : t \in Threads} \ {NULL}

\* Every node malloc returned is reachable from exactly one place: the list
\* or the local pointer of one thread.  A node in nobody's reach is a leak,
\* a node in two places would be freed twice.
NodesAccounted ==
    /\ allocated = LinkedNodes \cup InHand
    /\ LinkedNodes \cap InHand = {}
    /\ \A t, u \in Threads : ptr[t] = ptr[u] /\ ptr[t] # NULL => t = u

\* The descriptor a thread answers for.
Carried(t) ==
    IF pc[t] = "unlinked" THEN socketOf[ptr[t]] ELSE sock[t]

Owners(s) ==
    {t \in Threads : Carried(t) = s}
      \cup {i \in 1 .. Len(chain) : socketOf[chain[i]] = s}

\* Every open client descriptor has exactly one owner (the accept loop, one
\* queue node or one worker), and nobody owns a closed one: no connection is
\* served twice, closed twice or dropped while the process runs.
OneOwner == \A s \in Sockets :
    Cardinality(Owners(s)) = IF s \in open THEN 1 ELSE 0

Touching == {"signal", "take"}

\* Whoever touches the list holds the mutex, and no list operation is in
\* progress once the shutdown flag is up: the flag is what protects the list
\* when the mutex no longer does.
ListGuarded == \A t \in Threads :
    pc[t] \in Touching => mutex = t /\ ~shutdown /\ ~destroyed /\ head # NULL

Protected == {"push", "signal", "check", "take"}

\* Locks, the part of the inductive invariant behind ListGuarded: a protected
\* section of push or pop is entered with the mutex unless it was destroyed;
\* thread_pool_shutdown raises the flag with the mutex, outside any section of
\* the thread it interrupted, and destroys the mutex only afterwards; a raised
\* flag leaves nobody asleep in pthread_cond_wait.
LockDiscipline ==
    /\ \A t \in Threads : pc[t] \in Protected => mutex = t \/ destroyed
    /\ hpc = "set" => mutex = closer /\ pc[closer] \notin Protected
    /\ shutdown <=> hpc \notin {"idle", "lock", "set"}
    /\ destroyed => shutdown
    /\ pc[Main] = "left" => shutdown
    /\ hpc # "idle" => closer # NULL
    /\ shutdown => Waiting = {}

\* Node pointers: a thread has a node in hand exactly between malloc and the
\* link in push, and between the unlink and free in pop, and the new node is
\* ready to end the list.
PointerDiscipline ==
    /\ \A t \in Threads : ptr[t] # NULL <=> pc[t] \in {"lock", "push", "unlinked"}
    /\ pc[Main] \in {"lock", "push"} => nextOf[ptr[Main]] = NULL

Contending == {w \in Workers : pc[w] \in {"pop", "relock", "check", "take"}}

\* No wake-up is lost: as long as a worker sleeps, the connections counted in
\* the queue do not outnumber the workers on their way to it.
NoLostWakeup == Waiting # {} => size <= Cardinality(Contending)

\* After the mutex was destroyed nothing changes the list or the queue any
\* more, although workers still run through the code it protected.
QuietAfterDestroy ==
    [][destroyed => UNCHANGED <<head, tail, size, chain>>]_vars

Handoff == INSTANCE ConnectionHandoff WITH
    queue <- [i \in 1 .. Len(chain) |-> socketOf[chain[i]]],
    held  <- [w \in Workers |-> Carried(w)]

\* The pool implements the FIFO hand-off.
HandoffSpec == Handoff!HandoffSpec

InQueue(s) == \E i \in 1 .. Len(chain) : socketOf[chain[i]] = s

AllOccupied == \A w \in Workers : pc[w] \in {"busy", "failed"}

\* A queued connection does not stay queued while a worker is free: it is
\* taken, or every worker that exists is occupied, or the server is stopping.
QueuedIsTaken == \A s \in Sockets :
    InQueue(s) ~> (~InQueue(s) \/ AllOccupied \/ closer # NULL)

\* Once the shutdown sequence has begun the process ends.
ShutdownCompletes == (closer # NULL) ~> (hpc = "exited")

=============================================================================

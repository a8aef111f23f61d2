------------------------------ MODULE Lifecycle ------------------------------
(***************************************************************************)
(* One life of the lith process, from main() to its end: command line,     *)
(* configuration, daemon mode (src/src/daemon.c), the two initialisations  *)
(* of the TLS context (src/src/server/ssl_engine.c), the pool and its      *)
(* workers, the accept loop, and the shutdown that the signal handler runs *)
(* on top of whatever thread the kernel picks.                             *)
(*                                                                         *)
(* Here a queued connection is only counted and a request is "take the     *)
(* read lock, send, release": modules ThreadPool, FileServing and          *)
(* Connection have the details.  What this module adds is the interplay of *)
(* boot, workers and several shutdowns over the locks and the context they *)
(* share.                                                                  *)
(***************************************************************************)
EXTENDS Config

CONSTANTS Workers, Main,     \* the threads
          Launches,          \* command, lith.conf, arguments, length of the name
                             \* of the starting directory, threads the system
                             \* grants, signals sent
          Present,           \* certificate and key files, by directory and name
          MaxConnections,    \* bound: connections accepted
          NULL

Threads == Workers \cup {Main}

ASSUME LifecycleAssumption ==
    /\ IsFiniteSet(Workers) /\ Main \notin Workers /\ NULL \notin Threads
    /\ MaxConnections \in Nat
    /\ \A l \in Launches : /\ l.file \in Files /\ l.args \in Arguments /\ l.startLen \in Nat
                           /\ l.threads \in Nat /\ l.signals \in 0 .. 2

VARIABLES
    given,      \* how the program was started
    config,     \* global_config
    proc,       \* the process as the kernel sees it, see Launched
    tls,        \* the contexts made, global_ssl_ctx, each worker's ssl_ctx, frees
    pool,       \* shutdown, mutex and its end, queue length, connections so far
    cache,      \* rwlock, and how often a content it points to has been freed
    pc,         \* each thread's position
    frame,      \* each thread's stack of shutdown sequences, the innermost first
    signals,    \* signals handled
    gone        \* "no", the exit status "0" or "1", "crash", or "pipe" for SIGPIPE

vars == <<given, config, proc, tls, pool, cache, pc, frame, signals, gone>>

\* The positions of the two calls of lith_ssl_init.
NEWCTX == <<"new1", "new2">>
CERT   == <<"cert1", "cert2">>
KEY    == <<"key1", "key2">>

MainPc == {"command", "getcwd", "load", "args", "fork1", "setsid", "fork2", "chdir", "streams",
           "log", "pool", "spawn", "socket", "publish", "accept", "push", "hold", "return",
           "failed"} \cup Range(NEWCTX) \cup Range(CERT) \cup Range(KEY)
WorkerPc == {"unborn", "uncreated", "new", "pop", "check", "wait", "relock", "taken", "peek",
             "ssl", "get", "reload", "swap", "send", "exited"}
FramePc == {"lock", "set", "mutex", "cond", "cache", "ctx", "null", "exit"}

Launched == [cwd |-> "start", leader |-> TRUE, session |-> "shell", log |-> "none",
             fd |-> [n \in 0 .. 2 |-> "tty"], port |-> 0, listening |-> FALSE,
             published |-> FALSE]

-----------------------------------------------------------------------------
(* Primitives. *)

\* A thread runs its own code unless a handler is on top of it.
At(t, l) == gone = "no" /\ frame[t] = <<>> /\ pc[t] = l

Goto(t, l) == pc' = [pc EXCEPT ![t] = l]

\* A step of t from one position to the next.
Step(t, l, next) == At(t, l) /\ Goto(t, next) /\ UNCHANGED <<given, frame, signals, gone>>

\* main() returns or the process dies.
End(status) == gone' = status /\ UNCHANGED <<pc, frame>>

\* A call of main() that either succeeds or makes it return 1.
Call(l, next) ==
    \/ Step(Main, l, next)
    \/ At(Main, l) /\ End("1") /\ UNCHANGED <<given, signals>>

\* pthread_mutex_lock: a destroyed mutex lets everybody through (EINVAL is
\* not looked at), one's own is waited for without end.
Acquire(t) ==
    \/ ~pool.destroyed /\ pool.mutex = NULL /\ pool' = [pool EXCEPT !.mutex = t]
    \/ pool.destroyed /\ UNCHANGED pool

Released(t) == IF pool.mutex = t THEN NULL ELSE pool.mutex

Waiting    == {w \in Workers : pc[w] = "wait"}
InCondWait == {w \in Workers : pc[w] \in {"wait", "relock"}}

-----------------------------------------------------------------------------
(* main(): command line, configuration, daemon mode. *)

Command ==
    /\ At(Main, "command")
    /\ CASE given.command = "start" -> Goto(Main, "getcwd") /\ UNCHANGED <<frame, gone>>
         [] given.command = "info"  -> End("0")     \* none, --version, --help
         [] OTHER -> End("1")
    /\ UNCHANGED <<given, config, proc, tls, pool, cache, signals>>

GetCwd == Call("getcwd", "load") /\ UNCHANGED <<config, proc, tls, pool, cache>>

Load ==
    /\ Step(Main, "load", "args")
    /\ config' = LoadConfig(given.file)
    /\ UNCHANGED <<proc, tls, pool, cache>>

Args ==
    /\ Step(Main, "args", IF UseDaemon(given.args) THEN "fork1" ELSE "new1")
    /\ config' = Effective(config, given.args, given.startLen)
    /\ UNCHANGED <<proc, tls, pool, cache>>

\* The parent exits with status 0; the story goes on with the child, which
\* leads neither a process group nor a session.
Fork(l, next) ==
    /\ Call(l, next)
    /\ proc' = [proc EXCEPT !.leader = @ /\ gone' # "no"]
    /\ UNCHANGED <<config, tls, pool, cache>>

\* Refused to the leader of a process group.
SetSid ==
    /\ ~proc.leader
    /\ Step(Main, "setsid", "fork2")
    /\ proc' = [proc EXCEPT !.session = "own", !.leader = TRUE]
    /\ UNCHANGED <<config, tls, pool, cache>>

\* Mutant: the second fork is forgotten.
SecondForkSkipped == Step(Main, "fork2", "chdir") /\ UNCHANGED <<config, proc, tls, pool, cache>>

SecondFork == Fork("fork2", "chdir")

Chdir ==
    /\ Call("chdir", "streams")
    /\ proc' = [proc EXCEPT !.cwd = IF gone' = "no" THEN "root" ELSE @]
    /\ UNCHANGED <<config, tls, pool, cache>>

\* The standard descriptors are closed, and /dev/null takes the lowest.
Streams ==
    /\ Call("streams", "log")
    /\ proc' = [proc EXCEPT !.fd = [n \in 0 .. 2 |-> IF n = 0 /\ gone' = "no" THEN "null"
                                                                             ELSE "free"]]
    /\ UNCHANGED <<config, tls, pool, cache>>

\* lith.log in the starting directory, or else in /tmp, or else none at all.
OpenLog ==
    /\ Step(Main, "log", "new1")
    /\ \E log \in {"start", "tmp", "none"} :
          proc' = [proc EXCEPT !.log = log,
                               !.fd = IF log = "none" THEN @
                                      ELSE [@ EXCEPT ![1] = "log", ![2] = "log"]]
    /\ UNCHANGED <<config, tls, pool, cache>>

-----------------------------------------------------------------------------
(* lith_ssl_init, called by main() (i = 1) and by lith_init_server (i = 2).*)

\* Mutant: the first failure is only logged.
AbortLater(i) ==
    IF i = 1 THEN Goto(Main, "pool") /\ UNCHANGED <<proc, frame, gone>>
    ELSE /\ proc' = [proc EXCEPT !.listening = FALSE]
         /\ Goto(Main, "failed") /\ frame' = [frame EXCEPT ![Main] = <<"lock">>]
         /\ UNCHANGED gone

\* The first failure makes main() return 1.  After the second one the server
\* socket is closed and main() itself runs the shutdown.
Abort(i) ==
    IF i = 1 THEN End("1") /\ UNCHANGED proc
    ELSE /\ proc' = [proc EXCEPT !.listening = FALSE]
         /\ Goto(Main, "failed") /\ frame' = [frame EXCEPT ![Main] = <<"lock">>]
         /\ UNCHANGED gone

\* Mutant: the result of SSL_CTX_new is not looked at.
NewContextUnchecked(i) ==
    /\ Step(Main, NEWCTX[i], CERT[i])
    /\ \E made \in {0, i} : tls' = [tls EXCEPT !.ctx[i] = "new", !.global = made]
    /\ UNCHANGED <<config, proc, pool, cache>>

\* SSL_CTX_new: the global is overwritten, with NULL if the call fails.
NewContext(i) ==
    /\ At(Main, NEWCTX[i])
    /\ \/ /\ tls' = [tls EXCEPT !.ctx[i] = "new", !.global = i]
          /\ Goto(Main, CERT[i]) /\ UNCHANGED <<proc, frame, gone>>
       \/ tls' = [tls EXCEPT !.global = 0] /\ Abort(i)
    /\ UNCHANGED <<given, config, pool, cache, signals>>

\* Meanwhile a handler on a worker may have freed the context, or set the
\* global to NULL.
Broken == tls.global \notin {i \in 1 .. 2 : tls.ctx[i] # "freed"}

Found(p) == Locate(p, proc.cwd) \in Present

\* A file is read into the context that the global names now.
UseFile(i, l, found, loaded, next) ==
    /\ At(Main, l)
    /\ \/ Broken /\ End("crash") /\ UNCHANGED <<proc, tls>>
       \/ /\ tls.global # 0 /\ found
          /\ tls' = [tls EXCEPT !.ctx[tls.global] = IF @ = "freed" THEN @ ELSE loaded]
          /\ Goto(Main, next) /\ UNCHANGED <<proc, frame, gone>>
       \/ tls.global # 0 /\ ~found /\ Abort(i) /\ UNCHANGED tls
    /\ UNCHANGED <<given, config, pool, cache, signals>>

Certificate == OrElse(config.ssl_cert_path, DefaultCert)

UseCertificate(i) == UseFile(i, CERT[i], Found(Certificate), "cert", KEY[i])

\* The key may also be unreadable, or not fit the certificate.
UseKey(i) == \E fits \in BOOLEAN :
    UseFile(i, KEY[i], fits /\ Found(OrElse(config.ssl_key_path, DefaultKey)), "ready",
            IF i = 1 THEN "pool" ELSE "publish")

-----------------------------------------------------------------------------
(* thread_pool_init, lith_init_server, the accept loop. *)

InitPool ==
    /\ Step(Main, "pool", "spawn")
    /\ cache' = [cache EXCEPT !.loaded = TRUE]
    /\ UNCHANGED <<config, proc, tls, pool>>

Unborn  == {w \in Workers : pc[w] = "unborn"}
Created == {w \in Workers : pc[w] # "uncreated"} \ Unborn

\* One round of the creation loop; pthread_create fails once the limit on
\* threads is reached, which the code ignores.
Spawn ==
    /\ At(Main, "spawn") /\ Unborn # {}
    /\ Goto(CHOOSE w \in Unborn : TRUE,
            IF Cardinality(Created) < given.threads THEN "new" ELSE "uncreated")
    /\ UNCHANGED <<given, config, proc, tls, pool, cache, frame, signals, gone>>

SpawnEnd ==
    /\ Unborn = {} /\ Step(Main, "spawn", "socket")
    /\ UNCHANGED <<config, proc, tls, pool, cache>>

\* A new descriptor is the lowest that is free.
Occupy(fd, what) ==
    LET free == {n \in DOMAIN fd : fd[n] = "free"}
    IN  IF free = {} THEN fd ELSE [fd EXCEPT ![Min(free)] = what]

\* socket, bind, listen.
Socket ==
    /\ At(Main, "socket")
    /\ \/ /\ proc' = [proc EXCEPT !.fd = Occupy(@, "server"), !.listening = TRUE,
                                  !.port = Htons(config.port)]
          /\ Goto(Main, "new2") /\ UNCHANGED <<frame, gone>>
       \/ Abort(2)
    /\ UNCHANGED <<given, config, tls, pool, cache, signals>>

Publish ==
    /\ Step(Main, "publish", "accept")
    /\ proc' = [proc EXCEPT !.published = TRUE]
    /\ UNCHANGED <<config, tls, pool, cache>>

\* Without a log the server socket takes descriptor 1: the first line of
\* lith_log that stdio passes on is written to it and raises SIGPIPE.
LogToServer ==
    /\ gone = "no" /\ proc.fd[1] = "server" /\ proc.listening
    /\ End("pipe")
    /\ UNCHANGED <<given, config, proc, tls, pool, cache, signals>>

Accept ==
    /\ proc.listening /\ pool.conns < MaxConnections
    /\ Step(Main, "accept", "push")
    /\ pool' = [pool EXCEPT !.conns = @ + 1]
    /\ UNCHANGED <<config, proc, tls, cache>>

\* accept fails on the closed socket: the loop spins until the flag is up.
AcceptBreak ==
    /\ ~proc.listening /\ pool.shutdown
    /\ Step(Main, "accept", "return")
    /\ UNCHANGED <<config, proc, tls, pool, cache>>

Return ==
    /\ At(Main, "return") /\ End("0")
    /\ UNCHANGED <<given, config, proc, tls, pool, cache, signals>>

PushLock == Step(Main, "push", "hold") /\ Acquire(Main) /\ UNCHANGED <<config, proc, tls, cache>>

\* Refused during a shutdown; else queued, one sleeper is woken if there is
\* any, and the mutex given back.
PushEnd ==
    /\ At(Main, "hold")
    /\ pool' = [pool EXCEPT !.queue = IF pool.shutdown THEN @ ELSE @ + 1,
                            !.mutex = Released(Main)]
    /\ \E w \in IF pool.shutdown \/ Waiting = {} THEN {Main} ELSE Waiting :
          pc' = [pc EXCEPT ![w] = "relock", ![Main] = "accept"]
    /\ UNCHANGED <<given, config, proc, tls, cache, frame, signals, gone>>

-----------------------------------------------------------------------------
(* The workers. *)

\* A worker reads the global once, whenever it first runs.
Start(w) ==
    /\ Step(w, "new", "pop")
    /\ tls' = [tls EXCEPT !.cap[w] = tls.global]
    /\ UNCHANGED <<config, proc, pool, cache>>

PopLock(w) ==
    /\ \E l \in {"pop", "relock"} : Step(w, l, "check")
    /\ Acquire(w)
    /\ UNCHANGED <<config, proc, tls, cache>>

\* Leave with -1, sleep, or take a connection.
PopEnd(w) ==
    /\ Step(w, "check", CASE pool.shutdown -> "exited"
                          [] ~pool.shutdown /\ pool.queue = 0 -> "wait"
                          [] OTHER -> "taken")
    /\ pool' = [pool EXCEPT !.mutex = Released(w),
                            !.queue = IF @ > 0 /\ ~pool.shutdown THEN @ - 1 ELSE @]
    /\ UNCHANGED <<config, proc, tls, cache>>

SpuriousWakeup(w) == Step(w, "wait", "relock") /\ UNCHANGED <<config, proc, tls, pool, cache>>

Serve(w) ==
    /\ Step(w, "taken", IF pool.shutdown THEN "exited" ELSE "peek")
    /\ UNCHANGED <<config, proc, tls, pool, cache>>

\* The first byte arrives, or the connection ends without TLS.
Peek(w) ==
    /\ \E next \in {"ssl", "pop"} : Step(w, "peek", next)
    /\ UNCHANGED <<config, proc, tls, pool, cache>>

\* SSL_new and the handshake, with the context the worker remembers.  NULL is
\* refused; a freed context may do anything.
SslNew(w) ==
    /\ \/ tls.cap[w] # 0 /\ Step(w, "ssl", "get")
       \/ Step(w, "ssl", "pop")
       \/ /\ At(w, "ssl") /\ tls.cap[w] # 0 /\ tls.ctx[tls.cap[w]] = "freed"
          /\ End("crash") /\ UNCHANGED <<given, signals>>
    /\ UNCHANGED <<config, proc, tls, pool, cache>>

\* A request for a cached file, under the read lock.
ReadLock(w) ==
    /\ config.use_cache = 1 /\ cache.writer = NULL
    /\ Step(w, "get", "send")
    /\ cache' = [cache EXCEPT !.readers = @ \cup {w}]
    /\ UNCHANGED <<config, proc, tls, pool>>

\* A cached file that has changed: the write lock, the reload, and then the
\* read lock after all.  lith_cache_hot_reload frees the old content before it
\* stores the new one, or gives up before either.
ReloadLock(w) ==
    /\ config.use_cache = 1 /\ cache.writer = NULL /\ cache.readers = {}
    /\ Step(w, "get", "reload")
    /\ cache' = [cache EXCEPT !.writer = w]
    /\ UNCHANGED <<config, proc, tls, pool>>

ReloadFree(w) ==
    /\ Step(w, "reload", "swap")
    /\ cache' = [cache EXCEPT !.frees = @ + 1]
    /\ UNCHANGED <<config, proc, tls, pool>>

ReloadEnd(w) ==
    /\ \E l \in {"reload", "swap"} : Step(w, l, "get")
    /\ cache' = [cache EXCEPT !.writer = NULL, !.frees = 0]
    /\ UNCHANGED <<config, proc, tls, pool>>

\* A request that needs no cached file.
NoLock(w) == Step(w, "get", "send") /\ UNCHANGED <<config, proc, tls, pool, cache>>

\* The client has read the answer: the next request, or the end.
Sent(w) ==
    /\ \E next \in {"get", "pop"} : Step(w, "send", next)
    /\ cache' = [cache EXCEPT !.readers = @ \ {w}]
    /\ UNCHANGED <<config, proc, tls, pool>>

\* The redirect, the handshake or the answer is written to a connection that
\* the client has reset: SIGPIPE, which the program neither ignores nor handles.
Writing == {"peek", "ssl", "send"}

BrokenPipe(w) ==
    /\ \E l \in Writing : At(w, l)
    /\ End("pipe")
    /\ UNCHANGED <<given, config, proc, tls, pool, cache, signals>>

-----------------------------------------------------------------------------
(* handle_sigint: close the server socket, thread_pool_shutdown,           *)
(* lith_ssl_cleanup, exit.  The path of a failed boot is the same without  *)
(* the socket.                                                             *)

\* Of the two kinds, SIGINT and SIGTERM, each is blocked while its own handler
\* runs, so that two signals may come on one thread, one within the other.
Signal(t) ==
    /\ gone = "no" /\ signals < given.signals
    /\ pc[t] \notin {"unborn", "uncreated", "exited"}
    /\ signals' = signals + 1
    /\ proc' = [proc EXCEPT !.listening = @ /\ ~proc.published]
    /\ frame' = [frame EXCEPT ![t] = <<"lock">> \o @]
    /\ UNCHANGED <<given, config, tls, pool, cache, pc, gone>>

In(t, l) == gone = "no" /\ frame[t] # <<>> /\ Head(frame[t]) = l

Then(t, l) == frame' = [frame EXCEPT ![t] = <<l>> \o Tail(@)]

\* A step of the shutdown that t runs.
Go(t, l, next) == In(t, l) /\ Then(t, next) /\ UNCHANGED <<given, config, proc, signals, gone>>

ShutdownLock(t) == Go(t, "lock", "set") /\ Acquire(t) /\ UNCHANGED <<tls, cache, pc>>

\* Mutant: nobody is woken.
Broadcastless == pc

Broadcast == [t \in Threads |-> IF pc[t] = "wait" THEN "relock" ELSE pc[t]]

ShutdownSet(t) ==
    /\ Go(t, "set", "mutex")
    /\ pool' = [pool EXCEPT !.shutdown = TRUE, !.mutex = Released(t)]
    /\ pc' = Broadcast
    /\ UNCHANGED <<tls, cache>>

\* Undefined while the mutex is owned or waited with: EBUSY, or its end.
MutexDestroy(t) ==
    /\ Go(t, "mutex", "cond")
    /\ \/ pool' = [pool EXCEPT !.destroyed = TRUE]
       \/ (pool.mutex # NULL \/ InCondWait # {}) /\ UNCHANGED pool
    /\ UNCHANGED <<tls, cache, pc>>

\* Waits for every thread inside pthread_cond_wait, the interrupted one too.
CondDestroy(t) == InCondWait = {} /\ Go(t, "cond", "cache") /\ UNCHANGED <<tls, pool, cache, pc>>

\* Mutant: lith_cache_destroy gives the lock back.
KeptByNobody(t) == NULL

\* The write lock is taken and never released.
KeptBy(t) == t

\* pthread_rwlock_wrlock lets its owner through with EDEADLK, which is not
\* looked at; then every content is freed, and none of the pointers reset.
\* The one the interrupted thread was about to replace is free already.
CacheDestroy(t) ==
    /\ In(t, "cache") /\ cache.writer \in {NULL, t} /\ cache.readers = {}
    /\ cache' = [cache EXCEPT !.writer = KeptBy(t), !.frees = IF cache.loaded THEN @ + 1 ELSE @]
    /\ \/ Then(t, "ctx") /\ UNCHANGED <<pc, gone>>
       \/ cache.loaded /\ cache.frees > 0 /\ End("crash")
    /\ UNCHANGED <<given, config, proc, tls, pool, signals>>

\* lith_ssl_cleanup: test and free, then the assignment.
FreeContext(t) ==
    /\ In(t, "ctx") /\ tls.global # 0
    /\ tls' = [tls EXCEPT !.ctx[tls.global] = "freed", !.frees[tls.global] = @ + 1]
    /\ \/ Then(t, "null") /\ UNCHANGED <<pc, gone>>
       \/ tls.ctx[tls.global] = "freed" /\ End("crash")
    /\ UNCHANGED <<given, config, proc, pool, cache, signals>>

NoContext(t) == tls.global = 0 /\ Go(t, "ctx", "exit") /\ UNCHANGED <<tls, pool, cache, pc>>

ClearContext(t) ==
    /\ Go(t, "null", "exit")
    /\ tls' = [tls EXCEPT !.global = 0]
    /\ UNCHANGED <<pool, cache, pc>>

\* exit(0), or the return from main() after a failed boot.
Exit(t) ==
    /\ In(t, "exit")
    /\ End(IF t = Main /\ pc[Main] = "failed" /\ Len(frame[Main]) = 1 THEN "1" ELSE "0")
    /\ UNCHANGED <<given, config, proc, tls, pool, cache, signals>>

Gone == gone # "no" /\ UNCHANGED vars

-----------------------------------------------------------------------------
Init ==
    /\ given \in Launches /\ config = Zeroed /\ proc = Launched
    /\ tls = [ctx |-> <<"none", "none">>, global |-> 0, cap |-> [w \in Workers |-> 0],
              frees |-> <<0, 0>>]
    /\ pool = [shutdown |-> FALSE, mutex |-> NULL, destroyed |-> FALSE, queue |-> 0, conns |-> 0]
    /\ cache = [loaded |-> FALSE, readers |-> {}, writer |-> NULL, frees |-> 0]
    /\ pc = [t \in Threads |-> IF t = Main THEN "command" ELSE "unborn"]
    /\ frame = [t \in Threads |-> <<>>]
    /\ signals = 0 /\ gone = "no"

MainStep ==
    \/ Command \/ GetCwd \/ Load \/ Args
    \/ Fork("fork1", "setsid") \/ SetSid \/ SecondFork \/ Chdir \/ Streams \/ OpenLog
    \/ \E i \in 1 .. 2 : NewContext(i) \/ UseCertificate(i) \/ UseKey(i)
    \/ InitPool \/ Spawn \/ SpawnEnd
    \/ Socket \/ Publish \/ AcceptBreak \/ Return \/ PushLock \/ PushEnd

WorkerStep(w) ==
    \/ Start(w) \/ PopLock(w) \/ PopEnd(w) \/ Serve(w) \/ Peek(w) \/ SslNew(w)
    \/ ReadLock(w) \/ ReloadLock(w) \/ ReloadFree(w) \/ ReloadEnd(w) \/ NoLock(w)

ShutdownStep(t) ==
    \/ ShutdownLock(t) \/ ShutdownSet(t) \/ MutexDestroy(t) \/ CondDestroy(t)
    \/ CacheDestroy(t) \/ FreeContext(t) \/ NoContext(t) \/ ClearContext(t) \/ Exit(t)

\* Clients, the kernel and the operator.
Environment ==
    \/ Accept \/ LogToServer
    \/ \E w \in Workers : SpuriousWakeup(w) \/ Sent(w) \/ BrokenPipe(w)
    \/ \E t \in Threads : Signal(t)

Next ==
    \/ MainStep \/ (\E w \in Workers : WorkerStep(w)) \/ (\E t \in Threads : ShutdownStep(t))
    \/ Environment \/ Gone

Spec == Init /\ [][Next]_vars

\* The scheduler runs every thread.  A lock that is free again and again is
\* one day obtained by the shutdown.  Clients owe nothing: an answer may
\* never be read.
FairSpec ==
    /\ Spec
    /\ WF_vars(MainStep)
    /\ \A w \in Workers : WF_vars(WorkerStep(w))
    /\ \A t \in Threads : SF_vars(ShutdownStep(t))

-----------------------------------------------------------------------------
(* Properties. *)

\* Types of the process, its locks and its threads.
TypeOK ==
    /\ given \in Launches /\ DOMAIN config = DOMAIN Zeroed /\ config.port \in Int
    /\ proc.cwd \in {"start", "root"} /\ proc.log \in {"none", "start", "tmp"}
    /\ proc.fd \in [0 .. 2 -> {"tty", "free", "null", "log", "server"}]
    /\ proc.port \in 0 .. MaxPort
    /\ tls.ctx \in [1 .. 2 -> {"none", "new", "cert", "ready", "freed"}]
    /\ tls.global \in 0 .. 2 /\ tls.cap \in [Workers -> 0 .. 2]
    /\ pool.mutex \in Threads \cup {NULL} /\ pool.queue \in 0 .. MaxConnections
    /\ cache.readers \subseteq Workers /\ cache.writer \in Threads \cup {NULL}
    /\ pc[Main] \in MainPc /\ \A w \in Workers : pc[w] \in WorkerPc
    /\ frame \in [Threads -> Seq(FramePc)]
    /\ signals \in 0 .. 2 /\ gone \in {"no", "0", "1", "crash", "pipe"}

Stopping == \E t \in Threads : frame[t] # <<>>

\* No client meets a half-made context: whichever of the two contexts a
\* worker found in global_ssl_ctx, and at whatever moment of the boot, by the
\* time it calls SSL_new that context has its certificate and key, or the
\* process is stopping.
ServesReady == \A w \in Workers : pc[w] = "ssl" =>
    /\ tls.cap[w] # 0
    /\ tls.ctx[tls.cap[w]] \in IF Stopping THEN {"ready", "freed"} ELSE {"ready"}

Serving == pc[Main] \in {"accept", "push", "hold", "return"}

\* What the operator asked for is what is served, daemon or not: the port
\* bound is the one meant, if there is such a port, and requests are answered
\* from the public_dir meant, seen from where the program was started, if one
\* is named, the lines of the file fit the buffer they are read into, and the
\* name does too; for what comes from the file, if the key is in lower case.
AsConfigured == Serving =>
    LET port == MeantPort(given.file, given.args)
        dir  == Meant(given.file, "public_dir")
    IN  /\ port \in 0 .. MaxPort /\ (LowerCase(given.file, "port") \/ PortOverride(given.args) > 0)
             => proc.port = port
        /\ Fits(given.file) /\ LowerCase(given.file, "public_dir")
           /\ dir.len > 0 /\ given.startLen + 1 + dir.len < SIZE
             => Served(config.public_dir, proc.cwd) = Served(dir, "start")

\* A daemon that serves is on its own: in a session without terminal that it
\* cannot get back, in the root directory, reading nothing, and writing to
\* the log if one could be opened.
Detached == Serving /\ UseDaemon(given.args) =>
    /\ proc.session = "own" /\ ~proc.leader /\ proc.cwd = "root"
    /\ proc.fd[0] = "null"
    /\ proc.log # "none" => proc.fd[1] = "log" /\ proc.fd[2] = "log"

\* A handler runs within a shutdown on its own thread, and so owns its write
\* lock; or on a worker that is replacing a content, and owns that one.
Nested     == \E t \in Threads : Len(frame[t]) > 1
SwapBroken == \E w \in Workers : pc[w] = "swap" /\ frame[w] # <<>>

\* However many threads run the shutdown and reload files, no content is freed
\* twice or under a reader, and no context twice, but for these two cases: the
\* write lock is let through to its owner.
CleanupOnce ==
    /\ cache.frees > 1 => Nested \/ SwapBroken
    /\ \A i \in 1 .. 2 : tls.frees[i] > 1 => Nested
    /\ cache.frees > 0 => cache.readers = {}

\* A shutdown that has freed the context, under a thread that uses one.
ContextGone ==
    /\ \E t \in Threads : frame[t] = <<>> /\ pc[t] \in {"ssl"} \cup Range(CERT) \cup Range(KEY)
    /\ \E t \in Threads : frame[t] # <<>> /\ Head(frame[t]) \in {"null", "exit"}

\* The process falls for one of these causes only: by SIGPIPE on a connection
\* that its client has reset, or as a daemon that could open no log at all; by
\* a bad access through one of the two double frees above, or through the
\* context, freed by a shutdown while a handshake or the boot still uses it.
CrashHasCause ==
    /\ gone = "pipe" => \/ \E w \in Workers : frame[w] = <<>> /\ pc[w] \in Writing
                        \/ UseDaemon(given.args) /\ proc.log = "none"
    /\ gone = "crash" => Nested \/ SwapBroken \/ ContextGone

\* A shutdown that waits for what its own thread holds or stands in, or for
\* answers that are being sent.
Stuck ==
    \/ \E t \in Threads :
          \/ In(t, "lock") /\ pool.mutex = t
          \/ In(t, "cond") /\ t \in InCondWait
    \/ cache.readers # {}

\* Every shutdown ends the process, whatever the other threads, further
\* signals and the boot are doing, unless it remains stuck in one of these
\* ways for good.
ShutdownEnds == (Stopping ~> gone # "no") \/ <>[]Stuck

\* A certificate that is there when the program is started is found.
CertificateFound ==
    pc[Main] = "cert1" /\ gone = "1" => Locate(Certificate, "start") \notin Present

=============================================================================

--------------------------- MODULE LifecycleProofs ---------------------------
(***************************************************************************)
(* Theorems about module Lifecycle: for any number of workers, any way of  *)
(* starting the program, any interleaving of boot, service and up to two   *)
(* signals on any threads.                                                 *)
(***************************************************************************)
EXTENDS Lifecycle, ConfigProofs

-----------------------------------------------------------------------------
(* The inductive invariant. *)

Contexts == {"none", "new", "cert", "ready", "freed"}
Fds      == {"tty", "free", "null", "log", "server"}

\* The variables, field by field.
ProcFields  == {"cwd", "leader", "session", "log", "fd", "port", "listening", "published"}
TlsFields   == {"ctx", "global", "cap", "frees"}
PoolFields  == {"shutdown", "mutex", "destroyed", "queue", "conns"}
CacheFields == {"loaded", "readers", "writer", "frees"}

ProcOK ==
    /\ DOMAIN proc = ProcFields
    /\ proc.cwd \in {"start", "root"} /\ proc.log \in {"none", "start", "tmp"}
    /\ proc.fd \in [0 .. 2 -> Fds] /\ proc.port \in Nat /\ proc.port <= MaxPort

TlsOK ==
    /\ DOMAIN tls = TlsFields
    /\ tls.ctx \in [1 .. 2 -> Contexts] /\ tls.global \in 0 .. 2
    /\ tls.cap \in [Workers -> 0 .. 2] /\ tls.frees \in [1 .. 2 -> Nat]

PoolOK ==
    /\ DOMAIN pool = PoolFields
    /\ pool.mutex \in Threads \cup {NULL} /\ pool.queue \in Nat
    /\ pool.conns \in 0 .. MaxConnections

CacheOK ==
    /\ DOMAIN cache = CacheFields
    /\ cache.readers \in SUBSET Workers /\ cache.writer \in Threads \cup {NULL}
    /\ cache.frees \in Nat

Places ==
    /\ pc \in [Threads -> MainPc \cup WorkerPc] /\ pc[Main] \in MainPc
    /\ \A w \in Workers : pc[w] \in WorkerPc

ConfigOK == DOMAIN config = DOMAIN Zeroed /\ config.port \in Int

Records ==
    /\ given \in Launches /\ ConfigOK
    /\ ProcOK /\ TlsOK /\ PoolOK /\ CacheOK
    /\ Places /\ frame \in [Threads -> Seq(FramePc)]
    /\ signals \in 0 .. 2 /\ gone \in {"no", "0", "1", "crash", "pipe"}

\* Every connection in the queue, and the one that is being pushed, has been
\* accepted.
Queued == pool.queue + (IF pc[Main] \in {"push", "hold"} THEN 1 ELSE 0) <= pool.conns

\* main()'s positions, backwards.
FromPublish == {"publish", "accept", "push", "hold", "return"}
FromCert2   == FromPublish \cup {"cert2", "key2"}
FromNew2    == FromCert2 \cup {"new2"}
FromPool    == FromNew2 \cup {"pool", "spawn", "socket"}
FromCert1   == FromPool \cup {"cert1", "key1"}
FromNew1    == FromCert1 \cup {"new1", "failed"}
FromLog     == FromNew1 \cup {"log"}
FromStreams == FromLog \cup {"streams"}
FromChdir   == FromStreams \cup {"chdir"}
FromFork2   == FromChdir \cup {"fork2"}
FromFork1   == FromFork2 \cup {"fork1", "setsid"}

\* What the configuration is, and the port that is bound.
Configured ==
    /\ pc[Main] = "args" => config = LoadConfig(given.file)
    /\ pc[Main] \in FromFork1 =>
          config = Effective(LoadConfig(given.file), given.args, given.startLen)
    /\ pc[Main] \in FromNew2 => proc.port = Htons(config.port)

IsDaemon == UseDaemon(given.args)

\* The way into the background: each call leaves its mark for good.
Daemonised ==
    /\ pc[Main] \in FromFork1 \ FromNew1 => IsDaemon
    /\ ~IsDaemon \/ pc[Main] \notin FromFork1 =>
          proc.cwd = "start" /\ \A n \in 0 .. 2 : proc.fd[n] = "tty"
    /\ IsDaemon =>
          /\ pc[Main] \in FromFork2   => proc.session = "own"
          /\ pc[Main] \in FromChdir   => ~proc.leader
          /\ pc[Main] \in FromStreams => proc.cwd = "root"
          /\ pc[Main] \in FromLog     => proc.fd[0] = "null"
          /\ pc[Main] \in FromNew1 /\ proc.log # "none" => proc.fd[1] = "log" /\ proc.fd[2] = "log"
    /\ proc.fd[1] = "server" => IsDaemon /\ proc.log = "none"

\* Positions of a worker that has a connection.
Busy == {"taken", "peek", "ssl", "get", "reload", "swap", "send"}

\* The workers: none before the pool, none busy before the server listens.
Employed ==
    /\ pc[Main] \notin FromPool \cup {"failed"} => \A w \in Workers : pc[w] = "unborn"
    /\ pc[Main] = "pool" => \A w \in Workers : pc[w] = "unborn"
    /\ pool.queue > 0 => Serving
    /\ \A w \in Workers : pc[w] \in Busy => Serving

\* The two contexts, and what the workers have found in global_ssl_ctx.
Contextual ==
    /\ pc[Main] \in FromCert1 \ FromCert2 => tls.global \in {0, 1}
    /\ pc[Main] \in FromCert2 => tls.global \in {0, 2}
    /\ pc[Main] \in FromCert1 /\ tls.global = 0 => pool.shutdown
    /\ pc[Main] \in FromPool \cup {"failed"} => tls.ctx[1] \in {"ready", "freed"}
    /\ pc[Main] \in FromPublish => tls.ctx[2] \in {"ready", "freed"}
    /\ \A w \in Workers : tls.cap[w] = 0 =>
          /\ pc[w] \notin Busy
          /\ pc[w] \in {"pop", "check", "wait", "relock"} => pool.shutdown \/ pc[Main] = "failed"

\* Positions of a shutdown sequence.
PastSet   == {"mutex", "cond", "cache", "ctx", "null", "exit"}
PastCache == {"ctx", "null", "exit"}

Top(t, P) == frame[t] # <<>> /\ Head(frame[t]) \in P

\* What shows that a shutdown has begun, and how far it is.
Marked ==
    /\ \A t \in Threads : Top(t, PastSet) => pool.shutdown
    /\ pool.shutdown => Stopping
    /\ \A i \in 1 .. 2 : tls.ctx[i] = "freed" => Stopping /\ tls.frees[i] > 0

\* The write lock: who reloads has it, and who frees the contents keeps it
\* until none of them is left free.
Locked ==
    /\ \A w \in Workers : pc[w] \in {"reload", "swap"} => cache.writer = w
    /\ \A t \in Threads : Top(t, PastCache) => cache.writer = t
    /\ cache.writer # NULL => cache.readers = {}
    /\ cache.frees > 0 => /\ cache.writer # NULL
                          /\ frame[cache.writer] # <<>> \/ pc[cache.writer] = "swap"

Single == \A t \in Threads : Len(frame[t]) <= 1

\* While no handler has interrupted a shutdown on its own thread: what has been
\* freed shows in how far the owner of the write lock is, and so does a global
\* context that was set to NULL after the boot had made it.
Counted == Single =>
    /\ ~SwapBroken => cache.frees <= 1
    /\ \A i \in 1 .. 2 : tls.frees[i] <= 1
    /\ gone = "no" /\ cache.frees > 0 =>
          Top(cache.writer, PastCache) \/ pc[cache.writer] = "swap"
    /\ gone = "no" =>
         \A i \in 1 .. 2 : tls.frees[i] > 0 =>
             cache.writer # NULL /\ Top(cache.writer, {"null", "exit"})
    /\ gone = "no" /\ pc[Main] \in FromCert1 /\ tls.global = 0 =>
          \E t \in Threads : Top(t, {"null", "exit"})

LifecycleInv ==
    /\ Records /\ Queued /\ Configured /\ Daemonised /\ Employed /\ Contextual
    /\ Marked /\ Locked /\ Counted /\ CrashHasCause

-----------------------------------------------------------------------------
(* Names of positions; frames. *)

\* main()'s positions, one by one.
LEMMA Positions ==
    /\ NEWCTX[1] = "new1" /\ CERT[1] = "cert1" /\ KEY[1] = "key1"
    /\ NEWCTX[2] = "new2" /\ CERT[2] = "cert2" /\ KEY[2] = "key2"
    /\ MainPc = FromFork1 \cup {"command", "getcwd", "load", "args"}
    /\ MainPc \cap Busy = {} /\ "wait" \notin MainPc
<1>1. Range(NEWCTX) = {"new1", "new2"} /\ Range(CERT) = {"cert1", "cert2"}
      /\ Range(KEY) = {"key1", "key2"}
  BY DEF Range, NEWCTX, CERT, KEY
<1>2. MainPc = FromFork1 \cup {"command", "getcwd", "load", "args"}
  BY <1>1 DEF MainPc, FromFork1, FromFork2, FromChdir, FromStreams, FromLog, FromNew1, FromCert1,
              FromPool, FromNew2, FromCert2, FromPublish
<1>3. QED
  BY <1>1, <1>2 DEF NEWCTX, CERT, KEY, MainPc, Busy

\* A handler that is put on top of a thread.
LEMMA Pushed ==
    ASSUME NEW s \in Seq(FramePc), NEW l \in FramePc
    PROVE  /\ <<l>> \o s \in Seq(FramePc) /\ Len(<<l>> \o s) = Len(s) + 1
           /\ <<l>> \o s # <<>> /\ Head(<<l>> \o s) = l
<1>1. <<l>> \in Seq(FramePc) /\ Len(<<l>>) = 1 /\ <<l>>[1] = l
  OBVIOUS
<1>2. PICK u \in Seq(FramePc) : u = <<l>>
  BY <1>1
<1>3. /\ u \o s \in Seq(FramePc) /\ Len(u \o s) = Len(u) + Len(s)
      /\ \A i \in 1 .. Len(u) + Len(s) : (u \o s)[i] = IF i <= Len(u) THEN u[i] ELSE s[i - Len(u)]
  OBVIOUS
<1>4. Len(u \o s) = Len(s) + 1 /\ (u \o s)[1] = l
  BY <1>1, <1>2, <1>3
<1>5. PICK v \in Seq(FramePc) : v = u \o s
  BY <1>3
<1>6. v # <<>> /\ Head(v) = v[1]
  BY <1>4, <1>5
<1>7. QED
  BY <1>2, <1>4, <1>5, <1>6

\* A step of a shutdown: the innermost sequence goes on, nothing else changes.
LEMMA ThenEffect ==
    ASSUME Records, NEW t \in Threads, NEW l \in FramePc, frame[t] # <<>>, Then(t, l)
    PROVE  /\ frame' \in [Threads -> Seq(FramePc)]
           /\ frame'[t] # <<>> /\ Head(frame'[t]) = l /\ Len(frame'[t]) = Len(frame[t])
           /\ \A u \in Threads \ {t} : frame'[u] = frame[u]
<1>1. frame \in [Threads -> Seq(FramePc)]
  BY DEF Records
<1>2. PICK r \in Seq(FramePc) : r = Tail(frame[t]) /\ Len(r) = Len(frame[t]) - 1
  <2>1. PICK f \in Seq(FramePc) : f = frame[t]
    BY <1>1
  <2>2. f # <<>>
    BY <2>1
  <2>3. Tail(f) \in Seq(FramePc) /\ Len(Tail(f)) = Len(f) - 1
    BY <2>2
  <2>4. QED
    BY <2>1, <2>3
<1>3. PICK n \in Seq(FramePc) :
        n = <<l>> \o r /\ Len(n) = Len(r) + 1 /\ n # <<>> /\ Head(n) = l
  BY Pushed
<1>4. frame' = [frame EXCEPT ![t] = n]
  BY <1>2, <1>3 DEF Then
<1>5. Len(frame[t]) \in Nat
  BY <1>1
<1>6. QED
  BY <1>1, <1>2, <1>3, <1>4, <1>5

\* Where handle_sigint and the failed boot put a sequence.
LEMMA PushEffect ==
    ASSUME Records, NEW t \in Threads, frame' = [frame EXCEPT ![t] = <<"lock">> \o @]
    PROVE  /\ frame' \in [Threads -> Seq(FramePc)]
           /\ frame'[t] # <<>> /\ Head(frame'[t]) = "lock" /\ Len(frame'[t]) = Len(frame[t]) + 1
           /\ \A u \in Threads \ {t} : frame'[u] = frame[u]
<1>1. frame \in [Threads -> Seq(FramePc)] /\ "lock" \in FramePc
  BY DEF Records, FramePc
<1>2. PICK n \in Seq(FramePc) :
        n = <<"lock">> \o frame[t] /\ Len(n) = Len(frame[t]) + 1 /\ n # <<>> /\ Head(n) = "lock"
  BY <1>1, Pushed
<1>3. frame' = [frame EXCEPT ![t] = n]
  BY <1>2
<1>4. QED
  BY <1>1, <1>2, <1>3

\* The sequence of a failed boot.
LEMMA FailEffect ==
    ASSUME Records, frame' = [frame EXCEPT ![Main] = <<"lock">>], frame[Main] = <<>>
    PROVE  /\ frame' \in [Threads -> Seq(FramePc)]
           /\ frame'[Main] # <<>> /\ Head(frame'[Main]) = "lock" /\ Len(frame'[Main]) = 1
           /\ \A u \in Threads \ {Main} : frame'[u] = frame[u]
<1>1. frame \in [Threads -> Seq(FramePc)] /\ <<"lock">> \in Seq(FramePc) /\ Main \in Threads
  BY DEF Records, FramePc, Threads
<1>2. <<"lock">> # <<>> /\ Head(<<"lock">>) = "lock" /\ Len(<<"lock">>) = 1
  OBVIOUS
<1>3. QED
  BY <1>1, <1>2

-----------------------------------------------------------------------------
(* Types. *)

\* A step of main() from one of its positions to another.
LEMMA GotoMain ==
    ASSUME Places, NEW l \in MainPc, Goto(Main, l)
    PROVE  Places' /\ pc'[Main] = l /\ \A w \in Workers : pc'[w] = pc[w]
<1>1. Main \in Threads /\ \A w \in Workers : w # Main /\ w \in Threads
  BY LifecycleAssumption DEF Threads
<1>2. QED
  BY <1>1 DEF Places, Goto

\* A step of a worker.
LEMMA GotoWorker ==
    ASSUME Places, NEW w \in Workers, NEW l \in WorkerPc, Goto(w, l)
    PROVE  /\ Places' /\ pc'[w] = l /\ pc'[Main] = pc[Main]
           /\ \A v \in Workers \ {w} : pc'[v] = pc[v]
<1>1. w # Main /\ Main \in Threads /\ w \in Threads /\ Workers \subseteq Threads
  BY LifecycleAssumption DEF Threads
<1>2. QED
  BY <1>1 DEF Places, Goto

\* The lowest free descriptor.
LEMMA OccupyType ==
    ASSUME NEW fd \in [0 .. 2 -> Fds]
    PROVE  /\ Occupy(fd, "server") \in [0 .. 2 -> Fds]
           /\ \A n \in 0 .. 2 : fd[n] # "free" => Occupy(fd, "server")[n] = fd[n]
           /\ \A n \in 0 .. 2 : Occupy(fd, "server")[n] \in {fd[n], "server"}
<1> DEFINE free == {n \in DOMAIN fd : fd[n] = "free"}
<1>1. CASE free = {}
  BY <1>1 DEF Occupy
<1>2. CASE free # {}
  <2>1. free \subseteq Nat
    OBVIOUS
  <2> HIDE DEF free
  <2>2. \E x \in free : \A y \in free : x <= y
    BY <1>2, <2>1, LeastNumber
  <2>3. Min(free) \in free
    BY <2>2 DEF Min
  <2>4. PICK m \in free : m = Min(free)
    BY <2>3
  <2>5. Occupy(fd, "server") = [fd EXCEPT ![m] = "server"]
    BY <1>2, <2>4 DEF Occupy, free
  <2>6. m \in 0 .. 2 /\ fd[m] = "free" /\ "server" \in Fds
    BY DEF free, Fds
  <2>7. QED
    BY <2>5, <2>6
<1>3. QED
  BY <1>1, <1>2

\* The process.
LEMMA ProcStep ==
    ASSUME Records, [Next]_vars
    PROVE  ProcOK'
<1>1. ProcOK /\ DOMAIN proc = ProcFields /\ config.port \in Int
  BY DEF Records, ConfigOK, ProcOK
<1> DEFINE Same == proc'.cwd = proc.cwd /\ proc'.log = proc.log /\ proc'.port = proc.port
<1>2. ASSUME DOMAIN proc' = ProcFields, Same, proc'.fd = proc.fd PROVE ProcOK'
  BY <1>1, <1>2 DEF ProcOK
<1>3. CASE Fork("fork1", "setsid") \/ SecondFork
  <2>1. proc' = [proc EXCEPT !.leader = @ /\ gone' # "no"]
    BY <1>3 DEF Fork, SecondFork
  <2>2. DOMAIN proc' = ProcFields /\ Same /\ proc'.fd = proc.fd
    BY <1>1, <2>1 DEF ProcFields
  <2>3. QED
    BY <1>2, <2>2
<1>4. CASE SetSid
  <2>1. DOMAIN proc' = ProcFields /\ Same /\ proc'.fd = proc.fd
    BY <1>1, <1>4 DEF ProcFields, SetSid
  <2>2. QED
    BY <1>2, <2>1
<1>5. CASE Publish
  <2>1. DOMAIN proc' = ProcFields /\ Same /\ proc'.fd = proc.fd
    BY <1>1, <1>5 DEF ProcFields, Publish
  <2>2. QED
    BY <1>2, <2>1
<1>6. CASE Chdir
  <2>1. /\ DOMAIN proc' = ProcFields /\ proc'.log = proc.log /\ proc'.port = proc.port
        /\ proc'.fd = proc.fd /\ proc'.cwd \in {proc.cwd, "root"}
    BY <1>1, <1>6 DEF ProcFields, Chdir
  <2>2. QED
    BY <1>1, <2>1 DEF ProcOK
<1>7. CASE Streams
  <2>1. /\ DOMAIN proc' = ProcFields /\ Same
        /\ proc'.fd = [n \in 0 .. 2 |-> IF n = 0 /\ gone' = "no" THEN "null" ELSE "free"]
    BY <1>1, <1>7 DEF ProcFields, Streams
  <2>2. proc'.fd \in [0 .. 2 -> Fds]
    BY <2>1 DEF Fds
  <2>3. QED
    BY <1>1, <2>1, <2>2 DEF ProcOK
<1>8. CASE OpenLog
  <2>1. PICK log \in {"start", "tmp", "none"} :
          proc' = [proc EXCEPT !.log = log,
                               !.fd = IF log = "none" THEN @
                                      ELSE [@ EXCEPT ![1] = "log", ![2] = "log"]]
    BY <1>8 DEF OpenLog
  <2>2. /\ DOMAIN proc' = ProcFields /\ proc'.cwd = proc.cwd /\ proc'.port = proc.port
        /\ proc'.log = log
        /\ proc'.fd = IF log = "none" THEN proc.fd ELSE [proc.fd EXCEPT ![1] = "log", ![2] = "log"]
    BY <1>1, <2>1 DEF ProcFields
  <2>3. proc'.fd \in [0 .. 2 -> Fds]
    BY <1>1, <2>2 DEF ProcOK, Fds
  <2>4. QED
    BY <1>1, <2>2, <2>3 DEF ProcOK
<1>9. ASSUME NEW i \in 1 .. 2, Abort(i) PROVE ProcOK'
  <2>1. DOMAIN proc' = ProcFields /\ Same /\ proc'.fd = proc.fd
    BY <1>1, <1>9 DEF ProcFields, Abort
  <2>2. QED
    BY <1>2, <2>1
<1>10. CASE Socket
  <2>1. CASE Abort(2)
    BY <1>9, <2>1
  <2>2. CASE proc' = [proc EXCEPT !.fd = Occupy(@, "server"), !.listening = TRUE,
                                  !.port = Htons(config.port)]
    <3>1. /\ DOMAIN proc' = ProcFields /\ proc'.log = proc.log /\ proc'.cwd = proc.cwd
          /\ proc'.fd = Occupy(proc.fd, "server") /\ proc'.port = Htons(config.port)
      BY <1>1, <2>2 DEF ProcFields
    <3>2. Htons(config.port) \in Nat /\ Htons(config.port) <= MaxPort
      BY <1>1 DEF Htons, MaxPort
    <3>3. Occupy(proc.fd, "server") \in [0 .. 2 -> Fds]
      BY <1>1, OccupyType DEF ProcOK
    <3>4. QED
      BY <1>1, <3>1, <3>2, <3>3 DEF ProcOK
  <2>3. QED
    BY <1>10, <2>1, <2>2 DEF Socket
<1>11. ASSUME NEW t \in Threads, Signal(t) PROVE ProcOK'
  <2>1. DOMAIN proc' = ProcFields /\ Same /\ proc'.fd = proc.fd
    BY <1>1, <1>11 DEF ProcFields, Signal
  <2>2. QED
    BY <1>2, <2>1
<1>12. ASSUME proc' = proc PROVE ProcOK'
  BY <1>1, <1>2, <1>12
<1>13. ASSUME NEW i \in 1 .. 2, NewContext(i) \/ UseCertificate(i) \/ UseKey(i) PROVE ProcOK'
  <2>1. Abort(i) \/ proc' = proc
    BY <1>13 DEF NewContext, UseCertificate, UseKey, UseFile
  <2>2. QED
    BY <1>9, <1>12, <2>1
<1>14. CASE Command \/ GetCwd \/ Load \/ Args \/ InitPool \/ Spawn \/ SpawnEnd \/ AcceptBreak
            \/ Return \/ PushLock \/ PushEnd \/ Accept \/ LogToServer \/ Gone \/ UNCHANGED vars
  <2>1. proc' = proc
    BY <1>14 DEF Command, GetCwd, Load, Args, InitPool, Spawn, SpawnEnd, AcceptBreak, Return,
                 PushLock, PushEnd, Accept, LogToServer, Gone, vars
  <2>2. QED
    BY <1>12, <2>1
<1>15. ASSUME NEW w \in Workers, WorkerStep(w) \/ SpuriousWakeup(w) \/ Sent(w) \/ BrokenPipe(w)
       PROVE  proc' = proc
  BY <1>15 DEF WorkerStep, Start, PopLock, PopEnd, Serve, Peek, SslNew, ReadLock, ReloadLock,
               ReloadFree, ReloadEnd, NoLock, SpuriousWakeup, Sent, BrokenPipe
<1>16. ASSUME NEW t \in Threads, ShutdownStep(t) PROVE proc' = proc
  BY <1>16 DEF ShutdownStep, ShutdownLock, ShutdownSet, MutexDestroy, CondDestroy, CacheDestroy,
               FreeContext, NoContext, ClearContext, Exit, Go
<1>17. QED
  BY <1>3, <1>4, <1>5, <1>6, <1>7, <1>8, <1>10, <1>11, <1>12, <1>13, <1>14, <1>15, <1>16
     DEF Next, MainStep, Environment

\* The contexts.
LEMMA TlsStep ==
    ASSUME Records, [Next]_vars
    PROVE  TlsOK'
<1>1. TlsOK /\ DOMAIN tls = TlsFields
  BY DEF Records, TlsOK
<1>2. ASSUME tls' = tls PROVE TlsOK'
  BY <1>1, <1>2 DEF TlsOK
<1>3. ASSUME NEW i \in 1 .. 2, NewContext(i) PROVE TlsOK'
  <2>1. CASE tls' = [tls EXCEPT !.ctx[i] = "new", !.global = i]
    BY <1>1, <2>1 DEF TlsOK, TlsFields, Contexts
  <2>2. CASE tls' = [tls EXCEPT !.global = 0]
    BY <1>1, <2>2 DEF TlsOK, TlsFields
  <2>3. QED
    BY <1>3, <2>1, <2>2 DEF NewContext
<1>4. ASSUME NEW i \in 1 .. 2, NEW l, NEW found, NEW loaded \in Contexts, NEW next,
             UseFile(i, l, found, loaded, next)
      PROVE TlsOK'
  <2>1. CASE tls' = tls
    BY <1>2, <2>1
  <2>2. CASE /\ tls.global # 0
             /\ tls' = [tls EXCEPT !.ctx[tls.global] = IF @ = "freed" THEN @ ELSE loaded]
    BY <1>1, <2>2 DEF TlsOK, TlsFields, Contexts
  <2>3. QED
    BY <1>4, <2>1, <2>2 DEF UseFile
<1>5. ASSUME NEW i \in 1 .. 2, UseCertificate(i) \/ UseKey(i) PROVE TlsOK'
  <2>1. "cert" \in Contexts /\ "ready" \in Contexts
    BY DEF Contexts
  <2>2. QED
    BY <1>4, <1>5, <2>1 DEF UseCertificate, UseKey
<1>6. ASSUME NEW w \in Workers, Start(w) PROVE TlsOK'
  BY <1>1, <1>6 DEF Start, TlsOK, TlsFields
<1>7. ASSUME NEW t \in Threads, FreeContext(t) PROVE TlsOK'
  BY <1>1, <1>7 DEF FreeContext, TlsOK, TlsFields, Contexts
<1>8. ASSUME NEW t \in Threads, ClearContext(t) PROVE TlsOK'
  BY <1>1, <1>8 DEF ClearContext, TlsOK, TlsFields
<1>9. CASE Command \/ GetCwd \/ Load \/ Args \/ Fork("fork1", "setsid") \/ SetSid \/ SecondFork
           \/ Chdir \/ Streams \/ OpenLog \/ InitPool \/ Spawn \/ SpawnEnd
  BY <1>2, <1>9 DEF Command, GetCwd, Load, Args, Fork, SetSid, SecondFork, Chdir, Streams, OpenLog,
                    InitPool, Spawn, SpawnEnd
<1>10. CASE Socket \/ Publish \/ AcceptBreak \/ Return \/ PushLock \/ PushEnd \/ Accept
            \/ LogToServer \/ Gone \/ UNCHANGED vars
  BY <1>2, <1>10 DEF Socket, Publish, AcceptBreak, Return, PushLock, PushEnd, Accept, LogToServer,
                     Gone, vars
<1>11. ASSUME NEW w \in Workers, WorkerStep(w) \/ SpuriousWakeup(w) \/ Sent(w) \/ BrokenPipe(w)
       PROVE  tls' = tls \/ Start(w)
  BY <1>11 DEF WorkerStep, PopLock, PopEnd, Serve, Peek, SslNew, ReadLock, ReloadLock,
               ReloadFree, ReloadEnd, NoLock, SpuriousWakeup, Sent, BrokenPipe
<1>12. ASSUME NEW t \in Threads, ShutdownStep(t) \/ Signal(t)
       PROVE  tls' = tls \/ FreeContext(t) \/ ClearContext(t)
  BY <1>12 DEF ShutdownStep, ShutdownLock, ShutdownSet, MutexDestroy, CondDestroy, CacheDestroy,
               NoContext, Exit, Signal
<1>13. QED
  BY <1>2, <1>3, <1>5, <1>6, <1>7, <1>8, <1>9, <1>10, <1>11, <1>12
     DEF Next, MainStep, Environment

\* The cache.
LEMMA CacheStep ==
    ASSUME Records, [Next]_vars
    PROVE  CacheOK'
<1>1. CacheOK /\ DOMAIN cache = CacheFields
  BY DEF Records, CacheOK
<1>2. ASSUME cache' = cache PROVE CacheOK'
  BY <1>1, <1>2 DEF CacheOK
<1>3. CASE InitPool
  BY <1>1, <1>3 DEF InitPool, CacheOK, CacheFields
<1>4. ASSUME NEW w \in Workers,
             ReadLock(w) \/ ReloadLock(w) \/ ReloadFree(w) \/ ReloadEnd(w) \/ Sent(w)
      PROVE  CacheOK'
  <2>1. w \in Threads
    BY DEF Threads
  <2>2. CASE ReadLock(w)
    BY <1>1, <2>2 DEF ReadLock, CacheOK, CacheFields
  <2>3. CASE ReloadLock(w)
    BY <1>1, <2>1, <2>3 DEF ReloadLock, CacheOK, CacheFields
  <2>4. CASE ReloadEnd(w)
    BY <1>1, <2>4 DEF ReloadEnd, CacheOK, CacheFields
  <2>5. CASE Sent(w)
    BY <1>1, <2>5 DEF Sent, CacheOK, CacheFields
  <2>6. CASE ReloadFree(w)
    BY <1>1, <2>6 DEF ReloadFree, CacheOK, CacheFields
  <2>7. QED
    BY <1>4, <2>2, <2>3, <2>4, <2>5, <2>6
<1>5. ASSUME NEW t \in Threads, CacheDestroy(t) PROVE CacheOK'
  BY <1>1, <1>5 DEF CacheDestroy, KeptBy, CacheOK, CacheFields
<1>6. CASE Command \/ GetCwd \/ Load \/ Args \/ Fork("fork1", "setsid") \/ SetSid \/ SecondFork
           \/ Chdir \/ Streams \/ OpenLog \/ Spawn \/ SpawnEnd
  BY <1>2, <1>6 DEF Command, GetCwd, Load, Args, Fork, SetSid, SecondFork, Chdir, Streams, OpenLog,
                    Spawn, SpawnEnd
<1>7. CASE Socket \/ Publish \/ AcceptBreak \/ Return \/ PushLock \/ PushEnd \/ Accept
           \/ LogToServer \/ Gone \/ UNCHANGED vars
  BY <1>2, <1>7 DEF Socket, Publish, AcceptBreak, Return, PushLock, PushEnd, Accept, LogToServer,
                    Gone, vars
<1>8. ASSUME NEW i \in 1 .. 2, NewContext(i) \/ UseCertificate(i) \/ UseKey(i) PROVE cache' = cache
  BY <1>8 DEF NewContext, UseCertificate, UseKey, UseFile
<1>9. ASSUME NEW w \in Workers, WorkerStep(w) \/ SpuriousWakeup(w) \/ BrokenPipe(w)
      PROVE  cache' = cache \/ ReadLock(w) \/ ReloadLock(w) \/ ReloadFree(w) \/ ReloadEnd(w)
  BY <1>9 DEF WorkerStep, Start, PopLock, PopEnd, Serve, Peek, SslNew, NoLock, SpuriousWakeup,
              BrokenPipe
<1>10. ASSUME NEW t \in Threads, ShutdownStep(t) \/ Signal(t)
       PROVE  cache' = cache \/ CacheDestroy(t)
  BY <1>10 DEF ShutdownStep, ShutdownLock, ShutdownSet, MutexDestroy, CondDestroy, FreeContext,
               NoContext, ClearContext, Exit, Signal
<1>11. QED
  BY <1>2, <1>3, <1>4, <1>5, <1>6, <1>7, <1>8, <1>9, <1>10 DEF Next, MainStep, Environment

\* main() moves only by its own steps.
LEMMA MainPlaces ==
    ASSUME Places, MainStep \/ Accept
    PROVE  Places'
<1>1. Main \in Threads /\ Workers \subseteq Threads /\ Main \notin Workers
  BY LifecycleAssumption DEF Threads
<1>2. ASSUME pc' = pc PROVE Places'
  BY <1>2 DEF Places
<1>3. ASSUME NEW l \in MainPc, Goto(Main, l) PROVE Places'
  BY <1>3, GotoMain
<1>4. {"getcwd", "load", "args", "fork1", "new1", "setsid", "fork2", "chdir", "streams", "log",
       "pool", "spawn", "socket", "new2", "publish", "accept", "push", "hold", "return",
       "failed"} \subseteq MainPc
  BY Positions DEF FromFork1, FromFork2, FromChdir, FromStreams, FromLog, FromNew1, FromCert1,
                   FromPool, FromNew2, FromCert2, FromPublish
<1>5. CASE Command \/ GetCwd \/ Load \/ Args
  BY <1>2, <1>3, <1>4, <1>5 DEF Command, End, GetCwd, Call, Load, Args, Step
<1>6. CASE Fork("fork1", "setsid") \/ SetSid \/ SecondFork \/ Chdir \/ Streams \/ OpenLog
  BY <1>2, <1>3, <1>4, <1>6 DEF Fork, SetSid, SecondFork, Chdir, Streams, OpenLog, Call, Step, End
<1>7. ASSUME NEW i \in 1 .. 2, Abort(i) PROVE Places'
  BY <1>2, <1>3, <1>4, <1>7 DEF Abort, End
<1>8. ASSUME NEW i \in 1 .. 2 PROVE CERT[i] \in MainPc /\ KEY[i] \in MainPc
  BY Positions DEF FromFork1, FromFork2, FromChdir, FromStreams, FromLog, FromNew1, FromCert1,
                   FromPool, FromNew2, FromCert2
<1>9. ASSUME NEW i \in 1 .. 2, NEW l, NEW found, NEW loaded, NEW next \in MainPc,
             UseFile(i, l, found, loaded, next)
      PROVE  Places'
  BY <1>2, <1>3, <1>7, <1>9 DEF UseFile, End
<1>10. ASSUME NEW i \in 1 .. 2, NewContext(i) \/ UseCertificate(i) \/ UseKey(i) PROVE Places'
  <2>1. CASE NewContext(i)
    BY <1>3, <1>7, <1>8, <2>1 DEF NewContext
  <2>2. CASE UseCertificate(i)
    BY <1>8, <1>9, <2>2 DEF UseCertificate
  <2>3. CASE UseKey(i)
    <3>1. (IF i = 1 THEN "pool" ELSE "publish") \in MainPc
      BY <1>4
    <3>2. QED
      BY <1>9, <2>3, <3>1 DEF UseKey
  <2>4. QED
    BY <1>10, <2>1, <2>2, <2>3
<1>11. CASE InitPool \/ SpawnEnd \/ Publish \/ Accept \/ AcceptBreak \/ Return \/ PushLock
  BY <1>2, <1>3, <1>4, <1>11 DEF InitPool, SpawnEnd, Publish, Accept, AcceptBreak, Return, PushLock,
                                 Step, End
<1>12. CASE Socket
  BY <1>3, <1>4, <1>7, <1>12 DEF Socket
<1>13. CASE Spawn
  <2>1. PICK w \in Unborn, l \in {"new", "uncreated"} : Goto(w, l)
    BY <1>13 DEF Spawn
  <2>2. w \in Workers /\ l \in WorkerPc
    BY DEF Unborn, WorkerPc
  <2>3. QED
    BY <2>1, <2>2, GotoWorker
<1>14. CASE PushEnd
  <2>1. PICK w \in Waiting \cup {Main} : pc' = [pc EXCEPT ![w] = "relock", ![Main] = "accept"]
    BY <1>14 DEF PushEnd
  <2>2. w \in Threads /\ "relock" \in WorkerPc
    BY <1>1 DEF Waiting, WorkerPc
  <2>3. QED
    BY <1>1, <1>4, <2>1, <2>2 DEF Places
<1>15. QED
  BY <1>5, <1>6, <1>10, <1>11, <1>12, <1>13, <1>14 DEF MainStep

\* Nobody else moves it.
LEMMA OtherPlaces ==
    ASSUME Places, ~MainStep, ~Accept, [Next]_vars
    PROVE  Places' /\ pc'[Main] = pc[Main]
<1>1. Main \in Threads /\ Workers \subseteq Threads /\ Main \notin Workers
  BY LifecycleAssumption DEF Threads
<1>2. ASSUME pc' = pc PROVE Places' /\ pc'[Main] = pc[Main]
  BY <1>2 DEF Places
<1>3. ASSUME NEW w \in Workers, NEW l \in WorkerPc, Goto(w, l)
      PROVE  Places' /\ pc'[Main] = pc[Main]
  BY <1>3, GotoWorker
<1>4. WorkerPc = {"unborn", "uncreated", "new", "pop", "check", "wait", "relock", "taken", "peek",
                  "ssl", "get", "reload", "swap", "send", "exited"}
  BY DEF WorkerPc
<1>5. ASSUME NEW w \in Workers, WorkerStep(w) \/ SpuriousWakeup(w) \/ Sent(w) \/ BrokenPipe(w)
      PROVE  pc' = pc \/ \E l \in WorkerPc : Goto(w, l)
  <2>1. CASE Start(w) \/ PopLock(w) \/ PopEnd(w) \/ Serve(w) \/ Peek(w) \/ SslNew(w)
    BY <1>4, <2>1 DEF Start, PopLock, PopEnd, Serve, Peek, SslNew, Step, End
  <2>2. CASE ReadLock(w) \/ ReloadLock(w) \/ ReloadFree(w) \/ ReloadEnd(w) \/ NoLock(w)
             \/ SpuriousWakeup(w) \/ Sent(w) \/ BrokenPipe(w)
    BY <1>4, <2>2 DEF ReadLock, ReloadLock, ReloadFree, ReloadEnd, NoLock, SpuriousWakeup, Sent,
                      BrokenPipe, Step, End
  <2>3. QED
    BY <1>5, <2>1, <2>2 DEF WorkerStep
<1>6. ASSUME NEW t \in Threads, ShutdownStep(t) \/ Signal(t) PROVE pc' = pc \/ pc' = Broadcast
  BY <1>6 DEF ShutdownStep, ShutdownLock, ShutdownSet, MutexDestroy, CondDestroy, CacheDestroy,
              FreeContext, NoContext, ClearContext, Exit, Signal, End
<1>7. ASSUME pc' = Broadcast PROVE Places' /\ pc'[Main] = pc[Main]
  <2>1. pc[Main] # "wait"
    BY Positions DEF Places
  <2>2. QED
    BY <1>1, <1>4, <1>7, <2>1 DEF Places, Broadcast
<1>8. LogToServer \/ Gone \/ UNCHANGED vars => pc' = pc
  BY DEF LogToServer, End, Gone, vars
<1>9. QED
  BY <1>2, <1>3, <1>5, <1>6, <1>7, <1>8 DEF Next, Environment

\* Who changes the pool.
LEMMA PoolWriters ==
    ASSUME [Next]_vars
    PROVE  \/ pool' = pool \/ Accept \/ PushLock \/ PushEnd
           \/ \E w \in Workers : PopLock(w) \/ PopEnd(w)
           \/ \E t \in Threads : ShutdownLock(t) \/ ShutdownSet(t) \/ MutexDestroy(t)
<1>1. CASE Command \/ GetCwd \/ Load \/ Args \/ Fork("fork1", "setsid") \/ SetSid \/ SecondFork
           \/ Chdir \/ Streams \/ OpenLog \/ InitPool \/ Spawn \/ SpawnEnd
  BY <1>1 DEF Command, GetCwd, Load, Args, Fork, SetSid, SecondFork, Chdir, Streams, OpenLog,
              InitPool, Spawn, SpawnEnd
<1>2. CASE Socket \/ Publish \/ AcceptBreak \/ Return \/ LogToServer \/ Gone \/ UNCHANGED vars
  BY <1>2 DEF Socket, Publish, AcceptBreak, Return, LogToServer, Gone, vars
<1>3. ASSUME NEW i \in 1 .. 2, NewContext(i) \/ UseCertificate(i) \/ UseKey(i) PROVE pool' = pool
  BY <1>3 DEF NewContext, UseCertificate, UseKey, UseFile
<1>4. ASSUME NEW w \in Workers, WorkerStep(w) \/ SpuriousWakeup(w) \/ Sent(w) \/ BrokenPipe(w)
      PROVE  pool' = pool \/ PopLock(w) \/ PopEnd(w)
  BY <1>4 DEF WorkerStep, Start, Serve, Peek, SslNew, ReadLock, ReloadLock, ReloadFree,
              ReloadEnd, NoLock, SpuriousWakeup, Sent, BrokenPipe
<1>5. ASSUME NEW t \in Threads, ShutdownStep(t) \/ Signal(t)
      PROVE  pool' = pool \/ ShutdownLock(t) \/ ShutdownSet(t) \/ MutexDestroy(t)
  BY <1>5 DEF ShutdownStep, CondDestroy, CacheDestroy, FreeContext, NoContext, ClearContext, Exit,
              Signal
<1>6. QED
  BY <1>1, <1>2, <1>3, <1>4, <1>5 DEF Next, MainStep, Environment

\* main() is between accept and the queue only as long as it pushes.
LEMMA Pushing ==
    ASSUME Records, MainStep, ~PushLock
    PROVE  pc'[Main] = pc[Main] \/ pc'[Main] \notin {"push", "hold"}
<1> USE DEF Records
<1>1. ASSUME NEW l \in MainPc, Goto(Main, l) PROVE pc'[Main] = l
  BY <1>1, GotoMain
<1>2. ASSUME pc' = pc PROVE pc'[Main] = pc[Main]
  BY <1>2
<1> DEFINE Else == MainPc \ {"push", "hold"}
<1>3. /\ {"getcwd", "load", "args", "fork1", "new1", "setsid", "fork2", "chdir", "streams", "log",
          "pool", "spawn", "socket", "new2", "publish", "accept", "return", "failed"} \subseteq Else
      /\ \A i \in 1 .. 2 : CERT[i] \in Else /\ KEY[i] \in Else
  BY Positions DEF FromFork1, FromFork2, FromChdir, FromStreams, FromLog, FromNew1, FromCert1,
                   FromPool, FromNew2, FromCert2, FromPublish
<1>4. ASSUME \/ pc' = pc \/ \E l \in Else : Goto(Main, l)
      PROVE  pc'[Main] = pc[Main] \/ pc'[Main] \notin {"push", "hold"}
  BY <1>1, <1>2, <1>4
<1> HIDE DEF Else
<1>5. CASE Command \/ GetCwd \/ Load \/ Args
  BY <1>3, <1>4, <1>5 DEF Command, End, GetCwd, Call, Load, Args, Step
<1>6. CASE Fork("fork1", "setsid") \/ SetSid \/ SecondFork \/ Chdir \/ Streams \/ OpenLog
  BY <1>3, <1>4, <1>6 DEF Fork, SetSid, SecondFork, Chdir, Streams, OpenLog, Call, Step, End
<1>7. ASSUME NEW i \in 1 .. 2, NewContext(i) \/ UseCertificate(i) \/ UseKey(i)
      PROVE  pc' = pc \/ \E l \in Else : Goto(Main, l)
  BY <1>3, <1>7 DEF NewContext, UseCertificate, UseKey, UseFile, Abort, End
<1>8. CASE InitPool \/ SpawnEnd \/ Publish \/ AcceptBreak \/ Return \/ Socket
  BY <1>3, <1>4, <1>8 DEF InitPool, SpawnEnd, Publish, AcceptBreak, Return, Socket, Abort, Step, End
<1>9. CASE Spawn
  <2>1. PICK w \in Unborn, l \in {"new", "uncreated"} : Goto(w, l)
    BY <1>9 DEF Spawn
  <2>2. w \in Workers /\ l \in WorkerPc
    BY DEF Unborn, WorkerPc
  <2>3. QED
    BY <2>1, <2>2, GotoWorker
<1>10. CASE PushEnd
  <2>1. PICK w : pc' = [pc EXCEPT ![w] = "relock", ![Main] = "accept"]
    BY <1>10 DEF PushEnd
  <2>2. Main \in Threads /\ pc \in [Threads -> MainPc \cup WorkerPc]
    BY DEF Threads, Places
  <2>3. pc'[Main] = "accept"
    BY <2>1, <2>2
  <2>4. QED
    BY <2>3
<1>11. QED
  BY <1>4, <1>5, <1>6, <1>7, <1>8, <1>9, <1>10 DEF MainStep

\* The pool.
LEMMA PoolStep ==
    ASSUME Records, Queued, [Next]_vars
    PROVE  PoolOK' /\ Queued'
<1>1. /\ PoolOK /\ Places /\ DOMAIN pool = PoolFields /\ pool.queue \in Nat /\ pool.conns \in Nat
      /\ MaxConnections \in Nat
  BY LifecycleAssumption DEF Records, PoolOK
<1>2. Main \in Threads /\ Workers \subseteq Threads
  BY DEF Threads
<1> DEFINE Under(q, l, c) == q + (IF l \in {"push", "hold"} THEN 1 ELSE 0) <= c
<1>3. Under(pool.queue, pc[Main], pool.conns)
  BY DEF Queued
<1>4. ASSUME Under(pool'.queue, pc'[Main], pool'.conns) PROVE Queued'
  BY <1>4 DEF Queued
<1>5. pc'[Main] = pc[Main] \/ pc'[Main] \notin {"push", "hold"} \/ Accept \/ PushLock
  BY <1>1, Pushing, OtherPlaces
<1>6. ASSUME DOMAIN pool' = PoolFields, pool'.mutex \in Threads \cup {NULL},
             pool'.conns = pool.conns, pool'.queue \in Nat, pool'.queue <= pool.queue,
             ~Accept, ~PushLock
      PROVE  PoolOK' /\ Queued'
  <2>1. PoolOK'
    BY <1>1, <1>6 DEF PoolOK
  <2>2. Queued'
    BY <1>1, <1>3, <1>4, <1>5, <1>6
  <2>3. QED
    BY <2>1, <2>2
<1>7. CASE Accept
  <2>1. /\ DOMAIN pool' = PoolFields /\ pool'.mutex = pool.mutex /\ pool'.queue = pool.queue
        /\ pool'.conns = pool.conns + 1 /\ pool.conns < MaxConnections
    BY <1>1, <1>7 DEF Accept, PoolFields
  <2>2. PoolOK'
    BY <1>1, <2>1 DEF PoolOK
  <2>3. pc[Main] = "accept"
    BY <1>7 DEF Accept, Step, At
  <2>4. QED
    BY <1>1, <1>3, <1>4, <2>1, <2>2, <2>3
<1>8. CASE PushLock
  <2>1. /\ DOMAIN pool' = PoolFields /\ pool'.mutex \in {pool.mutex, Main}
        /\ pool'.queue = pool.queue /\ pool'.conns = pool.conns
    BY <1>1, <1>8 DEF PushLock, Acquire, PoolFields
  <2>2. pc[Main] = "push"
    BY <1>8 DEF PushLock, Step, At
  <2>3. PoolOK'
    BY <1>1, <1>2, <2>1 DEF PoolOK
  <2>4. QED
    BY <1>1, <1>3, <1>4, <2>1, <2>2, <2>3
<1>9. CASE PushEnd
  <2>1. /\ DOMAIN pool' = PoolFields /\ pool'.mutex \in {pool.mutex, NULL}
        /\ pool'.queue \in {pool.queue, pool.queue + 1} /\ pool'.conns = pool.conns
    BY <1>1, <1>9 DEF PushEnd, Released, PoolFields
  <2>2. pc[Main] = "hold"
    BY <1>9 DEF PushEnd, At
  <2>3. pc'[Main] = "accept"
    <3>1. PICK w : pc' = [pc EXCEPT ![w] = "relock", ![Main] = "accept"]
      BY <1>9 DEF PushEnd
    <3>2. pc \in [Threads -> MainPc \cup WorkerPc]
      BY <1>1 DEF Places
    <3>3. QED
      BY <1>2, <3>1, <3>2
  <2>4. PoolOK'
    BY <1>1, <2>1 DEF PoolOK
  <2>5. QED
    BY <1>1, <1>3, <1>4, <2>1, <2>2, <2>3, <2>4
<1>10. CASE pool' = pool /\ ~Accept /\ ~PushLock
  BY <1>1, <1>6, <1>10 DEF PoolOK
<1>11. ASSUME NEW w \in Workers, PopLock(w), ~Accept, ~PushLock PROVE PoolOK' /\ Queued'
  <2>1. /\ DOMAIN pool' = PoolFields /\ pool'.mutex \in {pool.mutex, w}
        /\ pool'.queue = pool.queue /\ pool'.conns = pool.conns
    BY <1>1, <1>11 DEF PopLock, Acquire, PoolFields
  <2>2. QED
    BY <1>1, <1>2, <1>6, <1>11, <2>1 DEF PoolOK
<1>12. ASSUME NEW w \in Workers, PopEnd(w), ~Accept, ~PushLock PROVE PoolOK' /\ Queued'
  <2>1. /\ DOMAIN pool' = PoolFields /\ pool'.mutex \in {pool.mutex, NULL}
        /\ pool'.queue = IF pool.queue > 0 /\ ~pool.shutdown THEN pool.queue - 1 ELSE pool.queue
        /\ pool'.conns = pool.conns
    BY <1>1, <1>12 DEF PopEnd, Released, PoolFields
  <2>2. pool'.queue \in Nat /\ pool'.queue <= pool.queue
    BY <1>1, <2>1
  <2>3. QED
    BY <1>1, <1>6, <1>12, <2>1, <2>2 DEF PoolOK
<1>13. ASSUME NEW t \in Threads, ShutdownLock(t) \/ ShutdownSet(t) \/ MutexDestroy(t),
              ~Accept, ~PushLock
       PROVE  PoolOK' /\ Queued'
  <2>1. /\ DOMAIN pool' = PoolFields /\ pool'.mutex \in {pool.mutex, NULL, t}
        /\ pool'.queue = pool.queue /\ pool'.conns = pool.conns
    BY <1>1, <1>13 DEF ShutdownLock, ShutdownSet, MutexDestroy, Acquire, Released, PoolFields
  <2>2. QED
    BY <1>1, <1>6, <1>13, <2>1 DEF PoolOK
<1>14. QED
  BY <1>7, <1>8, <1>9, <1>10, <1>11, <1>12, <1>13, PoolWriters

\* Every way of starting the program gives main() what its loops expect.
LEMMA GivenProper ==
    ASSUME NEW l \in Launches
    PROVE  ProperFile(l.file) /\ ProperArgs(l.args) /\ l.startLen \in Nat
<1>1. l.file \in Files /\ l.args \in Arguments /\ l.startLen \in Nat
  BY LifecycleAssumption
<1>2. l.file.exists \in BOOLEAN /\ l.file.lines \in Seq(Lines)
  BY <1>1 DEF Files
<1>3. \A x \in Lines : Proper(x)
  <2>1. \A x \in Paths : x.len \in Nat /\ x.base \in {"cwd", "abs"}
    BY DEF Paths
  <2>2. \A x \in Lines : x.num \in Int /\ x.at \in Nat /\ x.path \in Paths
    BY DEF Lines
  <2>3. QED
    BY <2>1, <2>2 DEF Proper
<1>4. ProperFile(l.file)
  BY <1>2, <1>3 DEF ProperFile
<1>5. l.args \in Seq([flag : BOOLEAN, num : Int])
  BY <1>1 DEF Arguments
<1>6. ProperArgs(l.args)
  <2> DEFINE T == [flag : BOOLEAN, num : Int]
  <2>1. \A x \in T : x.num \in Int
    OBVIOUS
  <2> HIDE DEF T
  <2>2. l.args \in Seq(T)
    BY <1>5 DEF T
  <2>3. \A i \in 1 .. Len(l.args) : l.args[i] \in T
    BY <2>2
  <2>4. \E U : l.args \in Seq(U)
    BY <2>2
  <2>5. QED
    BY <2>1, <2>3, <2>4 DEF ProperArgs
<1>7. QED
  BY <1>1, <1>4, <1>6

\* The configuration.
LEMMA ConfigStep ==
    ASSUME Records, Configured, [Next]_vars
    PROVE  /\ ConfigOK'
           /\ given' = given
           /\ config' = config \/ Load \/ Args
<1>1. given' = given
  <2>1. CASE Command \/ GetCwd \/ Load \/ Args \/ Fork("fork1", "setsid") \/ SetSid \/ SecondFork
             \/ Chdir \/ Streams \/ OpenLog \/ InitPool \/ Spawn \/ SpawnEnd
    BY <2>1 DEF Command, GetCwd, Load, Args, Fork, SetSid, SecondFork, Chdir, Streams, OpenLog,
                InitPool, Spawn, SpawnEnd, Call, Step
  <2>2. CASE Socket \/ Publish \/ AcceptBreak \/ Return \/ PushLock \/ PushEnd \/ Accept
             \/ LogToServer \/ Gone \/ UNCHANGED vars
    BY <2>2 DEF Socket, Publish, AcceptBreak, Return, PushLock, PushEnd, Accept, LogToServer, Gone,
                vars, Step
  <2>3. ASSUME NEW i \in 1 .. 2, NewContext(i) \/ UseCertificate(i) \/ UseKey(i)
        PROVE  given' = given
    BY <2>3 DEF NewContext, UseCertificate, UseKey, UseFile
  <2>4. ASSUME NEW w \in Workers, WorkerStep(w) \/ SpuriousWakeup(w) \/ Sent(w) \/ BrokenPipe(w)
        PROVE  given' = given
    BY <2>4 DEF WorkerStep, Start, PopLock, PopEnd, Serve, Peek, SslNew, ReadLock, ReloadLock,
                ReloadFree, ReloadEnd, NoLock, SpuriousWakeup, Sent, BrokenPipe, Step
  <2>5. ASSUME NEW t \in Threads, ShutdownStep(t) \/ Signal(t) PROVE given' = given
    BY <2>5 DEF ShutdownStep, ShutdownLock, ShutdownSet, MutexDestroy, CondDestroy, CacheDestroy,
                FreeContext, NoContext, ClearContext, Exit, Signal, Go
  <2>6. QED
    BY <2>1, <2>2, <2>3, <2>4, <2>5 DEF Next, MainStep, Environment
<1>2. config' = config \/ Load \/ Args
  <2>1. CASE Command \/ GetCwd \/ Fork("fork1", "setsid") \/ SetSid \/ SecondFork
             \/ Chdir \/ Streams \/ OpenLog \/ InitPool \/ Spawn \/ SpawnEnd
    BY <2>1 DEF Command, GetCwd, Fork, SetSid, SecondFork, Chdir, Streams, OpenLog,
                InitPool, Spawn, SpawnEnd
  <2>2. CASE Socket \/ Publish \/ AcceptBreak \/ Return \/ PushLock \/ PushEnd \/ Accept
             \/ LogToServer \/ Gone \/ UNCHANGED vars
    BY <2>2 DEF Socket, Publish, AcceptBreak, Return, PushLock, PushEnd, Accept, LogToServer, Gone,
                vars
  <2>3. ASSUME NEW i \in 1 .. 2, NewContext(i) \/ UseCertificate(i) \/ UseKey(i)
        PROVE  config' = config
    BY <2>3 DEF NewContext, UseCertificate, UseKey, UseFile
  <2>4. ASSUME NEW w \in Workers, WorkerStep(w) \/ SpuriousWakeup(w) \/ Sent(w) \/ BrokenPipe(w)
        PROVE  config' = config
    BY <2>4 DEF WorkerStep, Start, PopLock, PopEnd, Serve, Peek, SslNew, ReadLock, ReloadLock,
                ReloadFree, ReloadEnd, NoLock, SpuriousWakeup, Sent, BrokenPipe
  <2>5. ASSUME NEW t \in Threads, ShutdownStep(t) \/ Signal(t) PROVE config' = config
    BY <2>5 DEF ShutdownStep, ShutdownLock, ShutdownSet, MutexDestroy, CondDestroy, CacheDestroy,
                FreeContext, NoContext, ClearContext, Exit, Signal, Go
  <2>6. QED
    BY <2>1, <2>2, <2>3, <2>4, <2>5 DEF Next, MainStep, Environment
<1>3. ConfigOK /\ given \in Launches
  BY DEF Records
<1>4. ProperFile(given.file) /\ ProperArgs(given.args)
  BY <1>3, GivenProper
<1>5. CASE config' = config
  BY <1>1, <1>3, <1>5 DEF ConfigOK
<1>6. CASE Load
  <2>1. config' = LoadConfig(given.file)
    BY <1>6 DEF Load
  <2>2. QED
    BY <1>1, <1>2, <1>4, <2>1, LoadTypes DEF ConfigOK
<1>7. CASE Args
  <2>1. pc[Main] = "args" /\ config' = Effective(config, given.args, given.startLen)
    BY <1>7 DEF Args, Step, At
  <2>2. config = LoadConfig(given.file)
    BY <2>1 DEF Configured
  <2>3. QED
    BY <1>1, <1>2, <1>4, <2>1, <2>2, EffectiveTypes DEF ConfigOK
<1>8. QED
  BY <1>1, <1>2, <1>5, <1>6, <1>7

-----------------------------------------------------------------------------
(* The stacks of shutdown sequences. *)

\* main() gives up the boot and shuts down.
Fails ==
    /\ gone = "no" /\ frame[Main] = <<>> /\ frame' = [frame EXCEPT ![Main] = <<"lock">>]
    /\ pc[Main] \in {"socket", "new2", "cert2", "key2"} /\ Goto(Main, "failed")
    /\ gone' = gone /\ signals' = signals

\* The shutdown that t runs gets on, from l to m.
Advances(t, l, m) == In(t, l) /\ Then(t, m) /\ gone' = gone /\ signals' = signals

Advance == {<<"lock", "set">>, <<"set", "mutex">>, <<"mutex", "cond">>, <<"cond", "cache">>,
            <<"cache", "ctx">>, <<"ctx", "null">>, <<"ctx", "exit">>, <<"null", "exit">>}

\* Who changes the stacks.
LEMMA FrameWriters ==
    ASSUME Records, [Next]_vars
    PROVE  \/ frame' = frame /\ signals' = signals
           \/ \E t \in Threads : Signal(t)
           \/ Fails
           \/ \E t \in Threads, s \in Advance : ShutdownStep(t) /\ Advances(t, s[1], s[2])
<1>1. CASE Command \/ GetCwd \/ Load \/ Args \/ Fork("fork1", "setsid") \/ SetSid \/ SecondFork
           \/ Chdir \/ Streams \/ OpenLog \/ InitPool \/ Spawn \/ SpawnEnd
  BY <1>1 DEF Command, GetCwd, Load, Args, Fork, SetSid, SecondFork, Chdir, Streams, OpenLog,
              InitPool, Spawn, SpawnEnd, Call, Step, End
<1>2. CASE Publish \/ AcceptBreak \/ Return \/ PushLock \/ PushEnd \/ Accept
           \/ LogToServer \/ Gone \/ UNCHANGED vars
  BY <1>2 DEF Publish, AcceptBreak, Return, PushLock, PushEnd, Accept, LogToServer, Gone, vars, Step,
              End
<1>3. ASSUME NEW w \in Workers, WorkerStep(w) \/ SpuriousWakeup(w) \/ Sent(w) \/ BrokenPipe(w)
      PROVE  frame' = frame /\ signals' = signals
  BY <1>3 DEF WorkerStep, Start, PopLock, PopEnd, Serve, Peek, SslNew, ReadLock, ReloadLock,
              ReloadFree, ReloadEnd, NoLock, SpuriousWakeup, Sent, BrokenPipe, Step, End
<1>4. ASSUME NEW i \in 1 .. 2, NEW l \in {NEWCTX[i], CERT[i], KEY[i]}, At(Main, l), Abort(i),
             signals' = signals
      PROVE  (frame' = frame /\ signals' = signals) \/ Fails
  <2>1. CASE i = 1
    BY <1>4, <2>1 DEF Abort, End
  <2>2. CASE i = 2
    <3>1. l \in {"new2", "cert2", "key2"}
      BY <2>2, Positions
    <3>2. QED
      BY <1>4, <2>2, <3>1 DEF Abort, At, Fails
  <2>3. QED
    BY <2>1, <2>2
<1>5. CASE Socket
  <2>1. CASE Abort(2)
    BY <1>5, <2>1 DEF Socket, Abort, At, Fails
  <2>2. CASE frame' = frame
    BY <1>5, <2>2 DEF Socket
  <2>3. QED
    BY <1>5, <2>1, <2>2 DEF Socket
<1>6. ASSUME NEW i \in 1 .. 2, NewContext(i) \/ UseCertificate(i) \/ UseKey(i)
      PROVE  (frame' = frame /\ signals' = signals) \/ Fails
  <2>1. CASE NewContext(i)
    BY <1>4, <2>1 DEF NewContext
  <2>2. CASE UseCertificate(i)
    BY <1>4, <2>2 DEF UseCertificate, UseFile, End
  <2>3. CASE UseKey(i)
    BY <1>4, <2>3 DEF UseKey, UseFile, End
  <2>4. QED
    BY <1>6, <2>1, <2>2, <2>3
<1>7. ASSUME NEW t \in Threads, ShutdownStep(t)
      PROVE  \/ frame' = frame /\ signals' = signals
             \/ \E s \in Advance : Advances(t, s[1], s[2])
  <2>1. ASSUME NEW l, NEW m, <<l, m>> \in Advance, Advances(t, l, m)
        PROVE  \E s \in Advance : Advances(t, s[1], s[2])
    BY <2>1
  <2>2. CASE ShutdownLock(t) \/ ShutdownSet(t) \/ MutexDestroy(t) \/ CondDestroy(t)
    BY <2>1, <2>2 DEF ShutdownLock, ShutdownSet, MutexDestroy, CondDestroy, Go, Advances, Advance
  <2>3. CASE NoContext(t) \/ ClearContext(t)
    BY <2>1, <2>3 DEF NoContext, ClearContext, Go, Advances, Advance
  <2>4. CASE CacheDestroy(t) \/ FreeContext(t)
    BY <2>1, <2>4 DEF CacheDestroy, FreeContext, Advances, Advance, End
  <2>5. CASE Exit(t)
    BY <2>5 DEF Exit, End
  <2>6. QED
    BY <1>7, <2>2, <2>3, <2>4, <2>5 DEF ShutdownStep
<1>8. QED
  BY <1>1, <1>2, <1>3, <1>5, <1>6, <1>7 DEF Next, MainStep, Environment

\* Stacks only grow: once a thread shuts down it does nothing else.
LEMMA FrameStep ==
    ASSUME Records, [Next]_vars
    PROVE  /\ frame' \in [Threads -> Seq(FramePc)]
           /\ \A t \in Threads : /\ frame[t] # <<>> => frame'[t] # <<>>
                                 /\ Len(frame'[t]) >= Len(frame[t])
<1>1. frame \in [Threads -> Seq(FramePc)] /\ \A t \in Threads : Len(frame[t]) \in Nat
  BY DEF Records
<1>2. CASE frame' = frame
  BY <1>1, <1>2
<1>3. ASSUME NEW t \in Threads, Signal(t)
      PROVE  /\ frame' \in [Threads -> Seq(FramePc)]
             /\ frame'[t] # <<>> /\ Len(frame'[t]) = Len(frame[t]) + 1
             /\ \A u \in Threads \ {t} : frame'[u] = frame[u]
  BY <1>3, PushEffect DEF Signal
<1>4. CASE Fails
  <2>1. Main \in Threads /\ Len(frame[Main]) = 0
    BY <1>4 DEF Threads, Fails
  <2>2. /\ frame' \in [Threads -> Seq(FramePc)]
        /\ frame'[Main] # <<>> /\ Len(frame'[Main]) = 1
        /\ \A u \in Threads \ {Main} : frame'[u] = frame[u]
    BY <1>4, FailEffect DEF Fails
  <2>3. QED
    BY <1>1, <2>1, <2>2
<1>5. ASSUME NEW t \in Threads, NEW s \in Advance, Advances(t, s[1], s[2])
      PROVE  /\ frame' \in [Threads -> Seq(FramePc)]
             /\ frame'[t] # <<>> /\ Len(frame'[t]) = Len(frame[t])
             /\ \A u \in Threads \ {t} : frame'[u] = frame[u]
  <2>1. s[2] \in FramePc
    BY DEF Advance, FramePc
  <2>2. frame[t] # <<>> /\ Then(t, s[2])
    BY <1>5 DEF Advances, In
  <2>3. QED
    BY <2>1, <2>2, ThenEffect
<1>6. QED
  BY <1>1, <1>2, <1>3, <1>4, <1>5, FrameWriters

-----------------------------------------------------------------------------
(* Who changes what. *)

\* A thread is signalled at most twice, and the process ends in one of four
\* ways.
LEMMA EndStep ==
    ASSUME Records, [Next]_vars
    PROVE  /\ signals' \in 0 .. 2 /\ signals' >= signals
           /\ gone' \in {"no", "0", "1", "crash", "pipe"}
           /\ gone # "no" => gone' = gone
<1>1. signals \in 0 .. 2 /\ given \in Launches /\ gone \in {"no", "0", "1", "crash", "pipe"}
  BY DEF Records
<1>2. given.signals \in 0 .. 2
  BY <1>1, LifecycleAssumption
<1>3. signals' \in 0 .. 2 /\ signals' >= signals
  <2>1. ASSUME NEW t \in Threads, Signal(t)
        PROVE  signals < given.signals /\ signals' = signals + 1
    BY <2>1 DEF Signal
  <2>2. CASE signals' = signals
    BY <1>1, <2>2
  <2>3. CASE \E t \in Threads : Signal(t)
    BY <1>1, <1>2, <2>1, <2>3
  <2>4. ASSUME NEW t \in Threads, NEW s \in Advance, Advances(t, s[1], s[2])
        PROVE  signals' = signals
    BY <2>4 DEF Advances
  <2>5. Fails => signals' = signals
    BY DEF Fails
  <2>6. QED
    BY <2>2, <2>3, <2>4, <2>5, FrameWriters
<1> DEFINE Ends == gone' = gone \/ (gone = "no" /\ gone' \in {"0", "1", "crash", "pipe"})
<1>4. CASE Command \/ GetCwd \/ Load \/ Args \/ Fork("fork1", "setsid") \/ SetSid \/ SecondFork
           \/ Chdir \/ Streams \/ OpenLog \/ InitPool \/ Spawn \/ SpawnEnd
  <2>1. Ends
    BY <1>4 DEF Command, GetCwd, Load, Args, Fork, SetSid, SecondFork, Chdir, Streams, OpenLog,
                InitPool, Spawn, SpawnEnd, Call, Step, End, At
  <2>2. QED
    BY <1>1, <1>3, <2>1
<1>5. CASE Socket \/ Publish \/ AcceptBreak \/ Return \/ PushLock \/ PushEnd \/ Accept
           \/ LogToServer \/ Gone \/ UNCHANGED vars
  <2>1. Ends
    BY <1>5 DEF Socket, Publish, AcceptBreak, Return, PushLock, PushEnd, Accept, LogToServer, Gone,
                vars, Step, End, At, Abort
  <2>2. QED
    BY <1>1, <1>3, <2>1
<1>6. ASSUME NEW i \in 1 .. 2, NewContext(i) \/ UseCertificate(i) \/ UseKey(i) PROVE Ends
  BY <1>6 DEF NewContext, UseCertificate, UseKey, UseFile, At, Abort, End
<1>7. ASSUME NEW w \in Workers, WorkerStep(w) \/ SpuriousWakeup(w) \/ Sent(w) \/ BrokenPipe(w)
      PROVE  Ends
  BY <1>7 DEF WorkerStep, Start, PopLock, PopEnd, Serve, Peek, SslNew, ReadLock, ReloadLock,
              ReloadFree, ReloadEnd, NoLock, SpuriousWakeup, Sent, BrokenPipe, Step, At, End
<1>8. ASSUME NEW t \in Threads, ShutdownStep(t) \/ Signal(t) PROVE Ends
  BY <1>8 DEF ShutdownStep, ShutdownLock, ShutdownSet, MutexDestroy, CondDestroy, CacheDestroy,
              FreeContext, NoContext, ClearContext, Exit, Signal, Go, In, End
<1>9. QED
  BY <1>1, <1>3, <1>4, <1>5, <1>6, <1>7, <1>8 DEF Next, MainStep, Environment

\* main() gets from l to m.
Moves(l, m) == pc[Main] = l /\ pc'[Main] = m

\* The steps by which it does: those before lith_ssl_init, and the others.
Early ==
    \/ Command /\ Moves("command", "getcwd")
    \/ GetCwd /\ Moves("getcwd", "load")
    \/ Load /\ Moves("load", "args")
    \/ Args /\ Moves("args", IF IsDaemon THEN "fork1" ELSE "new1")
    \/ Fork("fork1", "setsid") /\ Moves("fork1", "setsid") /\ gone' = "no"
    \/ SetSid /\ Moves("setsid", "fork2")
    \/ SecondFork /\ Moves("fork2", "chdir") /\ gone' = "no"
    \/ Chdir /\ Moves("chdir", "streams") /\ gone' = "no"
    \/ Streams /\ Moves("streams", "log") /\ gone' = "no"
    \/ OpenLog /\ Moves("log", "new1")

Late ==
    \/ \E i \in 1 .. 2 :
          \/ NewContext(i) /\ Moves(NEWCTX[i], CERT[i])
          \/ UseCertificate(i) /\ Moves(CERT[i], KEY[i])
          \/ UseKey(i) /\ Moves(KEY[i], IF i = 1 THEN "pool" ELSE "publish")
    \/ InitPool /\ Moves("pool", "spawn")
    \/ SpawnEnd /\ Moves("spawn", "socket")
    \/ Socket /\ Moves("socket", "new2")
    \/ Publish /\ Moves("publish", "accept")
    \/ Accept /\ Moves("accept", "push")
    \/ AcceptBreak /\ Moves("accept", "return")
    \/ PushLock /\ Moves("push", "hold")
    \/ PushEnd /\ Moves("hold", "accept")

\* main()'s program counter.
LEMMA MainMove ==
    ASSUME Records, [Next]_vars
    PROVE  \/ pc'[Main] = pc[Main]
           \/ Early \/ Late
           \/ Fails /\ pc'[Main] = "failed"
<1>1. Places /\ gone \in {"no", "0", "1", "crash", "pipe"}
  BY DEF Records
<1>2. {"getcwd", "load", "args", "fork1", "new1", "setsid", "fork2", "chdir", "streams", "log",
       "pool", "spawn", "socket", "new2", "publish", "accept", "push", "hold", "return",
       "failed"} \subseteq MainPc
  BY Positions DEF FromFork1, FromFork2, FromChdir, FromStreams, FromLog, FromNew1, FromCert1,
                   FromPool, FromNew2, FromCert2, FromPublish
<1>3. ASSUME NEW i \in 1 .. 2 PROVE CERT[i] \in MainPc /\ KEY[i] \in MainPc
  BY Positions DEF FromFork1, FromFork2, FromChdir, FromStreams, FromLog, FromNew1, FromCert1,
                   FromPool, FromNew2, FromCert2
<1>4. ASSUME NEW l, NEW m \in MainPc, Step(Main, l, m) PROVE Moves(l, m)
  BY <1>1, <1>4, GotoMain DEF Step, At, Moves
<1>5. ASSUME NEW l, NEW m \in MainPc, Call(l, m)
      PROVE  pc' = pc \/ (Moves(l, m) /\ gone' = "no")
  BY <1>4, <1>5 DEF Call, End, Step, At
<1>6. CASE MainStep
  <2>1. CASE Command \/ GetCwd \/ Load \/ Args
    <3>1. CASE Command
      <4>1. pc' = pc \/ Goto(Main, "getcwd")
        BY <3>1 DEF Command, End
      <4>2. pc[Main] = "command"
        BY <3>1 DEF Command, At
      <4>3. QED
        BY <1>1, <1>2, <3>1, <4>1, <4>2, GotoMain DEF Early, Moves
    <3>2. CASE GetCwd
      BY <1>2, <1>5, <3>2 DEF GetCwd, Early
    <3>3. CASE Load
      BY <1>2, <1>4, <3>3 DEF Load, Early
    <3>4. CASE Args
      BY <1>2, <1>4, <3>4 DEF Args, Early, IsDaemon
    <3>5. QED
      BY <2>1, <3>1, <3>2, <3>3, <3>4
  <2>2. CASE Fork("fork1", "setsid") \/ SetSid \/ SecondFork \/ Chdir \/ Streams \/ OpenLog
    <3>1. CASE Fork("fork1", "setsid")
      BY <1>2, <1>5, <3>1 DEF Fork, Early
    <3>2. CASE SetSid
      BY <1>2, <1>4, <3>2 DEF SetSid, Early
    <3>3. CASE SecondFork
      BY <1>2, <1>5, <3>3 DEF Fork, SecondFork, Early
    <3>4. CASE Chdir
      BY <1>2, <1>5, <3>4 DEF Chdir, Early
    <3>5. CASE Streams
      BY <1>2, <1>5, <3>5 DEF Streams, Early
    <3>6. CASE OpenLog
      BY <1>2, <1>4, <3>6 DEF OpenLog, Early
    <3>7. QED
      BY <2>2, <3>1, <3>2, <3>3, <3>4, <3>5, <3>6
  <2>3. ASSUME NEW i \in 1 .. 2, NEW l \in {NEWCTX[i], CERT[i], KEY[i]}, At(Main, l), Abort(i),
               signals' = signals
        PROVE  pc' = pc \/ (Fails /\ pc'[Main] = "failed")
    <3>1. CASE i = 1
      BY <2>3, <3>1 DEF Abort, End
    <3>2. CASE i = 2
      <4>1. l \in {"new2", "cert2", "key2"}
        BY <3>2, Positions
      <4>2. pc'[Main] = "failed"
        BY <1>1, <1>2, <2>3, <3>2, GotoMain DEF Abort
      <4>3. QED
        BY <2>3, <3>2, <4>1, <4>2 DEF Abort, At, Fails
    <3>3. QED
      BY <3>1, <3>2
  <2>4. ASSUME NEW i \in 1 .. 2, NEW l \in {CERT[i], KEY[i]}, NEW found, NEW loaded,
               NEW m \in MainPc, UseFile(i, l, found, loaded, m)
        PROVE  pc' = pc \/ Moves(l, m) \/ (Fails /\ pc'[Main] = "failed")
    BY <1>1, <2>3, <2>4, GotoMain DEF UseFile, End, At, Moves
  <2>5. ASSUME NEW i \in 1 .. 2, NewContext(i) \/ UseCertificate(i) \/ UseKey(i)
        PROVE  pc' = pc \/ Late \/ (Fails /\ pc'[Main] = "failed")
    <3>1. CASE NewContext(i)
      <4>1. Goto(Main, CERT[i]) => Moves(NEWCTX[i], CERT[i])
        BY <1>1, <1>3, <3>1, GotoMain DEF NewContext, At, Moves
      <4>2. QED
        BY <2>3, <3>1, <4>1 DEF NewContext, Late
    <3>2. CASE UseCertificate(i)
      BY <1>3, <2>4, <3>2 DEF UseCertificate, Late
    <3>3. CASE UseKey(i)
      <4>1. (IF i = 1 THEN "pool" ELSE "publish") \in MainPc
        BY <1>2
      <4>2. pc' = pc \/ Moves(KEY[i], IF i = 1 THEN "pool" ELSE "publish")
            \/ (Fails /\ pc'[Main] = "failed")
        BY <2>4, <3>3, <4>1 DEF UseKey
      <4>3. QED
        BY <3>3, <4>2 DEF Late
    <3>4. QED
      BY <2>5, <3>1, <3>2, <3>3
  <2>6. CASE InitPool \/ SpawnEnd \/ Publish \/ AcceptBreak \/ PushLock
    BY <1>2, <1>4, <2>6 DEF InitPool, SpawnEnd, Publish, AcceptBreak, PushLock, Late
  <2>7. CASE Return
    BY <2>7 DEF Return, End
  <2>8. CASE Spawn
    <3>1. PICK w \in Unborn, l \in {"new", "uncreated"} : Goto(w, l)
      BY <2>8 DEF Spawn
    <3>2. w \in Workers /\ l \in WorkerPc
      BY DEF Unborn, WorkerPc
    <3>3. QED
      BY <1>1, <3>1, <3>2, GotoWorker
  <2>9. CASE Socket
    <3>1. CASE Goto(Main, "new2")
      BY <1>1, <1>2, <2>9, <3>1, GotoMain DEF Socket, At, Moves, Late
    <3>2. CASE Abort(2)
      <4>1. pc'[Main] = "failed"
        BY <1>1, <1>2, <3>2, GotoMain DEF Abort
      <4>2. QED
        BY <2>9, <3>2, <4>1 DEF Socket, Abort, At, Fails
    <3>3. QED
      BY <2>9, <3>1, <3>2 DEF Socket
  <2>10. CASE PushEnd
    <3>1. PICK w : pc' = [pc EXCEPT ![w] = "relock", ![Main] = "accept"]
      BY <2>10 DEF PushEnd
    <3>2. Main \in Threads /\ pc \in [Threads -> MainPc \cup WorkerPc]
      BY <1>1 DEF Threads, Places
    <3>3. pc'[Main] = "accept" /\ pc[Main] = "hold"
      BY <2>10, <3>1, <3>2 DEF PushEnd, At
    <3>4. QED
      BY <2>10, <3>3 DEF Late, Moves
  <2>11. QED
    BY <1>6, <2>1, <2>2, <2>5, <2>6, <2>7, <2>8, <2>9, <2>10 DEF MainStep
<1>7. CASE Accept
  BY <1>2, <1>4, <1>7 DEF Accept, Late
<1>8. QED
  BY <1>1, <1>6, <1>7, OtherPlaces

\* main() enters each part of its way by one step only, and does not go back.
LEMMA Entering ==
    ASSUME Records, [Next]_vars
    PROVE  /\ pc'[Main] = "args" => pc[Main] = "args" \/ Load
           /\ pc'[Main] \in FromFork1 => pc[Main] \in FromFork1 \/ Args
           /\ pc'[Main] \in FromFork2 => pc[Main] \in FromFork2 \/ SetSid \/ (Args /\ ~IsDaemon)
           /\ pc'[Main] \in FromChdir =>
                 pc[Main] \in FromChdir \/ (SecondFork /\ gone' = "no") \/ (Args /\ ~IsDaemon)
           /\ pc'[Main] \in FromStreams =>
                 pc[Main] \in FromStreams \/ (Chdir /\ gone' = "no") \/ (Args /\ ~IsDaemon)
           /\ pc'[Main] \in FromLog =>
                 pc[Main] \in FromLog \/ (Streams /\ gone' = "no") \/ (Args /\ ~IsDaemon)
           /\ pc'[Main] \in FromNew1 => pc[Main] \in FromNew1 \/ OpenLog \/ (Args /\ ~IsDaemon)
           /\ pc'[Main] \in FromFork1 \ FromNew1 =>
                 pc[Main] \in FromFork1 \ FromNew1 \/ (Args /\ IsDaemon)
           /\ pc'[Main] \in FromCert1 =>
                 pc[Main] \in FromCert1 \/ (NewContext(1) /\ Moves("new1", "cert1"))
           /\ pc'[Main] \in FromPool =>
                 pc[Main] \in FromPool \/ (UseKey(1) /\ Moves("key1", "pool"))
           /\ pc'[Main] \in FromNew2 =>
                 pc[Main] \in FromNew2 \/ (Socket /\ Moves("socket", "new2"))
           /\ pc'[Main] \in FromCert2 =>
                 pc[Main] \in FromCert2 \/ (NewContext(2) /\ Moves("new2", "cert2"))
           /\ pc'[Main] \in FromPublish =>
                 pc[Main] \in FromPublish \/ (UseKey(2) /\ Moves("key2", "publish"))
           /\ pc'[Main] = "failed" => pc[Main] = "failed" \/ Fails
           /\ pc[Main] \in FromFork1 => pc'[Main] \in FromFork1
           /\ Serving => pc'[Main] \in {"accept", "push", "hold", "return"}
<1> USE DEF Moves, FromFork1, FromFork2, FromChdir, FromStreams, FromLog, FromNew1, FromCert1,
            FromPool, FromNew2, FromCert2, FromPublish, Serving
<1>1. CASE pc'[Main] = pc[Main]
  BY <1>1
<1>2. CASE Early
  BY <1>2 DEF Early
<1>3. CASE Late
  BY <1>3, Positions DEF Late
<1>4. CASE Fails /\ pc'[Main] = "failed"
  BY <1>4 DEF Fails
<1>5. QED
  BY <1>1, <1>2, <1>3, <1>4, MainMove

\* The fields of the process that neither a fork, the streams nor the socket
\* change.
KeepsButLeader == proc'.session = proc.session /\ proc'.cwd = proc.cwd /\ proc'.log = proc.log
                  /\ proc'.fd = proc.fd /\ proc'.port = proc.port

\* What becomes of the process.
LEMMA ProcEffect ==
    ASSUME Records, [Next]_vars
    PROVE  \/ KeepsButLeader /\ proc'.leader = proc.leader
           \/ /\ (Fork("fork1", "setsid") /\ pc[Main] = "fork1") \/ (SecondFork /\ pc[Main] = "fork2")
              /\ KeepsButLeader /\ (gone' = "no" => ~proc'.leader)
           \/ /\ SetSid /\ pc[Main] = "setsid" /\ proc'.session = "own"
              /\ proc'.cwd = proc.cwd /\ proc'.log = proc.log
              /\ proc'.fd = proc.fd /\ proc'.port = proc.port
           \/ /\ Chdir /\ pc[Main] = "chdir" /\ proc'.session = proc.session
              /\ proc'.leader = proc.leader /\ proc'.log = proc.log
              /\ proc'.fd = proc.fd /\ proc'.port = proc.port
              /\ gone' = "no" => proc'.cwd = "root"
           \/ /\ Streams /\ pc[Main] = "streams" /\ proc'.session = proc.session
              /\ proc'.leader = proc.leader /\ proc'.log = proc.log /\ proc'.cwd = proc.cwd
              /\ proc'.port = proc.port /\ (gone' = "no" => proc'.fd[0] = "null")
              /\ proc'.fd[1] # "server"
           \/ /\ OpenLog /\ pc[Main] = "log" /\ proc'.session = proc.session
              /\ proc'.leader = proc.leader /\ proc'.cwd = proc.cwd /\ proc'.port = proc.port
              /\ proc'.fd[0] = proc.fd[0]
              /\ proc'.log # "none" => proc'.fd[1] = "log" /\ proc'.fd[2] = "log"
              /\ proc'.log = "none" => proc'.fd = proc.fd
           \/ /\ Socket /\ pc[Main] = "socket" /\ proc'.session = proc.session
              /\ proc'.leader = proc.leader /\ proc'.cwd = proc.cwd /\ proc'.log = proc.log
              /\ proc'.fd = Occupy(proc.fd, "server") /\ proc'.port = Htons(config.port)
<1>1. DOMAIN proc = ProcFields /\ proc.fd \in [0 .. 2 -> Fds]
  BY DEF Records, ProcOK
<1> DEFINE Same == KeepsButLeader /\ proc'.leader = proc.leader
<1>2. ASSUME proc' = proc PROVE Same
  BY <1>2 DEF KeepsButLeader
<1>3. CASE Fork("fork1", "setsid") \/ SecondFork
  <2>1. proc' = [proc EXCEPT !.leader = @ /\ gone' # "no"]
    BY <1>3 DEF Fork, SecondFork
  <2>2. KeepsButLeader
    BY <1>1, <2>1 DEF ProcFields, KeepsButLeader
  <2>3. proc'.leader = (proc.leader /\ gone' # "no")
    BY <1>1, <2>1 DEF ProcFields
  <2>4. gone' = "no" => ~proc'.leader
    BY <2>3, Zenon
  <2>5. Fork("fork1", "setsid") => pc[Main] = "fork1"
    BY DEF Fork, Call, Step, At
  <2>6. SecondFork => pc[Main] = "fork2"
    BY DEF SecondFork, Fork, Call, Step, At
  <2>7. QED
    BY <1>3, <2>2, <2>4, <2>5, <2>6
<1>4. CASE SetSid
  BY <1>1, <1>4 DEF ProcFields, SetSid, Step, At
<1>5. CASE Publish
  <2>1. Same
    BY <1>1, <1>5 DEF ProcFields, Publish, KeepsButLeader
  <2>2. QED
    BY <2>1
<1>6. CASE Chdir
  <2>1. pc[Main] = "chdir"
    BY <1>6 DEF Chdir, Call, Step, At
  <2>2. QED
    BY <1>1, <1>6, <2>1 DEF ProcFields, Chdir
<1>7. CASE Streams
  <2>1. pc[Main] = "streams"
    BY <1>7 DEF Streams, Call, Step, At
  <2>2. /\ proc'.session = proc.session /\ proc'.leader = proc.leader /\ proc'.log = proc.log
        /\ proc'.cwd = proc.cwd /\ proc'.port = proc.port
        /\ proc'.fd = [n \in 0 .. 2 |-> IF n = 0 /\ gone' = "no" THEN "null" ELSE "free"]
    BY <1>1, <1>7 DEF ProcFields, Streams
  <2>3. (gone' = "no" => proc'.fd[0] = "null") /\ proc'.fd[1] # "server"
    BY <2>2
  <2>4. QED
    BY <1>7, <2>1, <2>2, <2>3
<1>8. CASE OpenLog
  <2>1. PICK log \in {"start", "tmp", "none"} :
          proc' = [proc EXCEPT !.log = log,
                               !.fd = IF log = "none" THEN @
                                      ELSE [@ EXCEPT ![1] = "log", ![2] = "log"]]
    BY <1>8 DEF OpenLog
  <2>2. /\ proc'.cwd = proc.cwd /\ proc'.port = proc.port /\ proc'.log = log
        /\ proc'.session = proc.session /\ proc'.leader = proc.leader
        /\ proc'.fd = IF log = "none" THEN proc.fd ELSE [proc.fd EXCEPT ![1] = "log", ![2] = "log"]
    BY <1>1, <2>1 DEF ProcFields
  <2>3. /\ proc'.fd[0] = proc.fd[0]
        /\ log # "none" => proc'.fd[1] = "log" /\ proc'.fd[2] = "log"
        /\ log = "none" => proc'.fd = proc.fd
    BY <1>1, <2>2
  <2>4. pc[Main] = "log"
    BY <1>8 DEF OpenLog, Step, At
  <2>5. QED
    BY <1>8, <2>2, <2>3, <2>4
<1>9. ASSUME NEW i \in 1 .. 2, Abort(i) PROVE Same
  BY <1>1, <1>9 DEF ProcFields, Abort, KeepsButLeader
<1>10. CASE Socket
  <2>1. CASE Abort(2)
    BY <1>9, <2>1
  <2>2. CASE proc' = [proc EXCEPT !.fd = Occupy(@, "server"), !.listening = TRUE,
                                  !.port = Htons(config.port)]
    <3>1. /\ proc'.log = proc.log /\ proc'.cwd = proc.cwd /\ proc'.session = proc.session
          /\ proc'.leader = proc.leader
          /\ proc'.fd = Occupy(proc.fd, "server") /\ proc'.port = Htons(config.port)
      BY <1>1, <2>2 DEF ProcFields
    <3>2. QED
      BY <1>10, <3>1 DEF Socket, At
  <2>3. QED
    BY <1>10, <2>1, <2>2 DEF Socket
<1>11. ASSUME NEW t \in Threads, Signal(t) PROVE Same
  BY <1>1, <1>11 DEF ProcFields, Signal, KeepsButLeader
<1>12. ASSUME NEW i \in 1 .. 2, NewContext(i) \/ UseCertificate(i) \/ UseKey(i) PROVE Same
  <2>1. Abort(i) \/ proc' = proc
    BY <1>12 DEF NewContext, UseCertificate, UseKey, UseFile
  <2>2. QED
    BY <1>2, <1>9, <2>1
<1>13. CASE Command \/ GetCwd \/ Load \/ Args \/ InitPool \/ Spawn \/ SpawnEnd \/ AcceptBreak
            \/ Return \/ PushLock \/ PushEnd \/ Accept \/ LogToServer \/ Gone \/ UNCHANGED vars
  <2>1. proc' = proc
    BY <1>13 DEF Command, GetCwd, Load, Args, InitPool, Spawn, SpawnEnd, AcceptBreak, Return,
                 PushLock, PushEnd, Accept, LogToServer, Gone, vars
  <2>2. QED
    BY <1>2, <2>1
<1>14. ASSUME NEW w \in Workers, WorkerStep(w) \/ SpuriousWakeup(w) \/ Sent(w) \/ BrokenPipe(w)
       PROVE  proc' = proc
  BY <1>14 DEF WorkerStep, Start, PopLock, PopEnd, Serve, Peek, SslNew, ReadLock, ReloadLock,
               ReloadFree, ReloadEnd, NoLock, SpuriousWakeup, Sent, BrokenPipe
<1>15. ASSUME NEW t \in Threads, ShutdownStep(t) PROVE proc' = proc
  BY <1>15 DEF ShutdownStep, ShutdownLock, ShutdownSet, MutexDestroy, CondDestroy, CacheDestroy,
               FreeContext, NoContext, ClearContext, Exit, Go
<1>16. QED
  BY <1>2, <1>3, <1>4, <1>5, <1>6, <1>7, <1>8, <1>10, <1>11, <1>12, <1>13, <1>14, <1>15
     DEF Next, MainStep, Environment

-----------------------------------------------------------------------------
(* Boot. *)

\* The configuration is complete when the socket is bound, and stays.
LEMMA ConfiguredStep ==
    ASSUME Records, Configured, [Next]_vars
    PROVE  Configured'
<1>1. given' = given /\ (config' = config \/ Load \/ Args)
  BY ConfigStep
<1>2. Load => pc[Main] = "load" /\ pc'[Main] = "args" /\ config' = LoadConfig(given.file)
  <2>1. "args" \in MainPc
    BY Positions
  <2>2. QED
    BY <2>1, GotoMain DEF Load, Step, At, Records
<1>3. Args => /\ pc[Main] = "args" /\ pc'[Main] \in {"fork1", "new1"}
              /\ config' = Effective(config, given.args, given.startLen)
  <2>1. "fork1" \in MainPc /\ "new1" \in MainPc
    BY Positions DEF FromFork1, FromFork2, FromChdir, FromStreams, FromLog, FromNew1
  <2>2. QED
    BY <2>1, GotoMain DEF Args, Step, At, Records
<1>4. /\ pc'[Main] = "args" => pc[Main] = "args" \/ Load
      /\ pc'[Main] \in FromFork1 => pc[Main] \in FromFork1 \/ Args
      /\ pc'[Main] \in FromNew2 => pc[Main] \in FromNew2 \/ (Socket /\ Moves("socket", "new2"))
  BY Entering
<1>5. pc'[Main] = "args" => config' = LoadConfig(given'.file)
  BY <1>1, <1>2, <1>3, <1>4 DEF Configured
<1>6. pc'[Main] \in FromFork1 =>
        config' = Effective(LoadConfig(given'.file), given'.args, given'.startLen)
  <2>1. "load" \notin FromFork1 /\ "args" \notin FromFork1
    BY DEF FromFork1, FromFork2, FromChdir, FromStreams, FromLog, FromNew1, FromCert1,
           FromPool, FromNew2, FromCert2, FromPublish
  <2>2. QED
    BY <1>1, <1>2, <1>3, <1>4, <2>1 DEF Configured
<1>7. pc'[Main] \in FromNew2 => proc'.port = Htons(config'.port)
  <2>1. /\ \A l \in {"load", "args", "fork1", "new1", "socket", "fork2", "setsid", "chdir", "streams",
                     "log"} : l \notin FromNew2
    BY DEF FromNew2, FromCert2, FromPublish
  <2>2. CASE pc[Main] \in FromNew2
    <3>1. config' = config
      BY <1>1, <1>2, <1>3, <2>1, <2>2
    <3>2. proc'.port = proc.port
      BY <2>1, <2>2, ProcEffect DEF KeepsButLeader
    <3>3. QED
      BY <2>2, <3>1, <3>2 DEF Configured
  <2>3. CASE Socket /\ Moves("socket", "new2")
    <3>1. config' = config
      BY <2>3 DEF Socket
    <3>2. "new2" \in MainPc /\ "failed" \in MainPc
      BY Positions DEF FromFork1, FromFork2, FromChdir, FromStreams, FromLog, FromNew1, FromCert1,
           FromPool, FromNew2
    <3>3. ~Abort(2)
      BY <2>3, <3>2, GotoMain DEF Abort, Moves, Records
    <3>4. proc' = [proc EXCEPT !.fd = Occupy(@, "server"), !.listening = TRUE,
                               !.port = Htons(config.port)]
      BY <2>3, <3>3 DEF Socket
    <3>5. DOMAIN proc = ProcFields
      BY DEF Records, ProcOK
    <3>6. proc'.port = Htons(config.port)
      BY <3>4, <3>5 DEF ProcFields
    <3>7. QED
      BY <3>1, <3>6
  <2>4. QED
    BY <1>4, <2>2, <2>3
<1>8. QED
  BY <1>5, <1>6, <1>7 DEF Configured

\* The marks that the calls of daemonize leave.
LEMMA BootEffect ==
    ASSUME Records
    PROVE  /\ SetSid => proc'.session = "own"
           /\ SecondFork /\ gone' = "no" => ~proc'.leader
           /\ Chdir /\ gone' = "no" => proc'.cwd = "root"
           /\ Streams /\ gone' = "no" => proc'.fd[0] = "null"
           /\ OpenLog /\ proc'.log # "none" => proc'.fd[1] = "log" /\ proc'.fd[2] = "log"
<1>1. DOMAIN proc = ProcFields /\ proc.fd \in [0 .. 2 -> Fds]
  BY DEF Records, ProcOK
<1>2. SetSid => proc'.session = "own"
  BY <1>1 DEF SetSid, ProcFields
<1>3. ASSUME SecondFork, gone' = "no" PROVE ~proc'.leader
  <2>1. proc'.leader = (proc.leader /\ gone' # "no")
    BY <1>1, <1>3 DEF SecondFork, Fork, ProcFields
  <2>2. QED
    BY <1>3, <2>1, Zenon
<1>4. Chdir /\ gone' = "no" => proc'.cwd = "root"
  BY <1>1 DEF Chdir, ProcFields
<1>5. Streams /\ gone' = "no" => proc'.fd[0] = "null"
  BY <1>1 DEF Streams, ProcFields
<1>6. ASSUME OpenLog, proc'.log # "none" PROVE proc'.fd[1] = "log" /\ proc'.fd[2] = "log"
  <2>1. PICK log \in {"start", "tmp", "none"} :
          proc' = [proc EXCEPT !.log = log,
                               !.fd = IF log = "none" THEN @
                                      ELSE [@ EXCEPT ![1] = "log", ![2] = "log"]]
    BY <1>6 DEF OpenLog
  <2>2. /\ proc'.log = log
        /\ proc'.fd = IF log = "none" THEN proc.fd ELSE [proc.fd EXCEPT ![1] = "log", ![2] = "log"]
    BY <1>1, <2>1 DEF ProcFields
  <2>3. QED
    BY <1>1, <1>6, <2>2
<1>7. QED
  BY <1>2, <1>3, <1>4, <1>5, <1>6

\* The way into the background.
LEMMA DaemonisedStep ==
    ASSUME Records, Configured, Daemonised, [Next]_vars
    PROVE  Daemonised'
<1>1. IsDaemon' = IsDaemon /\ proc.fd \in [0 .. 2 -> Fds]
  <2>1. given' = given
    BY ConfigStep
  <2>2. QED
    BY <2>1 DEF IsDaemon, Records, ProcOK
<1> DEFINE here  == pc[Main]
           there == pc'[Main]
<1>2. /\ there \in FromFork1 => here \in FromFork1 \/ Args
      /\ there \in FromFork2 => here \in FromFork2 \/ SetSid \/ (Args /\ ~IsDaemon)
      /\ there \in FromChdir =>
            here \in FromChdir \/ (SecondFork /\ gone' = "no") \/ (Args /\ ~IsDaemon)
      /\ there \in FromStreams =>
            here \in FromStreams \/ (Chdir /\ gone' = "no") \/ (Args /\ ~IsDaemon)
      /\ there \in FromLog =>
            here \in FromLog \/ (Streams /\ gone' = "no") \/ (Args /\ ~IsDaemon)
      /\ there \in FromNew1 => here \in FromNew1 \/ OpenLog \/ (Args /\ ~IsDaemon)
      /\ there \in FromFork1 \ FromNew1 => here \in FromFork1 \ FromNew1 \/ (Args /\ IsDaemon)
      /\ here \in FromFork1 => there \in FromFork1
  BY Entering
<1>3. /\ SetSid => here = "setsid"
      /\ SecondFork => here = "fork2"
      /\ Chdir => here = "chdir"
      /\ Streams => here = "streams"
      /\ OpenLog => here = "log"
      /\ Args => here = "args"
  BY DEF SetSid, SecondFork, Fork, Chdir, Streams, OpenLog, Args, Call, Step, At
<1>4. /\ \A l \in {"fork1", "setsid", "fork2", "chdir", "streams", "log"} : l \in FromFork1 \ FromNew1
      /\ "socket" \in FromNew1
      /\ FromNew1 \subseteq FromLog /\ FromLog \subseteq FromStreams
      /\ FromStreams \subseteq FromChdir /\ FromChdir \subseteq FromFork2
      /\ FromFork2 \subseteq FromFork1
      /\ "log" \notin FromNew1 /\ "streams" \notin FromLog /\ "chdir" \notin FromStreams
      /\ "fork2" \notin FromChdir /\ "setsid" \notin FromFork2 /\ "fork1" \notin FromFork2
      /\ "args" \notin FromFork1
  BY DEF FromFork1, FromFork2, FromChdir, FromStreams, FromLog, FromNew1, FromCert1,
         FromPool, FromNew2, FromCert2, FromPublish
<1> HIDE DEF here, there
<1>5. /\ here \in FromFork1 \ FromNew1 => IsDaemon
      /\ ~IsDaemon \/ here \notin FromFork1 =>
            proc.cwd = "start" /\ \A n \in 0 .. 2 : proc.fd[n] = "tty"
      /\ IsDaemon =>
            /\ here \in FromFork2   => proc.session = "own"
            /\ here \in FromChdir   => ~proc.leader
            /\ here \in FromStreams => proc.cwd = "root"
            /\ here \in FromLog     => proc.fd[0] = "null"
            /\ here \in FromNew1 /\ proc.log # "none" => proc.fd[1] = "log" /\ proc.fd[2] = "log"
      /\ proc.fd[1] = "server" => IsDaemon /\ proc.log = "none"
  BY DEF Daemonised, here
<1> DEFINE Goal ==
      /\ there \in FromFork1 \ FromNew1 => IsDaemon
      /\ ~IsDaemon \/ there \notin FromFork1 =>
            proc'.cwd = "start" /\ \A n \in 0 .. 2 : proc'.fd[n] = "tty"
      /\ IsDaemon =>
            /\ there \in FromFork2   => proc'.session = "own"
            /\ there \in FromChdir   => ~proc'.leader
            /\ there \in FromStreams => proc'.cwd = "root"
            /\ there \in FromLog     => proc'.fd[0] = "null"
            /\ there \in FromNew1 /\ proc'.log # "none" =>
                  proc'.fd[1] = "log" /\ proc'.fd[2] = "log"
      /\ proc'.fd[1] = "server" => IsDaemon /\ proc'.log = "none"
<1>6. ASSUME Goal PROVE Daemonised'
  BY <1>1, <1>6 DEF Daemonised, there
<1>7. /\ SetSid => proc'.session = "own"
      /\ SecondFork /\ gone' = "no" => ~proc'.leader
      /\ Chdir /\ gone' = "no" => proc'.cwd = "root"
      /\ Streams /\ gone' = "no" => proc'.fd[0] = "null"
      /\ OpenLog /\ proc'.log # "none" => proc'.fd[1] = "log" /\ proc'.fd[2] = "log"
  BY BootEffect
<1>8. there \in FromFork1 \ FromNew1 => IsDaemon
  BY <1>2, <1>5
<1> DEFINE Way ==
      /\ there \in FromFork2   => proc'.session = "own"
      /\ there \in FromChdir   => ~proc'.leader
      /\ there \in FromStreams => proc'.cwd = "root"
      /\ there \in FromLog     => proc'.fd[0] = "null"
      /\ there \in FromNew1 /\ proc'.log # "none" => proc'.fd[1] = "log" /\ proc'.fd[2] = "log"
    Terminal == ~IsDaemon \/ there \notin FromFork1 =>
                   proc'.cwd = "start" /\ \A n \in 0 .. 2 : proc'.fd[n] = "tty"
    Bare == proc'.fd[1] = "server" => IsDaemon /\ proc'.log = "none"
<1>9. ASSUME IsDaemon => Way, Terminal, Bare PROVE Daemonised'
  BY <1>6, <1>8, <1>9
<1>10. CASE KeepsButLeader /\ proc'.leader = proc.leader
  <2>1. IsDaemon => Way
    BY <1>2, <1>3, <1>4, <1>5, <1>7, <1>10 DEF KeepsButLeader
  <2>2. Terminal /\ Bare
    BY <1>2, <1>5, <1>10 DEF KeepsButLeader
  <2>3. QED
    BY <1>9, <2>1, <2>2
<1>11. CASE /\ here \in {"fork1", "fork2"}
            /\ KeepsButLeader /\ (gone' = "no" => ~proc'.leader)
  <2>1. IsDaemon => Way
    BY <1>2, <1>3, <1>4, <1>5, <1>7, <1>11 DEF KeepsButLeader
  <2>2. Terminal /\ Bare
    BY <1>2, <1>5, <1>11 DEF KeepsButLeader
  <2>3. QED
    BY <1>9, <2>1, <2>2
<1>12. CASE /\ here = "setsid" /\ proc'.session = "own"
            /\ proc'.cwd = proc.cwd /\ proc'.log = proc.log /\ proc'.fd = proc.fd
  <2>1. IsDaemon => Way
    BY <1>2, <1>3, <1>4, <1>5, <1>7, <1>12
  <2>2. Terminal /\ Bare
    BY <1>2, <1>5, <1>12
  <2>3. QED
    BY <1>9, <2>1, <2>2
<1>13. CASE /\ here = "chdir" /\ proc'.session = proc.session /\ proc'.leader = proc.leader
            /\ proc'.log = proc.log /\ proc'.fd = proc.fd
  <2>1. IsDaemon => Way
    BY <1>2, <1>3, <1>4, <1>5, <1>7, <1>13
  <2>2. Terminal /\ Bare
    BY <1>2, <1>4, <1>5, <1>13
  <2>3. QED
    BY <1>9, <2>1, <2>2
<1>14. CASE /\ here = "streams" /\ proc'.session = proc.session /\ proc'.leader = proc.leader
            /\ proc'.log = proc.log /\ proc'.cwd = proc.cwd /\ proc'.fd[1] # "server"
  <2>1. IsDaemon => Way
    BY <1>2, <1>3, <1>4, <1>5, <1>7, <1>14
  <2>2. Terminal /\ Bare
    BY <1>2, <1>4, <1>5, <1>14
  <2>3. QED
    BY <1>9, <2>1, <2>2
<1>15. CASE /\ here = "log" /\ proc'.session = proc.session /\ proc'.leader = proc.leader
            /\ proc'.cwd = proc.cwd /\ proc'.fd[0] = proc.fd[0]
            /\ proc'.log # "none" => proc'.fd[1] = "log" /\ proc'.fd[2] = "log"
            /\ proc'.log = "none" => proc'.fd = proc.fd
  <2>1. IsDaemon => Way
    BY <1>2, <1>3, <1>4, <1>5, <1>7, <1>15
  <2>2. Terminal /\ Bare
    BY <1>2, <1>4, <1>5, <1>15
  <2>3. QED
    BY <1>9, <2>1, <2>2
<1>16. CASE /\ here = "socket" /\ proc'.session = proc.session /\ proc'.leader = proc.leader
            /\ proc'.cwd = proc.cwd /\ proc'.log = proc.log
            /\ proc'.fd = Occupy(proc.fd, "server")
  <2>1. /\ \A n \in 0 .. 2 : proc.fd[n] # "free" => proc'.fd[n] = proc.fd[n]
        /\ \A n \in 0 .. 2 : proc'.fd[n] \in {proc.fd[n], "server"}
    BY <1>1, <1>16, OccupyType
  <2>2. IsDaemon => Way
    BY <1>2, <1>3, <1>4, <1>5, <1>7, <1>16, <2>1
  <2>3. Terminal /\ Bare
    BY <1>2, <1>4, <1>5, <1>16, <2>1
  <2>4. QED
    BY <1>9, <2>2, <2>3
<1>17. QED
  BY <1>10, <1>11, <1>12, <1>13, <1>14, <1>15, <1>16, ProcEffect DEF KeepsButLeader, here

-----------------------------------------------------------------------------
(* The workers. *)

\* main() does not go back.
LEMMA Onward ==
    ASSUME Records, [Next]_vars
    PROVE  /\ pc[Main] \in FromCert1 => pc'[Main] \in FromCert1 \cup {"failed"}
           /\ pc[Main] \in FromCert2 => pc'[Main] \in FromCert2 \cup {"failed"}
           /\ pc[Main] \in FromPool \cup {"failed"} => pc'[Main] \in FromPool \cup {"failed"}
           /\ pc'[Main] = "pool" => pc[Main] \in {"pool", "key1"}
           /\ pc[Main] = "failed" => pc'[Main] = "failed"
           /\ Fails => pc'[Main] = "failed" /\ pc[Main] \in FromPool
<1>1. "failed" \in MainPc /\ Places
  BY Positions DEF FromFork1, FromFork2, FromChdir, FromStreams, FromLog, FromNew1, Records
<1> USE DEF Moves, FromFork1, FromFork2, FromChdir, FromStreams, FromLog, FromNew1, FromCert1,
            FromPool, FromNew2, FromCert2, FromPublish
<1>2. Fails => pc'[Main] = "failed" /\ pc[Main] \in FromPool
  BY <1>1, GotoMain DEF Fails
<1>3. CASE pc'[Main] = pc[Main]
  BY <1>2, <1>3
<1>4. CASE Early
  BY <1>2, <1>4 DEF Early
<1>5. CASE Late
  BY <1>2, <1>5, Positions DEF Late
<1>6. CASE Fails /\ pc'[Main] = "failed"
  BY <1>2, <1>6 DEF Fails
<1>7. QED
  BY <1>3, <1>4, <1>5, <1>6, MainMove

\* A worker's own steps, from l to m.
Goes(w, l, m) == gone = "no" /\ frame[w] = <<>> /\ pc[w] = l /\ pc'[w] = m

WorkerMoves(w) ==
    \/ Start(w) /\ Goes(w, "new", "pop")
    \/ PopLock(w) /\ \E l \in {"pop", "relock"} : Goes(w, l, "check")
    \/ PopEnd(w) /\ pool.shutdown /\ Goes(w, "check", "exited")
    \/ PopEnd(w) /\ ~pool.shutdown /\ pool.queue = 0 /\ Goes(w, "check", "wait")
    \/ PopEnd(w) /\ ~pool.shutdown /\ pool.queue # 0 /\ Goes(w, "check", "taken")
    \/ Serve(w) /\ \E m \in {"exited", "peek"} : Goes(w, "taken", m)
    \/ Peek(w) /\ \E m \in {"ssl", "pop"} : Goes(w, "peek", m)
    \/ SslNew(w) /\ \E m \in {"get", "pop"} : Goes(w, "ssl", m)
    \/ ReadLock(w) /\ Goes(w, "get", "send")
    \/ ReloadLock(w) /\ Goes(w, "get", "reload")
    \/ ReloadFree(w) /\ Goes(w, "reload", "swap")
    \/ ReloadEnd(w) /\ \E l \in {"reload", "swap"} : Goes(w, l, "get")
    \/ NoLock(w) /\ Goes(w, "get", "send")
    \/ Sent(w) /\ \E m \in {"get", "pop"} : Goes(w, "send", m)

\* A worker's program counter.
LEMMA WorkerMove ==
    ASSUME Records, [Next]_vars, NEW w \in Workers
    PROVE  \/ pc'[w] = pc[w]
           \/ pc[w] = "wait" /\ pc'[w] = "relock"
           \/ /\ pc[w] = "unborn" /\ pc'[w] \in {"new", "uncreated"}
              /\ pc[Main] = "spawn" /\ pc'[Main] = "spawn"
           \/ WorkerMoves(w)
<1>1. Places /\ Main \in Threads /\ w \in Threads /\ w # Main
  BY LifecycleAssumption DEF Records, Threads
<1>2. WorkerPc = {"unborn", "uncreated", "new", "pop", "check", "wait", "relock", "taken", "peek",
                  "ssl", "get", "reload", "swap", "send", "exited"}
  BY DEF WorkerPc
<1>3. ASSUME NEW l, NEW m \in WorkerPc, Step(w, l, m) PROVE Goes(w, l, m)
  BY <1>1, <1>3, GotoWorker DEF Step, At, Goes
<1>4. CASE WorkerStep(w) \/ SpuriousWakeup(w) \/ Sent(w) \/ BrokenPipe(w)
  <2>1. CASE Start(w)
    BY <1>2, <1>3, <2>1 DEF Start, WorkerMoves
  <2>2. CASE PopLock(w)
    BY <1>2, <1>3, <2>2 DEF PopLock, WorkerMoves
  <2>3. CASE PopEnd(w)
    BY <1>2, <1>3, <2>3 DEF PopEnd, WorkerMoves
  <2>4. CASE Serve(w)
    BY <1>2, <1>3, <2>4 DEF Serve, WorkerMoves
  <2>5. CASE Peek(w)
    BY <1>2, <1>3, <2>5 DEF Peek, WorkerMoves
  <2>6. CASE SslNew(w)
    BY <1>2, <1>3, <2>6 DEF SslNew, WorkerMoves, End
  <2>7. CASE ReadLock(w) \/ ReloadLock(w) \/ ReloadFree(w) \/ ReloadEnd(w) \/ NoLock(w)
    BY <1>2, <1>3, <2>7 DEF ReadLock, ReloadLock, ReloadFree, ReloadEnd, NoLock, WorkerMoves
  <2>8. CASE Sent(w)
    BY <1>2, <1>3, <2>8 DEF Sent, WorkerMoves
  <2>9. CASE SpuriousWakeup(w)
    BY <1>2, <1>3, <2>9 DEF SpuriousWakeup, Goes
  <2>10. CASE BrokenPipe(w)
    BY <2>10 DEF BrokenPipe, End
  <2>11. QED
    BY <1>4, <2>1, <2>2, <2>3, <2>4, <2>5, <2>6, <2>7, <2>8, <2>9, <2>10 DEF WorkerStep
<1>5. ASSUME NEW v \in Workers \ {w}, NEW l \in WorkerPc, Goto(v, l) PROVE pc'[w] = pc[w]
  BY <1>1, <1>5, GotoWorker
<1>6. ASSUME NEW v \in Workers \ {w}, WorkerStep(v) \/ SpuriousWakeup(v) \/ Sent(v) \/ BrokenPipe(v)
      PROVE  pc'[w] = pc[w]
  <2>1. pc' = pc \/ \E l \in WorkerPc : Goto(v, l)
    <3>1. CASE Start(v) \/ PopLock(v) \/ PopEnd(v) \/ Serve(v) \/ Peek(v) \/ SslNew(v)
      BY <1>2, <3>1 DEF Start, PopLock, PopEnd, Serve, Peek, SslNew, Step, End
    <3>2. CASE ReadLock(v) \/ ReloadLock(v) \/ ReloadFree(v) \/ ReloadEnd(v) \/ NoLock(v)
               \/ SpuriousWakeup(v) \/ Sent(v) \/ BrokenPipe(v)
      BY <1>2, <3>2 DEF ReadLock, ReloadLock, ReloadFree, ReloadEnd, NoLock, SpuriousWakeup, Sent,
                        BrokenPipe, Step, End
    <3>3. QED
      BY <1>6, <3>1, <3>2 DEF WorkerStep
  <2>2. QED
    BY <1>5, <2>1
<1>7. ASSUME NEW t \in Threads, ShutdownStep(t) \/ Signal(t)
      PROVE  pc'[w] = pc[w] \/ (pc[w] = "wait" /\ pc'[w] = "relock")
  <2>1. pc' = pc \/ pc' = Broadcast
    BY <1>7 DEF ShutdownStep, ShutdownLock, ShutdownSet, MutexDestroy, CondDestroy, CacheDestroy,
                FreeContext, NoContext, ClearContext, Exit, Signal, End
  <2>2. QED
    BY <1>1, <2>1 DEF Broadcast
<1>8. LogToServer \/ Gone \/ UNCHANGED vars => pc' = pc
  BY DEF LogToServer, End, Gone, vars
<1>9. ASSUME pc' = pc \/ \E l \in MainPc : Goto(Main, l) PROVE pc'[w] = pc[w]
  BY <1>1, <1>9, GotoMain
<1>10. CASE MainStep \/ Accept
  <2>1. {"getcwd", "load", "args", "fork1", "new1", "setsid", "fork2", "chdir", "streams", "log",
         "pool", "spawn", "socket", "new2", "publish", "accept", "push", "hold", "return",
         "failed"} \subseteq MainPc
    BY Positions DEF FromFork1, FromFork2, FromChdir, FromStreams, FromLog, FromNew1, FromCert1,
                     FromPool, FromNew2, FromCert2, FromPublish
  <2>2. ASSUME NEW i \in 1 .. 2 PROVE CERT[i] \in MainPc /\ KEY[i] \in MainPc
    BY Positions DEF FromFork1, FromFork2, FromChdir, FromStreams, FromLog, FromNew1, FromCert1,
                     FromPool, FromNew2, FromCert2
  <2>3. CASE Command \/ GetCwd \/ Load \/ Args
    BY <1>9, <2>1, <2>3 DEF Command, End, GetCwd, Call, Load, Args, Step
  <2>4. CASE Fork("fork1", "setsid") \/ SetSid \/ SecondFork \/ Chdir \/ Streams \/ OpenLog
    BY <1>9, <2>1, <2>4 DEF Fork, SetSid, SecondFork, Chdir, Streams, OpenLog, Call, Step, End
  <2>5. ASSUME NEW i \in 1 .. 2, NewContext(i) \/ UseCertificate(i) \/ UseKey(i)
        PROVE  pc' = pc \/ \E l \in MainPc : Goto(Main, l)
    BY <2>1, <2>2, <2>5 DEF NewContext, UseCertificate, UseKey, UseFile, Abort, End
  <2>6. CASE InitPool \/ SpawnEnd \/ Publish \/ AcceptBreak \/ Return \/ Socket \/ PushLock \/ Accept
    BY <1>9, <2>1, <2>6 DEF InitPool, SpawnEnd, Publish, AcceptBreak, Return, Socket, PushLock,
                            Accept, Abort, Step, End
  <2>7. CASE Spawn
    <3>1. PICK v \in Unborn, l \in {"new", "uncreated"} : Goto(v, l)
      BY <2>7 DEF Spawn
    <3>2. v \in Workers /\ pc[v] = "unborn" /\ l \in WorkerPc /\ pc[Main] = "spawn"
      BY <2>7 DEF Unborn, WorkerPc, Spawn, At
    <3>3. QED
      BY <1>1, <3>1, <3>2, GotoWorker
  <2>8. CASE PushEnd
    <3>1. PICK v \in Waiting \cup {Main} : pc' = [pc EXCEPT ![v] = "relock", ![Main] = "accept"]
      BY <2>8 DEF PushEnd
    <3>2. pc \in [Threads -> MainPc \cup WorkerPc]
      BY <1>1 DEF Places
    <3>3. QED
      BY <1>1, <3>1, <3>2 DEF Waiting
  <2>9. QED
    BY <1>9, <1>10, <2>3, <2>4, <2>5, <2>6, <2>7, <2>8 DEF MainStep
<1>11. QED
  BY <1>4, <1>6, <1>7, <1>8, <1>10 DEF Next, Environment

\* The queue and the flag.
LEMMA PoolEffect ==
    ASSUME Records, [Next]_vars
    PROVE  /\ pool.shutdown => pool'.shutdown
           /\ pool'.shutdown => pool.shutdown \/ \E t \in Threads : ShutdownSet(t)
           /\ pool'.queue <= pool.queue \/ PushEnd
           /\ \A t \in Threads : ShutdownSet(t) => pool'.shutdown
<1>1. DOMAIN pool = PoolFields /\ pool.queue \in Nat
  BY DEF Records, PoolOK
<1>2. \A t \in Threads : ShutdownSet(t) => pool'.shutdown
  BY <1>1 DEF ShutdownSet, PoolFields
<1>3. CASE pool' = pool
  BY <1>1, <1>2, <1>3
<1>4. CASE Accept
  BY <1>1, <1>2, <1>4 DEF Accept, PoolFields
<1>5. CASE PushLock
  BY <1>1, <1>2, <1>5 DEF PushLock, Acquire, PoolFields
<1>6. CASE PushEnd
  BY <1>1, <1>2, <1>6 DEF PushEnd, PoolFields
<1>7. ASSUME NEW w \in Workers, PopLock(w)
      PROVE  pool'.shutdown = pool.shutdown /\ pool'.queue <= pool.queue
  BY <1>1, <1>7 DEF PopLock, Acquire, PoolFields
<1>8. ASSUME NEW w \in Workers, PopEnd(w)
      PROVE  pool'.shutdown = pool.shutdown /\ pool'.queue <= pool.queue
  <2>1. /\ pool'.shutdown = pool.shutdown
        /\ pool'.queue = IF pool.queue > 0 /\ ~pool.shutdown THEN pool.queue - 1 ELSE pool.queue
    BY <1>1, <1>8 DEF PopEnd, PoolFields
  <2>2. QED
    BY <1>1, <2>1
<1>9. ASSUME NEW t \in Threads, ShutdownLock(t) \/ MutexDestroy(t)
      PROVE  pool'.shutdown = pool.shutdown /\ pool'.queue <= pool.queue
  BY <1>1, <1>9 DEF ShutdownLock, MutexDestroy, Acquire, PoolFields
<1>10. ASSUME NEW t \in Threads, ShutdownSet(t) PROVE pool'.queue <= pool.queue
  BY <1>1, <1>10 DEF ShutdownSet, PoolFields
<1>11. QED
  BY <1>2, <1>3, <1>4, <1>5, <1>6, <1>7, <1>8, <1>9, <1>10, PoolWriters

\* Nobody works before the server listens.
LEMMA EmployedStep ==
    ASSUME Records, Queued, Employed, [Next]_vars
    PROVE  Employed'
<1>1. /\ pc[Main] \in FromPool \cup {"failed"} => pc'[Main] \in FromPool \cup {"failed"}
      /\ pc'[Main] = "pool" => pc[Main] \in {"pool", "key1"}
  BY Onward
<1>2. Serving => Serving'
  BY Entering DEF Serving
<1>3. PushEnd => Serving'
  <2>1. ASSUME PushEnd PROVE pc'[Main] = "accept"
    <3>1. PICK w : pc' = [pc EXCEPT ![w] = "relock", ![Main] = "accept"]
      BY <2>1 DEF PushEnd
    <3>2. Main \in Threads /\ pc \in [Threads -> MainPc \cup WorkerPc]
      BY DEF Records, Threads, Places
    <3>3. QED
      BY <3>1, <3>2
  <2>2. QED
    BY <2>1 DEF Serving
<1>4. ASSUME NEW w \in Workers, pc[w] = "unborn", pc[Main] # "spawn" PROVE pc'[w] = "unborn"
  BY <1>4, WorkerMove DEF WorkerMoves, Goes
<1>5. ASSUME pc'[Main] \notin FromPool \cup {"failed"} \/ pc'[Main] = "pool", NEW w \in Workers
      PROVE  pc'[w] = "unborn"
  <2>1. "key1" \notin FromPool \cup {"failed"} /\ "spawn" \in FromPool
    BY DEF FromPool, FromNew2, FromCert2, FromPublish
  <2>2. pc[w] = "unborn"
    BY <1>1, <1>5, <2>1 DEF Employed
  <2>3. CASE pc[Main] # "spawn"
    BY <1>4, <2>2, <2>3
  <2>4. CASE pc[Main] = "spawn"
    BY <1>1, <1>5, <2>1, <2>4
  <2>5. QED
    BY <2>3, <2>4
<1>6. pool'.queue > 0 => Serving'
  <2>1. pool'.queue <= pool.queue \/ PushEnd
    BY PoolEffect
  <2>2. pool.queue \in Nat /\ pool'.queue \in Nat
    BY PoolStep DEF Records, PoolOK
  <2>3. pool.queue > 0 => Serving
    BY DEF Employed
  <2>4. QED
    BY <1>2, <1>3, <2>1, <2>2, <2>3
<1>7. ASSUME NEW w \in Workers, pc'[w] \in Busy PROVE Serving'
  <2>1. CASE pc[w] \in Busy
    BY <1>2, <2>1 DEF Employed
  <2>2. CASE pc[w] \notin Busy
    <3>1. pool.queue # 0
      BY <1>7, <2>2, WorkerMove DEF WorkerMoves, Goes, Busy
    <3>2. pool.queue > 0
      BY <3>1 DEF Records, PoolOK
    <3>3. QED
      BY <1>2, <3>2 DEF Employed
  <2>3. QED
    BY <2>1, <2>2
<1>8. QED
  BY <1>5, <1>6, <1>7 DEF Employed

\* The contexts, step by step: made, given up, filled, remembered by a worker,
\* freed, forgotten.
Made(i)     == /\ tls'.ctx = [tls.ctx EXCEPT ![i] = "new"] /\ tls'.global = i
               /\ tls'.cap = tls.cap /\ tls'.frees = tls.frees
Forgotten   == tls'.global = 0 /\ tls'.ctx = tls.ctx /\ tls'.cap = tls.cap /\ tls'.frees = tls.frees
Filled(how) == /\ tls.global # 0
               /\ tls'.ctx = [tls.ctx EXCEPT ![tls.global] = IF @ = "freed" THEN @ ELSE how]
               /\ tls'.global = tls.global /\ tls'.cap = tls.cap /\ tls'.frees = tls.frees
Remembered(w) ==
               /\ tls'.cap = [tls.cap EXCEPT ![w] = tls.global]
               /\ tls'.ctx = tls.ctx /\ tls'.global = tls.global /\ tls'.frees = tls.frees
Freed       == /\ tls.global # 0
               /\ tls'.ctx = [tls.ctx EXCEPT ![tls.global] = "freed"]
               /\ tls'.frees = [tls.frees EXCEPT ![tls.global] = @ + 1]
               /\ tls'.global = tls.global /\ tls'.cap = tls.cap

\* Who changes the contexts.
LEMMA TlsEffect ==
    ASSUME Records, [Next]_vars
    PROVE  \/ tls' = tls
           \/ \E i \in 1 .. 2 : Moves(NEWCTX[i], CERT[i]) /\ Made(i)
           \/ Forgotten /\ pc[Main] = "new1" /\ pc'[Main] = "new1"
           \/ Forgotten /\ pc[Main] = "new2" /\ pc'[Main] = "failed"
           \/ \E i \in 1 .. 2 : /\ pc[Main] \in {CERT[i], KEY[i]}
                                /\ \E how \in {"cert", "ready"} : Filled(how)
           \/ \E w \in Workers : Start(w) /\ Remembered(w)
           \/ \E t \in Threads : FreeContext(t) /\ Freed
           \/ \E t \in Threads : ClearContext(t) /\ Forgotten
<1>1. DOMAIN tls = TlsFields /\ tls.ctx \in [1 .. 2 -> Contexts] /\ Places
  BY DEF Records, TlsOK
<1>2. ASSUME NEW i \in 1 .. 2, NewContext(i)
      PROVE  \/ Moves(NEWCTX[i], CERT[i]) /\ Made(i)
             \/ Forgotten /\ i = 1 /\ pc[Main] = "new1" /\ pc'[Main] = "new1"
             \/ Forgotten /\ i = 2 /\ pc[Main] = "new2" /\ pc'[Main] = "failed"
  <2>1. CASE tls' = [tls EXCEPT !.ctx[i] = "new", !.global = i] /\ Goto(Main, CERT[i])
    <3>1. Made(i)
      BY <1>1, <2>1 DEF Made, TlsFields
    <3>2. CERT[i] \in MainPc
      BY Positions DEF FromFork1, FromFork2, FromChdir, FromStreams, FromLog, FromNew1, FromCert1,
                       FromPool, FromNew2, FromCert2
    <3>3. Moves(NEWCTX[i], CERT[i])
      BY <1>1, <1>2, <2>1, <3>2, GotoMain DEF NewContext, At, Moves
    <3>4. QED
      BY <3>1, <3>3
  <2>2. CASE tls' = [tls EXCEPT !.global = 0] /\ Abort(i)
    <3>1. Forgotten
      BY <1>1, <2>2 DEF Forgotten, TlsFields
    <3>2. pc[Main] = NEWCTX[i] /\ "failed" \in MainPc
      BY <1>2, Positions
         DEF NewContext, At, FromFork1, FromFork2, FromChdir, FromStreams, FromLog, FromNew1
    <3>3. IF i = 1 THEN pc' = pc ELSE Goto(Main, "failed")
      BY <2>2 DEF Abort, End
    <3>4. QED
      BY <1>1, <3>1, <3>2, <3>3, Positions, GotoMain
  <2>3. QED
    BY <1>2, <2>1, <2>2 DEF NewContext
<1>3. ASSUME NEW i \in 1 .. 2, NEW l \in {CERT[i], KEY[i]}, NEW found,
             NEW how \in {"cert", "ready"}, NEW next, UseFile(i, l, found, how, next)
      PROVE  tls' = tls \/ (pc[Main] \in {CERT[i], KEY[i]} /\ Filled(how))
  <2>1. CASE /\ tls.global # 0
             /\ tls' = [tls EXCEPT !.ctx[tls.global] = IF @ = "freed" THEN @ ELSE how]
    <3>1. Filled(how)
      BY <1>1, <2>1 DEF Filled, TlsFields
    <3>2. QED
      BY <1>3, <3>1 DEF UseFile, At
  <2>2. QED
    BY <1>3, <2>1 DEF UseFile
<1>4. ASSUME NEW i \in 1 .. 2, UseCertificate(i) \/ UseKey(i)
      PROVE  \/ tls' = tls
             \/ pc[Main] \in {CERT[i], KEY[i]} /\ \E how \in {"cert", "ready"} : Filled(how)
  <2>1. CASE UseCertificate(i)
    BY <1>3, <2>1 DEF UseCertificate
  <2>2. CASE UseKey(i)
    BY <1>3, <2>2 DEF UseKey
  <2>3. QED
    BY <1>4, <2>1, <2>2
<1>5. ASSUME NEW w \in Workers, Start(w) PROVE Remembered(w)
  BY <1>1, <1>5 DEF Start, Remembered, TlsFields
<1>6. ASSUME NEW t \in Threads, FreeContext(t) PROVE Freed
  BY <1>1, <1>6 DEF FreeContext, Freed, TlsFields
<1>7. ASSUME NEW t \in Threads, ClearContext(t) PROVE Forgotten
  BY <1>1, <1>7 DEF ClearContext, Forgotten, TlsFields
<1>8. CASE Command \/ GetCwd \/ Load \/ Args \/ Fork("fork1", "setsid") \/ SetSid \/ SecondFork
           \/ Chdir \/ Streams \/ OpenLog \/ InitPool \/ Spawn \/ SpawnEnd
  BY <1>8 DEF Command, GetCwd, Load, Args, Fork, SetSid, SecondFork, Chdir, Streams, OpenLog,
              InitPool, Spawn, SpawnEnd
<1>9. CASE Socket \/ Publish \/ AcceptBreak \/ Return \/ PushLock \/ PushEnd \/ Accept
           \/ LogToServer \/ Gone \/ UNCHANGED vars
  BY <1>9 DEF Socket, Publish, AcceptBreak, Return, PushLock, PushEnd, Accept, LogToServer,
              Gone, vars
<1>10. ASSUME NEW w \in Workers, WorkerStep(w) \/ SpuriousWakeup(w) \/ Sent(w) \/ BrokenPipe(w)
       PROVE  tls' = tls \/ Start(w)
  BY <1>10 DEF WorkerStep, PopLock, PopEnd, Serve, Peek, SslNew, ReadLock, ReloadLock,
               ReloadFree, ReloadEnd, NoLock, SpuriousWakeup, Sent, BrokenPipe
<1>11. ASSUME NEW t \in Threads, ShutdownStep(t) \/ Signal(t)
       PROVE  tls' = tls \/ FreeContext(t) \/ ClearContext(t)
  BY <1>11 DEF ShutdownStep, ShutdownLock, ShutdownSet, MutexDestroy, CondDestroy, CacheDestroy,
               NoContext, Exit, Signal
<1>12. QED
  BY <1>2, <1>4, <1>5, <1>6, <1>7, <1>8, <1>9, <1>10, <1>11 DEF Next, MainStep, Environment

\* Reading the key completes a context.
LEMMA KeyRead ==
    ASSUME Records, NEW i \in 1 .. 2, UseKey(i), pc'[Main] \in {"pool", "publish"}
    PROVE  Filled("ready") /\ pc[Main] = KEY[i]
<1>1. DOMAIN tls = TlsFields /\ tls.ctx \in [1 .. 2 -> Contexts] /\ Places
  BY DEF Records, TlsOK
<1>2. PICK found, next : UseFile(i, KEY[i], found, "ready", next)
  BY DEF UseKey
<1>3. pc[Main] = KEY[i] /\ KEY[i] \in {"key1", "key2"} /\ "failed" \in MainPc
  BY <1>2, Positions
     DEF UseFile, At, FromFork1, FromFork2, FromChdir, FromStreams, FromLog, FromNew1
<1>4. ~(pc' = pc) /\ ~Abort(i)
  BY <1>1, <1>3, GotoMain DEF Abort, End
<1>5. /\ tls.global # 0
      /\ tls' = [tls EXCEPT !.ctx[tls.global] = IF @ = "freed" THEN @ ELSE "ready"]
  BY <1>2, <1>4 DEF UseFile, End
<1>6. QED
  BY <1>1, <1>3, <1>5 DEF Filled, TlsFields

\* A new context is the global one.
LEMMA ContextMade ==
    ASSUME Records, NEW i \in 1 .. 2, NewContext(i), pc'[Main] = CERT[i]
    PROVE  Made(i)
<1>1. DOMAIN tls = TlsFields /\ tls.ctx \in [1 .. 2 -> Contexts] /\ Places
  BY DEF Records, TlsOK
<1>2. pc[Main] = NEWCTX[i] /\ "failed" \in MainPc
  BY Positions DEF NewContext, At, FromFork1, FromFork2, FromChdir, FromStreams, FromLog, FromNew1
<1>3. ~(pc' = pc) /\ ~Abort(i)
  BY <1>1, <1>2, Positions, GotoMain DEF Abort, End
<1>4. tls' = [tls EXCEPT !.ctx[i] = "new", !.global = i]
  BY <1>3 DEF NewContext
<1>5. QED
  BY <1>1, <1>4 DEF Made, TlsFields

\* The contexts: whichever a worker has found is complete when it serves.
LEMMA ContextualStep ==
    ASSUME Records, Queued, Employed, Contextual, Marked, [Next]_vars
    PROVE  Contextual'
<1>1. /\ tls.ctx \in [1 .. 2 -> Contexts] /\ tls.global \in 0 .. 2 /\ tls.cap \in [Workers -> 0 .. 2]
      /\ pool.queue \in Nat
  BY DEF Records, TlsOK, PoolOK
<1>2. /\ NEWCTX[1] = "new1" /\ CERT[1] = "cert1" /\ KEY[1] = "key1"
      /\ NEWCTX[2] = "new2" /\ CERT[2] = "cert2" /\ KEY[2] = "key2"
  BY Positions
<1>3. /\ FromPublish \subseteq FromCert2 /\ FromCert2 \subseteq FromPool /\ FromPool \subseteq FromCert1
      /\ "new1" \notin FromCert1 /\ "failed" \notin FromCert1
      /\ "cert1" \in FromCert1 \ FromPool /\ "key1" \in FromCert1 \ FromPool
      /\ "new2" \in FromPool \ FromCert2 /\ "cert2" \in FromCert2 \ FromPublish
      /\ "key2" \in FromCert2 \ FromPublish
  BY DEF FromCert1, FromPool, FromNew2, FromCert2, FromPublish
<1>4. /\ pc[Main] \in FromCert1 => pc'[Main] \in FromCert1 \cup {"failed"}
      /\ pc[Main] \in FromCert2 => pc'[Main] \in FromCert2 \cup {"failed"}
      /\ pc[Main] = "failed" => pc'[Main] = "failed"
      /\ Fails => pc[Main] \in FromPool
  BY Onward
<1>5. /\ pc'[Main] \in FromCert1 =>
            pc[Main] \in FromCert1 \/ (NewContext(1) /\ pc'[Main] = "cert1")
      /\ pc'[Main] \in FromPool =>
            pc[Main] \in FromPool \/ (UseKey(1) /\ pc'[Main] = "pool")
      /\ pc'[Main] \in FromCert2 =>
            pc[Main] \in FromCert2 \/ (NewContext(2) /\ pc'[Main] = "cert2")
      /\ pc'[Main] \in FromPublish =>
            pc[Main] \in FromPublish \/ (UseKey(2) /\ pc'[Main] = "publish")
      /\ pc'[Main] = "failed" => pc[Main] = "failed" \/ Fails
  BY Entering DEF Moves
<1>6. /\ NewContext(1) /\ pc'[Main] = "cert1" => Made(1)
      /\ NewContext(2) /\ pc'[Main] = "cert2" => Made(2)
      /\ UseKey(1) /\ pc'[Main] = "pool" => Filled("ready") /\ pc[Main] = "key1"
      /\ UseKey(2) /\ pc'[Main] = "publish" => Filled("ready") /\ pc[Main] = "key2"
  BY <1>2, ContextMade, KeyRead
<1>7. /\ pc[Main] \in FromCert1 \ FromCert2 => tls.global \in {0, 1}
      /\ pc[Main] \in FromCert2 => tls.global \in {0, 2}
      /\ pc[Main] \in FromCert1 /\ tls.global = 0 => pool.shutdown
      /\ pc[Main] \in FromPool \cup {"failed"} => tls.ctx[1] \in {"ready", "freed"}
      /\ pc[Main] \in FromPublish => tls.ctx[2] \in {"ready", "freed"}
  BY DEF Contextual
<1>8. pool.shutdown => pool'.shutdown
  BY PoolEffect
<1>9. ASSUME NEW t \in Threads, ClearContext(t) PROVE pool.shutdown
  BY <1>9 DEF ClearContext, Go, In, Marked, Top, PastSet
<1> DEFINE Ready == {"ready", "freed"}
           Next1 == /\ pc'[Main] \in FromCert1 \ FromCert2 => tls'.global \in {0, 1}
                    /\ pc'[Main] \in FromCert2 => tls'.global \in {0, 2}
                    /\ pc'[Main] \in FromCert1 /\ tls'.global = 0 => pool'.shutdown
           Next2 == /\ pc'[Main] \in FromPool \cup {"failed"} => tls'.ctx[1] \in Ready
                    /\ pc'[Main] \in FromPublish => tls'.ctx[2] \in Ready
\* The contexts that main() has entered a new part of its way with.
<1>10. /\ Made(1) => tls'.global = 1
       /\ Made(2) => tls'.global = 2
       /\ Filled("ready") => tls'.ctx[tls.global] \in Ready /\ tls'.global = tls.global
                             /\ tls.global # 0
  BY <1>1 DEF Made, Filled
<1> HIDE DEF Ready
<1>11. Next1 /\ Next2
  <2> DEFINE Both == Next1 /\ Next2
  <2>1. CASE tls' = tls
    BY <1>3, <1>4, <1>5, <1>6, <1>7, <1>8, <1>10, <2>1 DEF Ready
  <2>2. ASSUME NEW i \in 1 .. 2, Moves(NEWCTX[i], CERT[i]), Made(i) PROVE Both
    <3>1. tls'.global = i /\ \A j \in 1 .. 2 : j # i => tls'.ctx[j] = tls.ctx[j]
      BY <1>1, <2>2 DEF Made
    <3>2. pc[Main] = NEWCTX[i] /\ pc'[Main] = CERT[i]
      BY <2>2 DEF Moves
    <3>3. CASE i = 1
      BY <1>2, <1>3, <3>1, <3>2, <3>3
    <3>4. CASE i = 2
      BY <1>2, <1>3, <1>7, <3>1, <3>2, <3>4 DEF Ready
    <3>5. QED
      BY <3>3, <3>4
  <2>3. CASE Forgotten /\ pc[Main] = "new1" /\ pc'[Main] = "new1"
    BY <1>3, <1>7, <2>3
  <2>4. CASE Forgotten /\ pc[Main] = "new2" /\ pc'[Main] = "failed"
    BY <1>3, <1>7, <2>4 DEF Forgotten, Ready
  <2>5. ASSUME NEW i \in 1 .. 2, pc[Main] \in {CERT[i], KEY[i]}, NEW how \in {"cert", "ready"},
               Filled(how)
        PROVE  Both
    <3>1. /\ tls'.global = tls.global /\ tls.global # 0
          /\ \A j \in 1 .. 2 : j # tls.global => tls'.ctx[j] = tls.ctx[j]
      BY <1>1, <2>5 DEF Filled
    <3>2. tls.global = i
      BY <1>1, <1>2, <1>3, <1>7, <2>5, <3>1
    <3>3. Next1
      BY <1>2, <1>3, <1>4, <1>5, <1>6, <1>7, <1>8, <2>5, <3>1, <3>2
    <3>4. pc'[Main] \in FromPool \cup {"failed"} => tls'.ctx[1] \in Ready
      <4>1. CASE i = 1
        BY <1>2, <1>3, <1>4, <1>5, <1>6, <1>10, <2>5, <3>2, <4>1
      <4>2. CASE i = 2
        BY <1>2, <1>3, <1>7, <2>5, <3>1, <3>2, <4>2 DEF Ready
      <4>3. QED
        BY <4>1, <4>2
    <3>5. pc'[Main] \in FromPublish => tls'.ctx[2] \in Ready
      <4>1. pc[Main] \notin FromPublish
        BY <1>2, <1>3, <2>5
      <4>2. QED
        BY <1>2, <1>3, <1>5, <1>6, <1>7, <1>10, <4>1
    <3>6. QED
      BY <3>3, <3>4, <3>5
  <2>6. ASSUME NEW w \in Workers, Remembered(w) PROVE Both
    BY <1>3, <1>4, <1>5, <1>6, <1>7, <1>8, <1>10, <2>6 DEF Ready, Remembered
  <2>7. CASE Freed
    <3>1. /\ tls'.global = tls.global /\ tls.global # 0
          /\ \A j \in 1 .. 2 : tls'.ctx[j] = tls.ctx[j] \/ tls'.ctx[j] = "freed"
      BY <1>1, <2>7 DEF Freed
    <3>2. Next1
      BY <1>3, <1>4, <1>5, <1>6, <1>7, <1>8, <1>10, <3>1
    <3>3. Next2
      BY <1>3, <1>5, <1>6, <1>7, <1>10, <1>4, <3>1 DEF Ready
    <3>4. QED
      BY <3>2, <3>3
  <2>8. ASSUME NEW t \in Threads, ClearContext(t), Forgotten PROVE Both
    <3>1. pool'.shutdown /\ tls'.global = 0 /\ tls'.ctx = tls.ctx
      BY <1>8, <1>9, <2>8 DEF Forgotten
    <3>2. QED
      BY <1>3, <1>4, <1>5, <1>6, <1>7, <1>10, <3>1 DEF Ready
  <2>9. QED
    BY <2>1, <2>2, <2>3, <2>4, <2>5, <2>6, <2>7, <2>8, TlsEffect
\* A worker that has found no context has no connection.
<1>12. ASSUME NEW w \in Workers, tls'.cap[w] = 0
       PROVE  /\ pc'[w] \notin Busy
              /\ pc'[w] \in {"pop", "check", "wait", "relock"} =>
                    pool'.shutdown \/ pc'[Main] = "failed"
  <2>1. CASE Start(w) /\ Remembered(w)
    <3>1. pc[w] = "new" /\ pc'[w] = "pop"
      <4>1. "pop" \in WorkerPc
        BY DEF WorkerPc
      <4>2. QED
        BY <2>1, <4>1, GotoWorker DEF Start, Step, At, Records
    <3>2. tls.global = 0
      BY <1>1, <1>12, <2>1 DEF Remembered
    <3>3. pc[Main] \in FromPool \cup {"failed"}
      BY <3>1 DEF Employed
    <3>4. pool.shutdown \/ pc[Main] = "failed"
      BY <1>3, <1>7, <3>2, <3>3
    <3>5. QED
      BY <1>4, <1>8, <3>1, <3>4 DEF Busy
  <2>2. CASE tls'.cap[w] = tls.cap[w]
    <3>1. /\ pc[w] \notin Busy
          /\ pc[w] \in {"pop", "check", "wait", "relock"} => pool.shutdown \/ pc[Main] = "failed"
      BY <1>12, <2>2 DEF Contextual
    <3>2. pc[Main] = "failed" => pool.queue = 0
      BY <1>1 DEF Employed, Serving
    <3>3. CASE pc'[w] = pc[w]
      BY <1>4, <1>8, <3>1, <3>3
    <3>4. CASE pc[w] = "wait" /\ pc'[w] = "relock"
      BY <1>4, <1>8, <3>1, <3>4 DEF Busy
    <3>5. CASE pc[w] = "unborn" /\ pc'[w] \in {"new", "uncreated"}
      BY <3>5 DEF Busy
    <3>6. CASE WorkerMoves(w)
      <4>1. CASE Start(w)
        <5>1. Remembered(w)
          <6>1. DOMAIN tls = TlsFields
            BY DEF Records, TlsOK
          <6>2. QED
            BY <4>1, <6>1 DEF Start, Remembered, TlsFields
        <5>2. QED
          BY <2>1, <4>1, <5>1
      <4>2. CASE ~Start(w)
        BY <1>4, <1>8, <3>1, <3>2, <3>6, <4>2 DEF WorkerMoves, Goes, Busy
      <4>3. QED
        BY <4>1, <4>2
    <3>7. QED
      BY <3>3, <3>4, <3>5, <3>6, WorkerMove
  <2>3. tls'.cap[w] = tls.cap[w] \/ (Start(w) /\ Remembered(w))
    <3>1. CASE tls'.cap = tls.cap
      BY <3>1
    <3>2. ASSUME NEW v \in Workers, Start(v), Remembered(v)
          PROVE  tls'.cap[w] = tls.cap[w] \/ (Start(w) /\ Remembered(w))
      <4>1. CASE v = w
        BY <3>2, <4>1
      <4>2. CASE v # w
        BY <1>1, <3>2, <4>2 DEF Remembered
      <4>3. QED
        BY <4>1, <4>2
    <3>3. QED
      BY <3>1, <3>2, TlsEffect DEF Made, Forgotten, Filled, Freed
  <2>4. QED
    BY <2>1, <2>2, <2>3
<1>13. QED
  BY <1>11, <1>12 DEF Contextual, Ready

-----------------------------------------------------------------------------
(* The shutdown. *)

\* What happens on a thread's stack of shutdown sequences.
LEMMA TopStep ==
    ASSUME Records, [Next]_vars, NEW t \in Threads
    PROVE  \/ frame'[t] = frame[t]
           \/ /\ frame'[t] # <<>> /\ Head(frame'[t]) = "lock" /\ Len(frame'[t]) = Len(frame[t]) + 1
              /\ \/ signals' = signals + 1
                 \/ t = Main /\ frame[t] = <<>> /\ Len(frame'[t]) = 1 /\ pc'[Main] = "failed"
           \/ /\ frame[t] # <<>> /\ frame'[t] # <<>> /\ Len(frame'[t]) = Len(frame[t])
              /\ ShutdownStep(t) /\ gone' = gone
              /\ \E s \in Advance : In(t, s[1]) /\ Head(frame'[t]) = s[2]
<1>1. ASSUME NEW u \in Threads, Signal(u)
      PROVE  /\ frame'[u] # <<>> /\ Head(frame'[u]) = "lock" /\ Len(frame'[u]) = Len(frame[u]) + 1
             /\ signals' = signals + 1
             /\ \A v \in Threads \ {u} : frame'[v] = frame[v]
  BY <1>1, PushEffect DEF Signal
<1>2. CASE Fails
  <2>1. /\ frame'[Main] # <<>> /\ Head(frame'[Main]) = "lock" /\ Len(frame'[Main]) = 1
        /\ \A u \in Threads \ {Main} : frame'[u] = frame[u]
        /\ frame[Main] = <<>> /\ Len(frame[Main]) = 0
    BY <1>2, FailEffect DEF Fails
  <2>2. pc'[Main] = "failed"
    BY <1>2, Onward
  <2>3. CASE t = Main
    <3>1. Len(frame'[Main]) = 1 /\ Len(frame[Main]) = 0
      BY <2>1
    <3>2. Len(frame'[Main]) = Len(frame[Main]) + 1
      BY <3>1
    <3>3. QED
      BY <2>1, <2>2, <2>3, <3>2
  <2>4. CASE t # Main
    BY <2>1, <2>4
  <2>5. QED
    BY <2>3, <2>4
<1>3. ASSUME NEW u \in Threads, NEW s \in Advance, ShutdownStep(u), Advances(u, s[1], s[2])
      PROVE  /\ frame[u] # <<>> /\ frame'[u] # <<>> /\ Len(frame'[u]) = Len(frame[u])
             /\ gone' = gone /\ In(u, s[1]) /\ Head(frame'[u]) = s[2]
             /\ \A v \in Threads \ {u} : frame'[v] = frame[v]
  <2>1. s[2] \in FramePc
    BY DEF Advance, FramePc
  <2>2. frame[u] # <<>> /\ Then(u, s[2]) /\ In(u, s[1]) /\ gone' = gone
    BY <1>3 DEF Advances, In
  <2>3. QED
    BY <2>1, <2>2, ThenEffect
<1>4. CASE \E u \in Threads : Signal(u)
  BY <1>1, <1>4
<1>5. CASE \E u \in Threads, s \in Advance : ShutdownStep(u) /\ Advances(u, s[1], s[2])
  BY <1>3, <1>5
<1>6. QED
  BY <1>2, <1>4, <1>5, FrameWriters

\* The position of a shutdown tells its next step.
LEMMA ShutdownAt ==
    ASSUME NEW t \in Threads, ShutdownStep(t)
    PROVE  /\ In(t, "set") => ShutdownSet(t)
           /\ In(t, "cache") => CacheDestroy(t)
           /\ In(t, "ctx") => FreeContext(t) \/ NoContext(t)
  BY DEF ShutdownStep, ShutdownLock, ShutdownSet, MutexDestroy, CondDestroy, CacheDestroy,
         FreeContext, NoContext, ClearContext, Exit, Go, In

\* A shutdown that has begun shows.
LEMMA MarkedStep ==
    ASSUME Records, Marked, [Next]_vars
    PROVE  Marked'
<1>1. tls.ctx \in [1 .. 2 -> Contexts] /\ tls.frees \in [1 .. 2 -> Nat] /\ tls.global \in 0 .. 2
  BY DEF Records, TlsOK
<1>2. /\ pool.shutdown => pool'.shutdown
      /\ pool'.shutdown => pool.shutdown \/ \E t \in Threads : ShutdownSet(t)
      /\ \A t \in Threads : ShutdownSet(t) => pool'.shutdown
  BY PoolEffect
<1>3. \A t \in Threads : frame[t] # <<>> => frame'[t] # <<>>
  BY FrameStep
<1>4. Stopping => Stopping'
  BY <1>3 DEF Stopping
<1>5. ASSUME NEW t \in Threads, Top(t, PastSet)' PROVE pool'.shutdown
  <2>1. CASE frame'[t] = frame[t]
    BY <1>2, <1>5, <2>1 DEF Top, Marked
  <2>2. CASE Head(frame'[t]) = "lock"
    BY <1>5, <2>2 DEF Top, PastSet
  <2>3. ASSUME ShutdownStep(t), NEW s \in Advance, In(t, s[1]), Head(frame'[t]) = s[2]
        PROVE  pool'.shutdown
    <3>1. CASE s[1] = "set"
      BY <1>2, <2>3, <3>1, ShutdownAt
    <3>2. CASE s[1] # "set"
      <4>1. s[2] \in PastSet
        BY <1>5, <2>3 DEF Top
      <4>2. s[1] \in PastSet
        BY <3>2, <4>1 DEF Advance, PastSet
      <4>3. QED
        BY <1>2, <2>3, <4>2 DEF In, Top, Marked
    <3>3. QED
      BY <3>1, <3>2
  <2>4. QED
    BY <2>1, <2>2, <2>3, TopStep
<1>6. pool'.shutdown => Stopping'
  <2>1. ASSUME NEW t \in Threads, ShutdownSet(t) PROVE Stopping
    BY <2>1 DEF ShutdownSet, Go, In, Stopping
  <2>2. QED
    BY <1>2, <1>4, <2>1 DEF Marked
<1>7. ASSUME NEW i \in 1 .. 2, tls'.ctx[i] = "freed" PROVE Stopping' /\ tls'.frees[i] > 0
  <2>1. CASE tls.ctx[i] = "freed" /\ tls'.frees = tls.frees
    BY <1>4, <2>1 DEF Marked
  <2>2. ASSUME NEW t \in Threads, FreeContext(t), Freed PROVE Stopping' /\ tls'.frees[i] > 0
    <3>1. Stopping
      BY <2>2 DEF FreeContext, In, Stopping
    <3>2. CASE tls.global = i
      BY <1>1, <1>4, <2>2, <3>1, <3>2 DEF Freed
    <3>3. CASE tls.global # i
      BY <1>1, <1>4, <1>7, <2>2, <3>3 DEF Freed, Marked
    <3>4. QED
      BY <3>2, <3>3
  <2>3. CASE tls' = tls \/ Forgotten \/ \E w \in Workers : Remembered(w)
    BY <1>7, <2>1, <2>3 DEF Forgotten, Remembered
  <2>4. ASSUME NEW j \in 1 .. 2, Made(j) PROVE Stopping' /\ tls'.frees[i] > 0
    BY <1>1, <1>7, <2>1, <2>4 DEF Made
  <2>5. ASSUME NEW how \in {"cert", "ready"}, Filled(how) PROVE Stopping' /\ tls'.frees[i] > 0
    BY <1>1, <1>7, <2>1, <2>5 DEF Filled
  <2>6. QED
    BY <2>2, <2>3, <2>4, <2>5, TlsEffect
<1>8. QED
  BY <1>5, <1>6, <1>7 DEF Marked

\* Who changes the rwlock, or frees the contents.
LEMMA CacheEffect ==
    ASSUME Records, [Next]_vars
    PROVE  \/ cache'.writer = cache.writer /\ cache'.readers \subseteq cache.readers
              /\ cache'.frees = cache.frees
           \/ cache.writer = NULL /\ cache'.writer = NULL /\ cache'.frees = cache.frees
           \/ \E w \in Workers : /\ cache.writer = NULL /\ cache'.writer = w
                                 /\ cache.readers = {} /\ cache'.readers = {}
                                 /\ cache'.frees = cache.frees
           \/ \E w \in Workers : /\ pc[w] = "reload" /\ pc'[w] = "swap" /\ frame[w] = <<>>
                                 /\ cache'.writer = cache.writer
                                 /\ cache'.readers = cache.readers /\ cache'.frees = cache.frees + 1
           \/ \E w \in Workers : /\ pc[w] \in {"reload", "swap"} /\ pc'[w] = "get"
                                 /\ frame[w] = <<>> /\ cache'.writer = NULL
                                 /\ cache'.readers = cache.readers /\ cache'.frees = 0
           \/ \E t \in Threads : /\ CacheDestroy(t) /\ cache.writer \in {NULL, t}
                                 /\ cache'.writer = t
                                 /\ cache.readers = {} /\ cache'.readers = {}
                                 /\ cache'.frees \in {cache.frees, cache.frees + 1}
<1>1. DOMAIN cache = CacheFields /\ cache.frees \in Nat /\ cache.readers \in SUBSET Workers
  BY DEF Records, CacheOK
<1>2. CASE cache' = cache
  BY <1>2
<1>3. CASE InitPool
  <2>1. cache'.writer = cache.writer /\ cache'.readers = cache.readers /\ cache'.frees = cache.frees
    BY <1>1, <1>3 DEF InitPool, CacheFields
  <2>2. QED
    BY <2>1
<1>4. ASSUME NEW w \in Workers, ReadLock(w)
      PROVE  cache.writer = NULL /\ cache'.writer = NULL /\ cache'.frees = cache.frees
  BY <1>1, <1>4 DEF ReadLock, CacheFields
<1>5. ASSUME NEW w \in Workers, ReloadLock(w)
      PROVE  /\ cache.writer = NULL /\ cache'.writer = w
             /\ cache.readers = {} /\ cache'.readers = {} /\ cache'.frees = cache.frees
  BY <1>1, <1>5 DEF ReloadLock, CacheFields
<1>6. ASSUME NEW w \in Workers, ReloadEnd(w)
      PROVE  /\ pc[w] \in {"reload", "swap"} /\ pc'[w] = "get" /\ frame[w] = <<>>
             /\ cache'.writer = NULL /\ cache'.readers = cache.readers /\ cache'.frees = 0
  <2>1. "get" \in WorkerPc
    BY DEF WorkerPc
  <2>2. pc[w] \in {"reload", "swap"} /\ pc'[w] = "get" /\ frame[w] = <<>>
    BY <1>6, <2>1, GotoWorker DEF ReloadEnd, Step, At, Records
  <2>3. QED
    BY <1>1, <1>6, <2>2 DEF ReloadEnd, CacheFields
<1>7. ASSUME NEW w \in Workers, Sent(w)
      PROVE  /\ cache'.writer = cache.writer /\ cache'.readers \subseteq cache.readers
             /\ cache'.frees = cache.frees
  BY <1>1, <1>7 DEF Sent, CacheFields
<1>8. ASSUME NEW t \in Threads, CacheDestroy(t)
      PROVE  /\ cache.writer \in {NULL, t} /\ cache'.writer = t
             /\ cache.readers = {} /\ cache'.readers = {}
             /\ cache'.frees \in {cache.frees, cache.frees + 1}
  BY <1>1, <1>8 DEF CacheDestroy, KeptBy, CacheFields
<1>9. CASE Command \/ GetCwd \/ Load \/ Args \/ Fork("fork1", "setsid") \/ SetSid \/ SecondFork
           \/ Chdir \/ Streams \/ OpenLog \/ Spawn \/ SpawnEnd
  BY <1>2, <1>9 DEF Command, GetCwd, Load, Args, Fork, SetSid, SecondFork, Chdir, Streams, OpenLog,
                    Spawn, SpawnEnd
<1>10. CASE Socket \/ Publish \/ AcceptBreak \/ Return \/ PushLock \/ PushEnd \/ Accept
            \/ LogToServer \/ Gone \/ UNCHANGED vars
  BY <1>2, <1>10 DEF Socket, Publish, AcceptBreak, Return, PushLock, PushEnd, Accept, LogToServer,
                     Gone, vars
<1>11. ASSUME NEW i \in 1 .. 2, NewContext(i) \/ UseCertificate(i) \/ UseKey(i)
       PROVE  cache' = cache
  BY <1>11 DEF NewContext, UseCertificate, UseKey, UseFile
<1>12. ASSUME NEW w \in Workers, WorkerStep(w) \/ SpuriousWakeup(w) \/ BrokenPipe(w)
       PROVE  cache' = cache \/ ReadLock(w) \/ ReloadLock(w) \/ ReloadFree(w) \/ ReloadEnd(w)
  BY <1>12 DEF WorkerStep, Start, PopLock, PopEnd, Serve, Peek, SslNew, NoLock, SpuriousWakeup,
               BrokenPipe
<1>13. ASSUME NEW t \in Threads, ShutdownStep(t) \/ Signal(t)
       PROVE  cache' = cache \/ CacheDestroy(t)
  BY <1>13 DEF ShutdownStep, ShutdownLock, ShutdownSet, MutexDestroy, CondDestroy, FreeContext,
               NoContext, ClearContext, Exit, Signal
<1>14. CASE \E w \in Workers : WorkerStep(w) \/ SpuriousWakeup(w) \/ Sent(w) \/ BrokenPipe(w)
  <2>1. ASSUME NEW w \in Workers, ReloadFree(w)
        PROVE  /\ pc[w] = "reload" /\ pc'[w] = "swap" /\ frame[w] = <<>>
               /\ cache'.writer = cache.writer /\ cache'.readers = cache.readers
               /\ cache'.frees = cache.frees + 1
    <3>1. "swap" \in WorkerPc
      BY DEF WorkerPc
    <3>2. pc[w] = "reload" /\ pc'[w] = "swap" /\ frame[w] = <<>>
      BY <2>1, <3>1, GotoWorker DEF ReloadFree, Step, At, Records
    <3>3. QED
      BY <1>1, <2>1, <3>2 DEF ReloadFree, CacheFields
  <2>2. QED
    BY <1>2, <1>4, <1>5, <1>6, <1>7, <1>12, <1>14, <2>1
<1>15. CASE \E t \in Threads : ShutdownStep(t) \/ Signal(t)
  BY <1>2, <1>8, <1>13, <1>15
<1>16. QED
  BY <1>2, <1>3, <1>9, <1>10, <1>11, <1>14, <1>15 DEF Next, MainStep, Environment

\* Between the free and the assignment of a reload: a worker goes on from
\* there only by the assignment, and not under a handler.
LEMMA SwapStays ==
    ASSUME Records, [Next]_vars, NEW t \in Threads, pc[t] = "swap"
    PROVE  /\ t \in Workers
           /\ pc'[t] = "swap" \/ (frame[t] = <<>> /\ cache'.frees = 0)
<1>1. pc[Main] # "swap"
  BY Positions DEF Records, Places, Busy
<1>2. t \in Workers
  BY <1>1 DEF Threads
<1>3. pc'[t] = "swap" \/ (ReloadEnd(t) /\ frame[t] = <<>>)
  BY <1>2, WorkerMove DEF WorkerMoves, Goes
<1>4. ReloadEnd(t) => cache'.frees = 0
  BY DEF ReloadEnd, Records, CacheOK, CacheFields
<1>5. QED
  BY <1>2, <1>3, <1>4

\* The write lock is kept by whoever reloads, and for good by whoever has
\* freed the contents.
LEMMA LockedStep ==
    ASSUME Records, Locked, [Next]_vars
    PROVE  Locked'
<1>1. /\ cache.frees \in Nat /\ cache.writer \in Threads \cup {NULL} /\ NULL \notin Threads
      /\ Workers \subseteq Threads /\ DOMAIN cache = CacheFields
  BY LifecycleAssumption DEF Records, CacheOK, Threads
<1>2. \A t \in Threads : frame[t] # <<>> => frame'[t] # <<>>
  BY FrameStep
\* The owner changes only by these.
<1>3. ASSUME NEW t \in Threads, cache.writer = t, frame[t] # <<>> PROVE cache'.writer = t
  BY <1>1, <1>3, CacheEffect DEF Locked
<1>4. ASSUME NEW w \in Workers, pc'[w] \in {"reload", "swap"} PROVE cache'.writer = w
  <2>1. CASE pc[w] \in {"reload", "swap"}
    <3>1. cache.writer = w /\ w \in Threads
      BY <1>1, <2>1 DEF Locked
    <3>2. QED
      BY <1>1, <1>4, <3>1, CacheEffect DEF Locked
  <2>2. CASE pc[w] \notin {"reload", "swap"}
    <3>1. ReloadLock(w)
      BY <1>4, <2>2, WorkerMove DEF WorkerMoves, Goes
    <3>2. QED
      BY <1>1, <3>1 DEF ReloadLock, CacheFields
  <2>3. QED
    BY <2>1, <2>2
<1>5. ASSUME NEW t \in Threads, Top(t, PastCache)' PROVE cache'.writer = t
  <2>1. CASE Top(t, PastCache)
    BY <1>3, <2>1 DEF Locked, Top
  <2>2. CASE ~Top(t, PastCache)
    <3>1. frame'[t] # frame[t] /\ Head(frame'[t]) # "lock"
      BY <1>5, <2>2 DEF Top, PastCache
    <3>2. ShutdownStep(t) /\ \E s \in Advance : In(t, s[1]) /\ Head(frame'[t]) = s[2]
      BY <3>1, TopStep
    <3>3. In(t, "cache")
      <4>1. PICK s \in Advance : In(t, s[1]) /\ Head(frame'[t]) = s[2]
        BY <3>2
      <4>2. s[2] \in PastCache /\ s[1] \notin PastCache
        BY <1>5, <2>2, <4>1 DEF Top, In
      <4>3. s[1] = "cache"
        BY <4>2 DEF Advance, PastCache
      <4>4. QED
        BY <4>1, <4>3
    <3>4. CacheDestroy(t)
      BY <3>2, <3>3, ShutdownAt
    <3>5. QED
      BY <1>1, <3>4 DEF CacheDestroy, KeptBy, CacheFields
  <2>3. QED
    BY <2>1, <2>2
<1>6. cache'.writer # NULL => cache'.readers = {}
  BY <1>1, CacheEffect DEF Locked
<1>7. ASSUME NEW t \in Threads, frame'[t] # <<>> \/ pc'[t] = "swap", cache'.writer = t
      PROVE  /\ cache'.writer # NULL
             /\ frame'[cache'.writer] # <<>> \/ pc'[cache'.writer] = "swap"
  BY <1>1, <1>7
<1>8. ASSUME cache'.frees > 0
      PROVE  /\ cache'.writer # NULL
             /\ frame'[cache'.writer] # <<>> \/ pc'[cache'.writer] = "swap"
  <2>1. ASSUME NEW t \in Threads, CacheDestroy(t), cache'.writer = t
        PROVE  frame'[t] # <<>>
    BY <1>2, <2>1 DEF CacheDestroy, In
  <2>2. CASE cache'.frees = cache.frees /\ cache'.writer = cache.writer
    <3>1. PICK t \in Threads : cache.writer = t /\ (frame[t] # <<>> \/ pc[t] = "swap")
      BY <1>1, <1>8, <2>2 DEF Locked
    <3>2. CASE frame[t] # <<>>
      BY <1>2, <1>7, <2>2, <3>1, <3>2
    <3>3. CASE pc[t] = "swap"
      <4>1. pc'[t] = "swap"
        BY <1>1, <1>8, <3>3, SwapStays
      <4>2. QED
        BY <1>7, <2>2, <3>1, <4>1
    <3>4. QED
      BY <3>1, <3>2, <3>3
  <2>3. CASE cache.writer = NULL /\ cache'.frees = cache.frees
    BY <1>8, <2>3 DEF Locked
  <2>4. ASSUME NEW w \in Workers, pc[w] = "reload", pc'[w] = "swap", cache'.writer = cache.writer
        PROVE  cache'.writer = w
    BY <2>4 DEF Locked
  <2>5. QED
    BY <1>1, <1>7, <1>8, <2>1, <2>2, <2>3, <2>4, CacheEffect
<1>9. QED
  BY <1>4, <1>5, <1>6, <1>8 DEF Locked

\* While there is one shutdown per thread at most, the contents and the
\* contexts are freed once: the thread that has freed them holds the write
\* lock and is past the place where it would free them again.
LEMMA CountedStep ==
    ASSUME Records, Locked, Counted, [Next]_vars
    PROVE  Counted'
<1>1. /\ cache.frees \in Nat /\ cache.writer \in Threads \cup {NULL} /\ NULL \notin Threads
      /\ Workers \subseteq Threads /\ DOMAIN cache = CacheFields
      /\ tls.frees \in [1 .. 2 -> Nat] /\ tls.global \in 0 .. 2
  BY LifecycleAssumption DEF Records, CacheOK, Threads, TlsOK
<1>2. /\ \A t \in Threads : Len(frame[t]) \in Nat /\ Len(frame'[t]) \in Nat
      /\ \A t \in Threads : Len(frame'[t]) >= Len(frame[t])
      /\ \A t \in Threads : frame[t] # <<>> => Len(frame[t]) >= 1
  <2>1. frame \in [Threads -> Seq(FramePc)] /\ frame' \in [Threads -> Seq(FramePc)]
    BY FrameStep DEF Records
  <2>2. ASSUME NEW t \in Threads, frame[t] # <<>> PROVE Len(frame[t]) >= 1
    <3>1. PICK f \in Seq(FramePc) : f = frame[t]
      BY <2>1
    <3>2. f # <<>>
      BY <2>2, <3>1
    <3>3. Len(f) >= 1
      BY <3>2
    <3>4. QED
      BY <3>1, <3>3
  <2>3. QED
    BY <2>1, <2>2, FrameStep
<1>3. SUFFICES ASSUME Single'
               PROVE  /\ ~SwapBroken' => cache'.frees <= 1
                      /\ \A i \in 1 .. 2 : tls'.frees[i] <= 1
                      /\ gone' = "no" /\ cache'.frees > 0 =>
                            Top(cache.writer, PastCache)' \/ pc'[cache'.writer] = "swap"
                      /\ gone' = "no" => \A i \in 1 .. 2 : tls'.frees[i] > 0 =>
                            cache'.writer # NULL /\ Top(cache.writer, {"null", "exit"})'
                      /\ gone' = "no" /\ pc'[Main] \in FromCert1 /\ tls'.global = 0 =>
                            \E t \in Threads : Top(t, {"null", "exit"})'
  BY DEF Counted
<1>4. Single
  BY <1>2, <1>3 DEF Single
<1>5. /\ ~SwapBroken => cache.frees <= 1
      /\ \A i \in 1 .. 2 : tls.frees[i] <= 1
      /\ gone = "no" /\ cache.frees > 0 =>
            Top(cache.writer, PastCache) \/ pc[cache.writer] = "swap"
      /\ gone = "no" =>
           \A i \in 1 .. 2 : tls.frees[i] > 0 =>
               cache.writer # NULL /\ Top(cache.writer, {"null", "exit"})
      /\ gone = "no" /\ pc[Main] \in FromCert1 /\ tls.global = 0 =>
            \E t \in Threads : Top(t, {"null", "exit"})
  BY <1>4 DEF Counted
<1>6. gone' = "no" => gone = "no"
  BY EndStep
\* Whoever shuts down alone on its thread only gets on.
<1>7. ASSUME NEW t \in Threads, frame[t] # <<>>
      PROVE  \/ frame'[t] = frame[t]
             \/ \E s \in Advance : In(t, s[1]) /\ frame'[t] # <<>> /\ Head(frame'[t]) = s[2]
  <2>1. Len(frame'[t]) <= 1 /\ Len(frame[t]) >= 1
    BY <1>2, <1>3, <1>7 DEF Single
  <2>2. Len(frame'[t]) # Len(frame[t]) + 1
    BY <1>2, <2>1
  <2>3. QED
    BY <2>2, TopStep
<1>8. ASSUME NEW t \in Threads, Top(t, PastCache) PROVE Top(t, PastCache)'
  BY <1>7, <1>8 DEF Top, In, Advance, PastCache
<1>9. ASSUME NEW t \in Threads, Top(t, {"null", "exit"}) PROVE Top(t, {"null", "exit"})'
  BY <1>7, <1>9 DEF Top, In, Advance
<1>10. ASSUME NEW t \in Threads, CacheDestroy(t), ~SwapBroken PROVE cache.frees = 0
  <2>1. gone = "no" /\ frame[t] # <<>> /\ Top(t, {"cache"}) /\ cache.writer \in {NULL, t}
    BY <1>10 DEF CacheDestroy, In, Top
  <2>2. ~Top(t, PastCache)
    BY <2>1 DEF Top, PastCache
  <2>3. pc[t] # "swap"
    BY <1>10, <2>1, SwapStays DEF SwapBroken
  <2>4. ~(cache.frees > 0)
    BY <1>5, <2>1, <2>2, <2>3 DEF Locked
  <2>5. QED
    BY <1>1, <2>4
\* Once past the cache, the owner of the write lock remains.
<1>11. ASSUME NEW t \in Threads, cache.writer = t, Top(t, PastCache) PROVE cache'.writer = t
  <2>1. frame[t] # <<>>
    BY <1>11 DEF Top
  <2>2. QED
    BY <1>1, <1>11, <2>1, CacheEffect DEF Locked
<1>12. ASSUME ~SwapBroken' PROVE cache'.frees <= 1
  <2>1. ~SwapBroken
    <3>1. ASSUME NEW w \in Workers, pc[w] = "swap", frame[w] # <<>> PROVE FALSE
      <4>1. w \in Threads /\ frame'[w] # <<>>
        BY <1>1, <3>1, FrameStep
      <4>2. pc'[w] = "swap"
        BY <3>1, <4>1, SwapStays
      <4>3. QED
        BY <1>12, <4>1, <4>2 DEF SwapBroken
    <3>2. QED
      BY <3>1 DEF SwapBroken
  <2>2. CASE cache'.frees = cache.frees \/ cache'.frees = 0
    BY <1>5, <2>1, <2>2
  <2>3. ASSUME NEW t \in Threads, CacheDestroy(t), cache'.frees \in {cache.frees, cache.frees + 1}
        PROVE  cache'.frees <= 1
    BY <1>10, <2>1, <2>3
  <2>4. ASSUME NEW w \in Workers, pc[w] = "reload", frame[w] = <<>>, cache'.frees = cache.frees + 1
        PROVE  cache'.frees <= 1
    <3>1. cache.writer = w /\ pc[w] # "swap"
      BY <2>4 DEF Locked
    <3>2. ~(cache.frees > 0)
      BY <2>4, <3>1 DEF Locked
    <3>3. QED
      BY <1>1, <2>4, <3>2
  <2>5. QED
    BY <2>2, <2>3, <2>4, CacheEffect
<1>13. ASSUME gone' = "no", cache'.frees > 0
       PROVE  Top(cache.writer, PastCache)' \/ pc'[cache'.writer] = "swap"
  <2>1. ASSUME NEW t \in Threads, CacheDestroy(t), cache'.writer = t
        PROVE  Top(cache.writer, PastCache)'
    <3>1. Then(t, "ctx") /\ frame[t] # <<>>
      BY <1>13, <2>1 DEF CacheDestroy, End, In
    <3>2. frame'[t] # <<>> /\ Head(frame'[t]) = "ctx"
      BY <3>1, ThenEffect DEF FramePc
    <3>3. QED
      BY <2>1, <3>2 DEF Top, PastCache
  <2>2. CASE cache'.frees = cache.frees /\ cache'.writer = cache.writer
    <3>1. /\ cache.writer \in Threads
          /\ Top(cache.writer, PastCache) \/ pc[cache.writer] = "swap"
      BY <1>1, <1>5, <1>6, <1>13, <2>2 DEF Locked
    <3>2. PICK t \in Threads : t = cache.writer
      BY <3>1
    <3>3. CASE Top(t, PastCache)
      <4>1. Top(t, PastCache)'
        BY <1>8, <3>3
      <4>2. QED
        BY <2>2, <3>2, <4>1 DEF Top
    <3>4. CASE pc[t] = "swap"
      <4>1. pc'[t] = "swap"
        BY <1>13, <3>4, SwapStays
      <4>2. QED
        BY <2>2, <3>2, <4>1
    <3>5. QED
      BY <3>1, <3>2, <3>3, <3>4
  <2>3. CASE cache.writer = NULL /\ cache'.frees = cache.frees
    BY <1>13, <2>3 DEF Locked
  <2>4. ASSUME NEW w \in Workers, pc[w] = "reload", pc'[w] = "swap", cache'.writer = cache.writer
        PROVE  pc'[cache'.writer] = "swap"
    BY <2>4 DEF Locked
  <2>5. QED
    BY <1>13, <2>1, <2>2, <2>3, <2>4, CacheEffect
<1>14. ASSUME NEW t \in Threads, FreeContext(t)
       PROVE  /\ gone = "no" /\ Top(t, PastCache) /\ cache.writer = t
              /\ \A i \in 1 .. 2 : tls.frees[i] = 0
  <2>1. gone = "no" /\ frame[t] # <<>> /\ Head(frame[t]) = "ctx"
    BY <1>14 DEF FreeContext, In
  <2>2. Top(t, PastCache) /\ ~Top(t, {"null", "exit"})
    BY <2>1 DEF Top, PastCache
  <2>3. cache.writer = t
    BY <2>2 DEF Locked
  <2>4. \A i \in 1 .. 2 : ~(tls.frees[i] > 0)
    BY <1>5, <2>1, <2>2, <2>3
  <2>5. QED
    BY <1>1, <2>1, <2>2, <2>3, <2>4
<1>15. ASSUME NEW i \in 1 .. 2 PROVE tls'.frees[i] <= 1
  <2>1. CASE tls'.frees = tls.frees
    BY <1>5, <2>1
  <2>2. ASSUME NEW t \in Threads, FreeContext(t), Freed PROVE tls'.frees[i] <= 1
    BY <1>1, <1>14, <2>2 DEF Freed
  <2>3. QED
    BY <2>1, <2>2, TlsEffect DEF Made, Forgotten, Filled, Remembered
<1>16. ASSUME gone' = "no", NEW i \in 1 .. 2, tls'.frees[i] > 0
       PROVE  cache'.writer # NULL /\ Top(cache.writer, {"null", "exit"})'
  <2>1. CASE tls'.frees = tls.frees
    <3>1. cache.writer \in Threads /\ Top(cache.writer, {"null", "exit"})
      BY <1>1, <1>5, <1>6, <1>16, <2>1
    <3>2. PICK t \in Threads : t = cache.writer
      BY <3>1
    <3>3. Top(t, PastCache)
      BY <3>1, <3>2 DEF Top, PastCache
    <3>4. cache'.writer = t /\ Top(t, {"null", "exit"})'
      BY <1>9, <1>11, <3>1, <3>2, <3>3
    <3>5. QED
      BY <1>1, <3>4 DEF Top
  <2>2. ASSUME NEW t \in Threads, FreeContext(t)
        PROVE  cache'.writer # NULL /\ Top(cache.writer, {"null", "exit"})'
    <3>1. Then(t, "null") /\ frame[t] # <<>> /\ cache' = cache /\ cache.writer = t
      BY <1>14, <1>16, <2>2 DEF FreeContext, End, In
    <3>2. frame'[t] # <<>> /\ Head(frame'[t]) = "null"
      BY <3>1, ThenEffect DEF FramePc
    <3>3. QED
      BY <1>1, <3>1, <3>2 DEF Top
  <2>3. QED
    BY <2>1, <2>2, TlsEffect DEF Made, Forgotten, Filled, Remembered
\* The global is set to NULL, with main() past its making, by a shutdown only.
<1>17. ASSUME gone' = "no", pc'[Main] \in FromCert1, tls'.global = 0
       PROVE  \E t \in Threads : Top(t, {"null", "exit"})'
  <2>1. "new1" \notin FromCert1 /\ "failed" \notin FromCert1
    BY DEF FromCert1, FromPool, FromNew2, FromCert2, FromPublish
  <2>2. CASE tls.global = 0 /\ pc[Main] \in FromCert1
    <3>1. PICK t \in Threads : Top(t, {"null", "exit"})
      BY <1>5, <1>6, <1>17, <2>2
    <3>2. QED
      BY <1>9, <3>1
  <2>3. CASE pc[Main] \notin FromCert1
    <3>1. NewContext(1) /\ pc'[Main] = "cert1"
      BY <1>17, <2>3, Entering DEF Moves
    <3>2. Made(1)
      BY <3>1, Positions, ContextMade
    <3>3. QED
      BY <1>17, <3>2 DEF Made
  <2>4. ASSUME NEW t \in Threads, ClearContext(t) PROVE Top(t, {"null", "exit"})'
    <3>1. Then(t, "exit") /\ frame[t] # <<>>
      BY <2>4 DEF ClearContext, Go, In
    <3>2. frame'[t] # <<>> /\ Head(frame'[t]) = "exit"
      BY <3>1, ThenEffect DEF FramePc
    <3>3. QED
      BY <3>2 DEF Top
  <2>5. ASSUME pc[Main] \in FromCert1, tls.global # 0, \A t \in Threads : ~ClearContext(t)
        PROVE  FALSE
    <3>1. ASSUME NEW i \in 1 .. 2, Made(i) PROVE FALSE
      BY <1>17, <3>1 DEF Made
    <3>2. ASSUME tls' = tls \/ (\E how \in {"cert", "ready"} : Filled(how))
                 \/ (\E w \in Workers : Remembered(w)) \/ Freed
          PROVE  FALSE
      BY <1>17, <2>5, <3>2 DEF Filled, Remembered, Freed
    <3>3. pc'[Main] # "new1" /\ pc'[Main] # "failed"
      BY <1>17, <2>1
    <3>4. QED
      BY <2>5, <3>1, <3>2, <3>3, TlsEffect
  <2>6. QED
    BY <2>2, <2>3, <2>4, <2>5
<1>18. QED
  BY <1>12, <1>13, <1>15, <1>16, <1>17

\* Nothing changes once the process is gone.
LEMMA Frozen ==
    ASSUME [Next]_vars, gone # "no"
    PROVE  UNCHANGED vars
<1>1. ~(Command \/ GetCwd \/ Load \/ Args \/ Fork("fork1", "setsid") \/ SetSid \/ SecondFork
        \/ Chdir \/ Streams \/ OpenLog \/ InitPool \/ Spawn \/ SpawnEnd)
  BY DEF Command, GetCwd, Load, Args, Fork, SetSid, SecondFork, Chdir, Streams, OpenLog,
         InitPool, Spawn, SpawnEnd, Call, Step, At
<1>2. ~(Socket \/ Publish \/ AcceptBreak \/ Return \/ PushLock \/ PushEnd \/ Accept \/ LogToServer)
  BY DEF Socket, Publish, AcceptBreak, Return, PushLock, PushEnd, Accept, LogToServer, Step, At
<1>3. ASSUME NEW i \in 1 .. 2 PROVE ~(NewContext(i) \/ UseCertificate(i) \/ UseKey(i))
  BY DEF NewContext, UseCertificate, UseKey, UseFile, At
<1>4. ASSUME NEW w \in Workers
      PROVE  ~(WorkerStep(w) \/ SpuriousWakeup(w) \/ Sent(w) \/ BrokenPipe(w))
  BY DEF WorkerStep, Start, PopLock, PopEnd, Serve, Peek, SslNew, ReadLock, ReloadLock,
         ReloadFree, ReloadEnd, NoLock, SpuriousWakeup, Sent, BrokenPipe, Step, At
<1>5. ASSUME NEW t \in Threads PROVE ~(ShutdownStep(t) \/ Signal(t))
  BY DEF ShutdownStep, ShutdownLock, ShutdownSet, MutexDestroy, CondDestroy, CacheDestroy,
         FreeContext, NoContext, ClearContext, Exit, Signal, Go, In
<1>6. Gone => UNCHANGED vars
  BY DEF Gone
<1>7. QED
  BY <1>1, <1>2, <1>3, <1>4, <1>5, <1>6 DEF Next, MainStep, Environment

\* What can bring the process down.
BadAccess ==
    \/ \E i \in 1 .. 2 : \E l \in {CERT[i], KEY[i]} : At(Main, l) /\ Broken
    \/ \E w \in Workers : At(w, "ssl") /\ tls.cap[w] # 0 /\ tls.ctx[tls.cap[w]] = "freed"
    \/ \E t \in Threads : In(t, "cache") /\ cache.frees > 0 /\ cache.writer \in {NULL, t}
    \/ \E t \in Threads : In(t, "ctx") /\ tls.global # 0 /\ tls.ctx[tls.global] = "freed"

BadWrite == LogToServer \/ \E w \in Workers : BrokenPipe(w)

LEMMA CrashWriters ==
    ASSUME [Next]_vars, gone = "no", gone' \in {"crash", "pipe"}
    PROVE  /\ pc' = pc /\ frame' = frame
           /\ \/ gone' = "crash" /\ BadAccess
              \/ gone' = "pipe" /\ BadWrite
<1>1. ~(Command \/ GetCwd \/ Load \/ Args \/ Fork("fork1", "setsid") \/ SetSid \/ SecondFork
        \/ Chdir \/ Streams \/ OpenLog \/ InitPool \/ Spawn \/ SpawnEnd)
  BY DEF Command, GetCwd, Load, Args, Fork, SetSid, SecondFork, Chdir, Streams, OpenLog,
         InitPool, Spawn, SpawnEnd, Call, Step, End, At
<1>2. ~(Socket \/ Publish \/ AcceptBreak \/ Return \/ PushLock \/ PushEnd \/ Accept
        \/ Gone \/ UNCHANGED vars)
  BY DEF Socket, Publish, AcceptBreak, Return, PushLock, PushEnd, Accept, Gone,
         vars, Step, End, At, Abort
<1>3. ASSUME NEW i \in 1 .. 2, NewContext(i) \/ UseCertificate(i) \/ UseKey(i)
      PROVE  /\ pc' = pc /\ frame' = frame /\ gone' = "crash" /\ Broken
             /\ At(Main, CERT[i]) \/ At(Main, KEY[i])
  BY <1>3 DEF NewContext, UseCertificate, UseKey, UseFile, Abort, End
<1>4. ASSUME NEW w \in Workers, WorkerStep(w) \/ SpuriousWakeup(w) \/ Sent(w)
      PROVE  /\ pc' = pc /\ frame' = frame /\ gone' = "crash"
             /\ At(w, "ssl") /\ tls.cap[w] # 0 /\ tls.ctx[tls.cap[w]] = "freed"
  BY <1>4 DEF WorkerStep, Start, PopLock, PopEnd, Serve, Peek, SslNew, ReadLock, ReloadLock,
              ReloadFree, ReloadEnd, NoLock, SpuriousWakeup, Sent, Step, End
<1>5. ASSUME NEW t \in Threads, ShutdownStep(t) \/ Signal(t)
      PROVE  /\ pc' = pc /\ frame' = frame /\ gone' = "crash"
             /\ \/ In(t, "cache") /\ cache.frees > 0 /\ cache.writer \in {NULL, t}
                \/ In(t, "ctx") /\ tls.global # 0 /\ tls.ctx[tls.global] = "freed"
  BY <1>5 DEF ShutdownStep, ShutdownLock, ShutdownSet, MutexDestroy, CondDestroy, CacheDestroy,
              FreeContext, NoContext, ClearContext, Exit, Signal, Go, End
<1>6. ASSUME BadWrite PROVE pc' = pc /\ frame' = frame /\ gone' = "pipe"
  BY <1>6 DEF BadWrite, LogToServer, BrokenPipe, End
<1>7. CASE \E i \in 1 .. 2 : NewContext(i) \/ UseCertificate(i) \/ UseKey(i)
  BY <1>3, <1>7 DEF BadAccess
<1>8. CASE \E w \in Workers : WorkerStep(w) \/ SpuriousWakeup(w) \/ Sent(w)
  BY <1>4, <1>8 DEF BadAccess
<1>9. CASE \E t \in Threads : ShutdownStep(t) \/ Signal(t)
  BY <1>5, <1>9 DEF BadAccess
<1>10. CASE LogToServer \/ \E w \in Workers : BrokenPipe(w)
  BY <1>6, <1>10 DEF BadWrite
<1>11. QED
  BY <1>1, <1>2, <1>7, <1>8, <1>9, <1>10 DEF Next, MainStep, Environment

\* A bad access has one of the causes named.
LEMMA AccessHasCause ==
    ASSUME LifecycleInv, gone = "no", BadAccess
    PROVE  Nested \/ SwapBroken \/ ContextGone
<1> USE DEF LifecycleInv
<1>1. SUFFICES ASSUME ~Nested, ~SwapBroken PROVE ContextGone
  OBVIOUS
<1>2. Single
  <2>1. \A t \in Threads : Len(frame[t]) \in Nat
    BY DEF Records
  <2>2. QED
    BY <1>1, <2>1 DEF Single, Nested
<1>3. /\ cache.frees > 0 => /\ cache.writer \in Threads
                            /\ Top(cache.writer, PastCache) \/ pc[cache.writer] = "swap"
      /\ \A i \in 1 .. 2 : tls.frees[i] > 0 =>
            cache.writer \in Threads /\ Top(cache.writer, {"null", "exit"})
      /\ pc[Main] \in FromCert1 /\ tls.global = 0 => \E t \in Threads : Top(t, {"null", "exit"})
  BY <1>2 DEF Counted, Locked, Records, CacheOK
<1>4. tls.global \in 0 .. 2 /\ tls.cap \in [Workers -> 0 .. 2] /\ Main \in Threads
      /\ Workers \subseteq Threads
  BY DEF Records, TlsOK, Threads
<1>5. ASSUME NEW i \in 1 .. 2, tls.ctx[i] = "freed"
      PROVE  cache.writer \in Threads /\ Top(cache.writer, {"null", "exit"})
  BY <1>3, <1>5 DEF Marked
<1>6. ASSUME NEW t \in Threads, frame[t] = <<>>,
             pc[t] \in {"ssl", "cert1", "key1", "cert2", "key2"},
             NEW u \in Threads, Top(u, {"null", "exit"})
      PROVE  ContextGone
  <2>1. {"ssl"} \cup Range(CERT) \cup Range(KEY) = {"ssl", "cert1", "key1", "cert2", "key2"}
    BY DEF Range, CERT, KEY
  <2>2. QED
    BY <1>6, <2>1 DEF ContextGone, Top
<1>7. ASSUME NEW i \in 1 .. 2, NEW l \in {CERT[i], KEY[i]}, At(Main, l), Broken PROVE ContextGone
  <2>1. frame[Main] = <<>> /\ pc[Main] \in {"cert1", "key1", "cert2", "key2"}
    BY <1>7, Positions DEF At
  <2>2. pc[Main] \in FromCert1
    BY <2>1 DEF FromCert1, FromPool, FromNew2, FromCert2
  <2>3. tls.global = 0 \/ tls.ctx[tls.global] = "freed"
    BY <1>4, <1>7 DEF Broken
  <2>4. \E u \in Threads : Top(u, {"null", "exit"})
    BY <1>3, <1>4, <1>5, <2>2, <2>3
  <2>5. QED
    BY <1>4, <1>6, <2>1, <2>4
<1>8. ASSUME NEW w \in Workers, At(w, "ssl"), tls.cap[w] # 0, tls.ctx[tls.cap[w]] = "freed"
      PROVE  ContextGone
  <2>1. frame[w] = <<>> /\ pc[w] = "ssl" /\ tls.cap[w] \in 1 .. 2
    BY <1>4, <1>8 DEF At
  <2>2. \E u \in Threads : Top(u, {"null", "exit"})
    BY <1>5, <1>8, <2>1
  <2>3. QED
    BY <1>4, <1>6, <2>1, <2>2
<1>9. ASSUME NEW t \in Threads, In(t, "cache"), cache.frees > 0, cache.writer \in {NULL, t}
      PROVE  FALSE
  <2>1. cache.writer = t /\ NULL \notin Threads
    BY <1>3, <1>9, LifecycleAssumption
  <2>2. ~Top(t, PastCache)
    BY <1>9 DEF In, Top, PastCache
  <2>3. pc[t] = "swap" /\ frame[t] # <<>>
    BY <1>3, <1>9, <2>1, <2>2 DEF In
  <2>4. pc[Main] # "swap"
    BY Positions DEF Records, Places, Busy
  <2>5. QED
    BY <1>1, <2>3, <2>4 DEF SwapBroken, Threads
<1>10. ASSUME NEW t \in Threads, In(t, "ctx"), tls.global # 0, tls.ctx[tls.global] = "freed"
       PROVE  FALSE
  <2>1. tls.global \in 1 .. 2
    BY <1>4, <1>10
  <2>2. Top(cache.writer, {"null", "exit"})
    BY <1>5, <1>10, <2>1
  <2>3. cache.writer = t
    BY <1>10 DEF Locked, Top, In, PastCache
  <2>4. QED
    BY <1>10, <2>2, <2>3 DEF Top, In
<1>11. QED
  BY <1>7, <1>8, <1>9, <1>10 DEF BadAccess

\* The process falls only for these reasons.
LEMMA CrashStep ==
    ASSUME LifecycleInv, [Next]_vars
    PROVE  CrashHasCause'
<1> USE DEF LifecycleInv
<1>1. CASE gone # "no"
  <2>1. UNCHANGED <<given, proc, pc, frame, gone>>
    BY <1>1, Frozen DEF vars
  <2>2. QED
    BY <2>1 DEF CrashHasCause, Nested, SwapBroken, ContextGone
<1>2. CASE gone' \notin {"crash", "pipe"}
  BY <1>2 DEF CrashHasCause
<1>3. CASE gone = "no" /\ gone' = "crash"
  <2>1. pc' = pc /\ frame' = frame /\ BadAccess
    BY <1>3, CrashWriters
  <2>2. Nested \/ SwapBroken \/ ContextGone
    BY <1>3, <2>1, AccessHasCause
  <2>3. (Nested \/ SwapBroken \/ ContextGone)'
    BY <2>1, <2>2 DEF Nested, SwapBroken, ContextGone
  <2>4. QED
    BY <1>3, <2>3 DEF CrashHasCause
<1>4. CASE gone = "no" /\ gone' = "pipe"
  <2>1. pc' = pc /\ frame' = frame /\ BadWrite
    BY <1>4, CrashWriters
  <2>2. CASE LogToServer
    <3>1. IsDaemon /\ proc.log = "none" /\ given' = given /\ proc' = proc
      BY <2>2 DEF LogToServer, Daemonised
    <3>2. QED
      BY <1>4, <3>1 DEF CrashHasCause, IsDaemon
  <2>3. CASE \E w \in Workers : BrokenPipe(w)
    <3>1. \E w \in Workers : frame'[w] = <<>> /\ pc'[w] \in Writing
      BY <2>1, <2>3 DEF BrokenPipe, At
    <3>2. QED
      BY <1>4, <3>1 DEF CrashHasCause
  <2>4. QED
    BY <2>1, <2>2, <2>3 DEF BadWrite
<1>5. QED
  BY <1>1, <1>2, <1>3, <1>4

-----------------------------------------------------------------------------
(* The theorems. *)

\* The program starts within the invariant.
LEMMA InvInit == Init => LifecycleInv
<1> SUFFICES ASSUME Init PROVE LifecycleInv
  OBVIOUS
<1>1. /\ Main \in Threads /\ Workers \subseteq Threads /\ Main \notin Workers /\ MaxConnections \in Nat
  BY LifecycleAssumption DEF Threads
<1>2. /\ pc[Main] = "command" /\ \A w \in Workers : pc[w] = "unborn"
      /\ \A t \in Threads : frame[t] = <<>>
  BY <1>1 DEF Init
<1>3. /\ ProcOK /\ proc.cwd = "start" /\ \A n \in 0 .. 2 : proc.fd[n] = "tty"
  BY DEF Init, Launched, ProcOK, ProcFields, Fds, MaxPort
<1>4. TlsOK /\ \A i \in 1 .. 2 : tls.ctx[i] = "none" /\ tls.frees[i] = 0
  BY DEF Init, TlsOK, TlsFields, Contexts
<1>5. PoolOK /\ pool.queue = 0 /\ pool.conns = 0 /\ ~pool.shutdown
  BY <1>1 DEF Init, PoolOK, PoolFields
<1>6. CacheOK /\ cache.frees = 0 /\ cache.writer = NULL
  BY DEF Init, CacheOK, CacheFields
<1>7. ConfigOK
  BY DEF Init, ConfigOK, Zeroed
<1>8. Places
  <2>1. "command" \in MainPc /\ "unborn" \in WorkerPc
    BY Positions DEF WorkerPc
  <2>2. QED
    BY <1>1, <2>1 DEF Init, Places
<1>9. frame \in [Threads -> Seq(FramePc)] /\ \A t \in Threads : Len(frame[t]) = 0
  BY DEF Init
<1>10. Records
  BY <1>3, <1>4, <1>5, <1>6, <1>7, <1>8, <1>9 DEF Init, Records
<1>11. /\ "command" \notin FromFork1 /\ "command" \notin FromNew2 /\ "command" \notin FromCert1
       /\ "command" \notin FromCert2
       /\ "command" \notin FromPool \cup {"failed"} /\ "command" \notin FromPublish
       /\ FromNew1 \subseteq FromLog /\ FromLog \subseteq FromStreams
       /\ FromStreams \subseteq FromChdir /\ FromChdir \subseteq FromFork2
       /\ FromFork2 \subseteq FromFork1
  BY DEF FromFork1, FromFork2, FromChdir, FromStreams, FromLog, FromNew1, FromCert1,
         FromPool, FromNew2, FromCert2, FromPublish
<1>12. Queued
  BY <1>2, <1>5 DEF Queued
<1>13. Configured
  BY <1>2, <1>11 DEF Configured
<1>14. Daemonised
  BY <1>2, <1>3, <1>11 DEF Daemonised
<1>15. Employed
  BY <1>2, <1>5 DEF Employed, Busy
<1>16. Contextual
  BY <1>2, <1>11 DEF Contextual, Busy
<1>17. Marked
  BY <1>2, <1>4, <1>5 DEF Marked, Top
<1>18. Locked
  BY <1>2, <1>6 DEF Locked, Top
<1>19. Counted
  BY <1>2, <1>4, <1>6, <1>11 DEF Counted
<1>20. CrashHasCause
  BY DEF Init, CrashHasCause
<1>21. QED
  BY <1>10, <1>12, <1>13, <1>14, <1>15, <1>16, <1>17, <1>18, <1>19, <1>20 DEF LifecycleInv

\* No step leaves it.
LEMMA InvStep == LifecycleInv /\ [Next]_vars => LifecycleInv'
<1> SUFFICES ASSUME LifecycleInv, [Next]_vars PROVE LifecycleInv'
  OBVIOUS
<1>1. /\ Records /\ Queued /\ Configured /\ Daemonised /\ Employed /\ Contextual
      /\ Marked /\ Locked /\ Counted /\ CrashHasCause
  BY DEF LifecycleInv
<1>2. given' = given /\ ConfigOK'
  BY <1>1, ConfigStep
<1>3. Places'
  <2>1. Places
    BY <1>1 DEF Records
  <2>2. CASE MainStep \/ Accept
    BY <2>1, <2>2, MainPlaces
  <2>3. CASE ~MainStep /\ ~Accept
    BY <2>1, <2>3, OtherPlaces
  <2>4. QED
    BY <2>2, <2>3
<1>4. PoolOK' /\ Queued'
  BY <1>1, PoolStep
<1>5. ProcOK' /\ TlsOK' /\ CacheOK'
  BY <1>1, ProcStep, TlsStep, CacheStep
<1>6. signals' \in 0 .. 2 /\ gone' \in {"no", "0", "1", "crash", "pipe"}
  BY <1>1, EndStep
<1>7. frame' \in [Threads -> Seq(FramePc)]
  BY <1>1, FrameStep
<1>8. Records'
  BY <1>1, <1>2, <1>3, <1>4, <1>5, <1>6, <1>7 DEF Records
<1>9. Configured' /\ Daemonised'
  BY <1>1, ConfiguredStep, DaemonisedStep
<1>10. Employed' /\ Contextual'
  BY <1>1, EmployedStep, ContextualStep
<1>11. Marked' /\ Locked' /\ Counted'
  BY <1>1, MarkedStep, LockedStep, CountedStep
<1>12. CrashHasCause'
  BY CrashStep
<1>13. QED
  BY <1>4, <1>8, <1>9, <1>10, <1>11, <1>12 DEF LifecycleInv

\* The invariant holds throughout the life of the process.
THEOREM LifecycleInvariant == Spec => []LifecycleInv
<1>1. Init => LifecycleInv
  BY InvInit
<1>2. LifecycleInv /\ [Next]_vars => LifecycleInv'
  BY InvStep
<1>3. QED
  BY <1>1, <1>2, PTL DEF Spec

\* Every variable keeps its type, and the queue the bound that accept puts on
\* it.
THEOREM LifecycleTypeCorrect == Spec => []TypeOK
<1>1. ASSUME LifecycleInv PROVE TypeOK
  <2>1. Records /\ Queued
    BY <1>1 DEF LifecycleInv
  <2>2. proc.port \in 0 .. MaxPort
    <3>1. MaxPort \in Int
      BY DEF MaxPort
    <3>2. QED
      BY <2>1, <3>1 DEF Records, ProcOK
  <2>3. pool.queue \in 0 .. MaxConnections
    BY <2>1, LifecycleAssumption DEF Records, PoolOK, Queued
  <2>4. /\ proc.cwd \in {"start", "root"} /\ proc.log \in {"none", "start", "tmp"}
        /\ proc.fd \in [0 .. 2 -> {"tty", "free", "null", "log", "server"}]
    BY <2>1 DEF Records, ProcOK, Fds
  <2>5. /\ tls.ctx \in [1 .. 2 -> {"none", "new", "cert", "ready", "freed"}]
        /\ tls.global \in 0 .. 2 /\ tls.cap \in [Workers -> 0 .. 2]
    BY <2>1 DEF Records, TlsOK, Contexts
  <2>6. /\ pool.mutex \in Threads \cup {NULL}
        /\ cache.readers \subseteq Workers /\ cache.writer \in Threads \cup {NULL}
    BY <2>1 DEF Records, PoolOK, CacheOK
  <2>7. /\ given \in Launches /\ DOMAIN config = DOMAIN Zeroed /\ config.port \in Int
        /\ pc[Main] \in MainPc /\ \A w \in Workers : pc[w] \in WorkerPc
        /\ frame \in [Threads -> Seq(FramePc)]
        /\ signals \in 0 .. 2 /\ gone \in {"no", "0", "1", "crash", "pipe"}
    BY <2>1 DEF Records, ConfigOK, Places
  <2>8. QED
    BY <2>2, <2>3, <2>4, <2>5, <2>6, <2>7, Zenon DEF TypeOK
<1>2. QED
  BY <1>1, LifecycleInvariant, PTL

\* No client meets a half-made context.
THEOREM ContextsAreReady == Spec => []ServesReady
<1>1. ASSUME LifecycleInv PROVE ServesReady
  <2> USE DEF LifecycleInv
  <2>1. SUFFICES ASSUME NEW w \in Workers, pc[w] = "ssl"
                 PROVE  /\ tls.cap[w] # 0
                        /\ tls.ctx[tls.cap[w]] \in
                              IF Stopping THEN {"ready", "freed"} ELSE {"ready"}
    BY DEF ServesReady
  <2>2. Serving
    BY <1>1, <2>1 DEF Employed, Busy
  <2>3. pc[Main] \in FromPublish /\ pc[Main] \in FromPool
    BY <2>2 DEF Serving, FromPublish, FromPool, FromNew2, FromCert2
  <2>4. tls.cap[w] \in 1 .. 2
    BY <1>1, <2>1 DEF Contextual, Busy, Records, TlsOK
  <2>5. \A i \in 1 .. 2 : tls.ctx[i] \in {"ready", "freed"}
    BY <1>1, <2>3 DEF Contextual
  <2>6. \A i \in 1 .. 2 : tls.ctx[i] = "freed" => Stopping
    BY <1>1 DEF Marked
  <2>7. QED
    BY <2>4, <2>5, <2>6
<1>2. QED
  BY <1>1, LifecycleInvariant, PTL

\* The port and the directory served are the ones the operator means, whatever
\* the file and the arguments are.
THEOREM ServesAsConfigured == Spec => []AsConfigured
<1>1. ASSUME LifecycleInv PROVE AsConfigured
  <2> DEFINE port == MeantPort(given.file, given.args)
             dir  == Meant(given.file, "public_dir")
  <2>1. SUFFICES ASSUME Serving
                 PROVE  /\ port \in 0 .. MaxPort
                             /\ (LowerCase(given.file, "port") \/ PortOverride(given.args) > 0)
                             => proc.port = port
                        /\ Fits(given.file) /\ LowerCase(given.file, "public_dir")
                             /\ dir.len > 0 /\ given.startLen + 1 + dir.len < SIZE
                             => Served(config.public_dir, proc.cwd) = Served(dir, "start")
    BY DEF AsConfigured
  <2>2. pc[Main] \in FromFork1 /\ pc[Main] \in FromNew2 /\ pc[Main] \in FromStreams
    BY <2>1 DEF Serving, FromFork1, FromFork2, FromChdir, FromStreams, FromLog, FromNew1, FromCert1,
                FromPool, FromNew2, FromCert2, FromPublish
  <2>3. /\ config = Effective(LoadConfig(given.file), given.args, given.startLen)
        /\ proc.port = Htons(config.port)
    BY <1>1, <2>2 DEF LifecycleInv, Configured
  <2>4. ProperFile(given.file) /\ ProperArgs(given.args) /\ given.startLen \in Nat
    BY <1>1, GivenProper DEF LifecycleInv, Records
  <2>5. LowerCase(given.file, "port") \/ PortOverride(given.args) > 0
          => config.port = port /\ port \in Int
    BY <2>3, <2>4, PortIsMeant
  <2> HIDE DEF port, dir
  <2>6. ASSUME port \in 0 .. MaxPort, LowerCase(given.file, "port") \/ PortOverride(given.args) > 0
        PROVE  proc.port = port
    <3>1. MaxPort \in Int
      BY DEF MaxPort
    <3>2. 0 <= port /\ port <= MaxPort
      BY <2>5, <2>6, <3>1
    <3>3. Htons(port) = port
      <4>1. port \in Int
        BY <2>5, <2>6
      <4>2. QED
        BY <3>2, <4>1 DEF Htons, MaxPort
    <3>4. QED
      BY <2>3, <2>5, <2>6, <3>3
  <2>7. ASSUME Fits(given.file), LowerCase(given.file, "public_dir"), dir.len > 0,
               given.startLen + 1 + dir.len < SIZE
        PROVE  Served(config.public_dir, proc.cwd) = Served(dir, "start")
    <3>1. ~UseDaemon(given.args) => proc.cwd = "start"
      BY <1>1 DEF LifecycleInv, Daemonised, IsDaemon
    <3>2. /\ Meant(given.file, "public_dir").len > 0
          /\ given.startLen + 1 + Meant(given.file, "public_dir").len < SIZE
      BY <2>7 DEF dir
    <3>3. Served(Effective(LoadConfig(given.file), given.args, given.startLen).public_dir, proc.cwd)
            = Served(Meant(given.file, "public_dir"), "start")
      BY <2>4, <2>7, <3>1, <3>2, DirIsServed
    <3>4. QED
      BY <2>3, <3>3 DEF dir
  <2>8. QED
    BY <2>6, <2>7
<1>2. QED
  BY <1>1, LifecycleInvariant, PTL

\* A daemon that serves is on its own.
THEOREM DaemonsAreDetached == Spec => []Detached
<1>1. ASSUME LifecycleInv PROVE Detached
  <2>1. Serving => /\ pc[Main] \in FromFork2 /\ pc[Main] \in FromChdir /\ pc[Main] \in FromStreams
                   /\ pc[Main] \in FromLog /\ pc[Main] \in FromNew1
    BY DEF Serving, FromFork2, FromChdir, FromStreams, FromLog, FromNew1, FromCert1,
           FromPool, FromNew2, FromCert2, FromPublish
  <2>2. QED
    BY <1>1, <2>1 DEF LifecycleInv, Daemonised, Detached, IsDaemon
<1>2. QED
  BY <1>1, LifecycleInvariant, PTL

\* No content is freed twice or under a reader, and no context twice, but by a
\* handler within a shutdown of its own thread (nested), or on a worker that
\* has just freed the content it is replacing.
THEOREM CleansUpOnce == Spec => []CleanupOnce
<1>1. ASSUME LifecycleInv PROVE CleanupOnce
  <2>1. ~Nested => Single
    <3>1. \A t \in Threads : Len(frame[t]) \in Nat
      BY <1>1 DEF LifecycleInv, Records
    <3>2. QED
      BY <3>1 DEF Nested, Single
  <2>2. cache.frees \in Nat /\ tls.frees \in [1 .. 2 -> Nat]
    BY <1>1 DEF LifecycleInv, Records, CacheOK, TlsOK
  <2>3. Single => /\ ~SwapBroken => cache.frees <= 1
                  /\ \A i \in 1 .. 2 : tls.frees[i] <= 1
    BY <1>1 DEF LifecycleInv, Counted
  <2>4. cache.frees > 0 => cache.readers = {}
    BY <1>1 DEF LifecycleInv, Locked
  <2>5. QED
    BY <2>1, <2>2, <2>3, <2>4 DEF CleanupOnce
<1>2. QED
  BY <1>1, LifecycleInvariant, PTL

\* The process falls only by SIGPIPE on a reset connection or in a daemon
\* without a log, through one of the two double frees, or through the context
\* that a shutdown has freed under a handshake or the boot.
THEOREM CrashesHaveCause == Spec => []CrashHasCause
<1>1. LifecycleInv => CrashHasCause
  BY DEF LifecycleInv
<1>2. QED
  BY <1>1, LifecycleInvariant, PTL

=============================================================================

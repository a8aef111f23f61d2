# A TLA+ model of LITH

LITH is a small multi-threaded HTTPS server in C: a main thread accepts
connections and queues them, a fixed pool of workers pops them, speaks TLS and
HTTP with the client, and answers from a RAM cache or from disk.  This
directory holds TLA+ modules that model its core, TLC configurations that check
them, and proofs checked by TLAPS.  `PROJECT.json` lists components, runs, the
source lines behind every definition, findings, hazards and theorems.

## The system

| Component | State | Operations | Interacts with | What is hard |
|---|---|---|---|---|
| Thread pool, accept loop (`server_worker.c`, `server.c`) | linked list (`head`, `tail`, `size`), `shutdown`, mutex, condition variable, list nodes, client descriptors | `thread_pool_init/push/pop/shutdown`, accept loop, outer loop of `lith_client_handler` | clients through `accept`; workers; signal handler | lost wake-ups, pops and pushes around an empty list, node reuse, refused pushes |
| Shutdown (`main.c`) | server socket, shutdown flag | `handle_sigint`, boot-failure path of `main` | runs on top of any thread, twice if both signals come; pool, cache, context | locks taken in a signal handler, mutex destroyed under its users, frees that happen twice |
| RAM cache (`cache.c`) | up to 32 entries (content, size, mtime), rwlock | `add`, `lookup`, `hot_reload`, `destroy` | router, file system | lock upgrade, file changing between `fopen`, `stat` and `fread`, frees |
| Router (`http_router.c`, `utils.c`) | locals; static error buffer | `handle_http_route`, `send_http_error`, `read_file` | cache, disk, TLS | reload by one worker while others send, static buffer |
| Parser (`http_parser.c`) | none | `parse_http_request`, `get_mime_type` | connection handler, router | `strstr` over the whole buffer, header spelling, names cut by fixed arrays |
| Connection handler (`server_worker.c`) | buffer, request, TLS session, descriptor | body of the loop of `lith_client_handler` | client and network, parser, router | fragments, time-outs, resets, keep-alive, every early return |
| Configuration (`config.c`) | `ServerConfig` | `load_config` | `main` | two names for a field, order of lines, line buffer, path arrays |
| TLS context (`ssl_engine.c`) | `global_ssl_ctx` | `lith_ssl_init` (called twice), `get_context`, `cleanup` | `main`, `lith_init_server`, workers, shutdown | workers read the global during the boot, a handler frees it at any moment |
| Daemon mode, command line (`daemon.c`, `main.c`) | process, session, directory, descriptors 0 to 2 | `lith_daemonize`, `main` | everything that opens a file | relative names after `chdir`, closed standard descriptors |
| Logger, dashboard, CI | none | output, browser assets, tooling | | not modelled |

What makes each part correct: the pool hands every accepted descriptor to
exactly one worker, in order, keeps its list intact and wakes a sleeping worker
for it; the cache never serves freed, mixed or outdated content; the parser
finds what the head says; the connection handler gives one fitting answer per
request, returns whatever the client does and releases what it holds; the
process serves what the operator asked for, uses only contexts that are
complete, cleans up once, and ends when it is told to.

## Modules

| Module | Models |
|---|---|
| `ConnectionHandoff` | abstract: a FIFO of descriptors, each delivered to one worker |
| `ThreadPool` | the pool, accept loop and shutdown, one action per stretch of code between two points where another thread can interfere |
| `FileServing` | cache, GET branch, disk fallback, error pages, with the file system as environment |
| `HttpParser` | `parse_http_request` as operators, and the reference: `Meaning` of a `WellFormed` buffer |
| `Connection` | one connection of one worker, extends `HttpParser` |
| `Config` | `load_config`, the arguments of `start`, the file names they lead to, as operators, and the reference `Meant`, `MeantPort` |
| `Names` | path extraction, the router's file name, cache keys and MIME types, as operators over names with lengths |
| `Lifecycle` | the whole process: boot, daemon, both context initialisations, pool, accept loop, any number of shutdowns; extends `Config` |
| `MCThreadPool`, `MCFileServing`, `MCConnection`, `MCLifecycle` | instances for TLC (symmetry sets, request sets, ways to launch the program) |
| `MCAlgorithms` | generates token buffers, configuration files and requested names, and compares the operators with their references |
| `ThreadPoolProofs` | proofs about `ThreadPool`, the refinement of `ConnectionHandoff` included |
| `FileServingProofs`, `CacheProofs` | proofs about `FileServing`: types, locals and lock; then buffers, sizes and freshness |
| `HttpParserProofs`, `ConnectionProofs` | lemmas about `strstr` and the parser; proofs about `Connection` |
| `ConfigProofs`, `LifecycleProofs` | lemmas about `load_config` and the arguments; proofs about `Lifecycle` |
| `AlgorithmProofs` | the properties of `MCAlgorithms` without its bounds |

An operator whose comment begins with "Mutant:" is a version of the definition
after it with one plausible slip (a dropped guard, a missing reset, a missing
release).  No specification uses it; `PROJECT.json` says which property
catches it.

### ThreadPool

`head`, `tail`, `size`, `shutdown` are the fields of `ThreadPool_t`; `mutex` is
the owner of its mutex.  Nodes are addresses: `allocated` is what `malloc` has
handed out, `socketOf` and `nextOf` are the fields in memory, which survive
`free`, so that a stale pointer would be seen.  `chain` is a history variable,
the nodes linked in order; nothing in the code corresponds to it and no guard
reads it.  `pc`, `sock`, `ptr` are each thread's position, descriptor and node
pointer.  `PushAlloc ... PushSignal`, `PopLock ... PopFree`, `Shutdown...`
follow the lines of push, pop and shutdown; a protected section is split where
the code has several statements (link and signal, check and take), so that a
missing lock would show.  `pthread_cond_wait` is three positions: `wait`,
`relock`, and back at `check`; wake-ups may be spurious.  The handler runs as
`closer`, the thread it interrupted, which takes no further step of its own.
`accept()` is a call and a return: a call that has begun may still return a
connection after another thread closed the server socket.  Destroying a mutex
that is owned or that a wait refers to is undefined: the model lets it either fail
or invalidate the mutex, after which `pthread_mutex_lock` returns at once
without the lock (glibc's EINVAL, which the code does not look at).
`pthread_cond_destroy` waits for the waiters, as glibc's does.  The double role
of `SignalTargets` (which threads the kernel may choose) lets a run switch
signals off or confine them to the main thread.

### FileServing

A path names an inode; publishers rewrite the inode, rename another into place,
or remove it; a file's content is the number of the update that wrote it and its
length.  `fopen`, `stat`, `fread`, `ftell` are separate steps.  Buffers are
addresses like the nodes above.  `entry[p]` is the cache entry of path `p`;
`readers` and `writer` are the rwlock, of the default kind that lets readers
pass a waiting writer.  `lith_cache_add` and `lith_cache_hot_reload` share the
`Load...` actions; their differences (size limit, the free of the old content,
what follows) are conditions on `t = Main`.  The lookup loop is the set
`Cached`.  `th[t].seen` remembers what the freshness check saw, for the property
`FreshHit` alone, and is reset when a reload fails and the old content is served
on purpose.  `BootList`, what `thread_pool_init` loads, names no file twice.
The error page is two halves, because `snprintf` into the shared buffer is not
atomic.  A rewrite in place is one step: a file seen half written is not
modelled.  The handler may interrupt any thread (`Destroy`, `closer`), a worker
in the middle of a reload or of an answer included.  On a thread that loads,
`pthread_rwlock_wrlock` returns EDEADLK, which the code does not look at, and
the destruction goes on under the load's own lock; on a thread that reads, the
handler waits for that thread without end (`Rest`).  A free of a content that is
free already is undefined: the process dies, or the address is taken from
whoever got it in between.  A client may never read its answer: `SendStep` is
not fair.

### HttpParser and Connection

A token is a request line, a header line, the blank line or a piece of body and
takes one unit of buffer; the number `strtol` finds in a header may be negative.
A token counts wherever it stands, so that a body may hold what looks like a
header or a request.  Paths are left to `FileServing`.  `Connection` has
one action per stretch of `lith_client_handler` between two calls that can fail
or wait.  `held` is what the worker must release (descriptor, TLS session,
request).  `SSL_read` returns any non-empty prefix of what has arrived that
fits.  `Silent` is the outcome of `SO_RCVTIMEO`, of an orderly close or of a
reset, which the code does not tell apart.  A `setsockopt` that fails is left
out; the client that does not read its answers is in `FileServing` and
`Lifecycle`.

### Config and Names

A line of `lith.conf` is its key, the number `atoi` finds in it, its value as a
path and the characters before the value.  A path keeps what it is relative to,
a name and its length: the code cuts lines at 255 characters and copies into
arrays of 256, and a path that is cut names something else (`Cut`).  Not in the
model: the rest of an over-long line that itself contains an `=` and so would be
read as another setting.  The reference `Meant` does not use the table of keys
that models the code (`KeysOf`): it reads a file with the keys of the
repository's `lith.conf` (`LowerKeys`) and with those of the manual
(`UpperKeys`).  `Names` treats a file name as a prefix of
the directory followed by a prefix of a path, so that two names that have been
cut are equal exactly when the strings are.

### Lifecycle

`given` is how the program was launched: command, file, arguments, length of the
starting directory's name, threads the system grants and signals it will get.
`proc` is the process: directory, session, whether it leads it, descriptors 0 to
2, port, whether the server socket listens and whether `global_server_fd` is
set.  `tls.ctx` are the contexts that the two calls of `lith_ssl_init` make,
`tls.global` is `global_ssl_ctx` (0 for NULL), `tls.cap[w]` what worker `w`
remembers of it.  `frame[t]` is the stack of shutdowns on thread `t`: a signal
pushes one on top of whatever the thread does, another shutdown included; SIGINT
and SIGTERM are each blocked during their own handler only.  `pool` and `cache`
keep the locks and counts of the other modules and drop their contents: a
connection is a number in the queue, a request takes the read lock, or first the
write lock for a reload, and is sent when the client reads.  A reload frees the
old content (`ReloadFree`) before it stores the new one; `cache.frees` counts
the frees of the content that an entry points to, by reload and shutdown alike.
A write lock that its owner asks for again is passed with EDEADLK, as glibc
does, and freed memory may crash the process or not.  Whatever a worker writes
to a client may raise SIGPIPE, which ends the process (`BrokenPipe`).  After a
`fork` the story goes on with the child.  The boot-failure path of `main` is a
shutdown on the main thread without the socket.  The log is a daemon's
`lith.log` in the starting directory, in `/tmp`, or none.

## Runs

Passing runs:

| Run | Bounds | Shows |
|---|---|---|
| `pool_safety` | 2 workers, 3 descriptors, 3 nodes, signal on any thread | types, list shape, node and descriptor ownership, lock discipline, no lost wake-up; refinement of `ConnectionHandoff`; quiet list after the mutex is destroyed |
| `pool_liveness` | 2 workers, 2 descriptors, 2 nodes, no signals, fairness | a queued connection is taken unless all workers are occupied; the shutdown after a failed boot ends |
| `files_cache` | 2 workers, any number of requests, 3 updates, one cached file, handler on any thread | lock, buffers, header and body, freshness; entries only move forward |
| `files_liveness` | 2 workers, any number of requests, 1 rename or removal, one path, handler on any thread, fairness | requests get to their answers and the cache is destroyed, unless the cache is always read |
| `algorithms` | all buffers of up to 5 tokens; all files of up to 4 of 13 lines; all lengths of `public_dir` with 23 paths | agreement with `Meaning`; what comes behind the head is inert up to spelling; agreement with `Meant` for keys in lower case, and none for those of the manual; arrays that suffice at every length, and a request finds its own cached file where the longest key fits |
| `connection` | 2 connections of 2 requests, buffer of 5 tokens, any client, fairness | answers fit requests, a surplus answer is a single 400 and the last, nothing kept, ends for cause, the worker comes back, the buffer is not overrun |
| `lifecycle` | foreground with 1 worker and 2 signals, or 2 workers and 1 signal; daemons with 1 worker, with 1 signal, with a long directory and port 70000, and with relative certificate paths; the other commands; 1 connection, any number of requests; fairness | served as configured, contexts ready, daemon detached, one clean-up but for two cases, every crash explained, shutdowns end |

The bounds let the interesting cases happen.  Two workers and three connections
give a queue that is empty, has one node and has several, a worker that sleeps
while another is busy, and reuse of a freed address; two workers racing for one
stale entry with a third update give a reload between another worker's check and
its reload; a buffer of five tokens is filled exactly by the longest request;
one worker that can be asleep, in the queue's mutex, in a reload or in an
answer, with one signal on it and another on top or on the main thread, give
every pair of shutdowns, and two workers give a second one whose state the first
signal does not disturb.  `MaxUpdates`, `MaxRequests` (of a client in
`Connection`), `MaxConnections`, `MaxTokens`, `MaxLines` and the fields
`threads` and `signals` of a launch are the named bounds.  Deadlock is checked
except where the system may really stop: a shutdown that hangs (see
`pool_signal`) or the end of the bounded inputs. Symmetry is used in
`pool_safety` and the safety runs of `FileServing`, whose properties are all
safety and name no worker, descriptor or address.

`files_cache` checks freshness with updates at least a second apart and no
renames; `files_stale` allows the renames and nothing else, and so shows what the
window between `fopen` and `stat` costs.  (Two rewrites within a second have the
same date, and the second is never noticed.)

`BuffersSafe` names one exception: a handler that interrupts a worker between
the free and the swap of a hot reload.  It says how far the damage goes, namely
that until the destruction has run everything is in order, that only the content
of the entry being reloaded is freed again, and that no other thread is about to
use it.  The rwlock lets readers pass a waiting writer, and workers serve any
number of requests, so a stream of readers can starve the upgrade and the
shutdown.  `RequestsAnswered` and `DestroyEnds` say that this is the only way:
either they hold, or from some moment on some request is always between its
lookup and the end of its answer (`AlwaysRead`): requests overlap without a gap,
a client does not read, or the handler itself sits on top of a reader.

`BodyIsInert` lets any token arrive behind a complete head and says what stays.
What does not: a header that the head does not have, or has in another spelling
than the one searched for first, can come from the body.  `ConfigAgrees` reads a
file with the keys of the manual too, and says that a field named only by them
stays zero.  `AnswersMatch` speaks of prompt clients, which get a whole head
through in one read and wait for the answer.  A head cut in two is answered
twice; `SurplusEnds` bounds what can come of it: one answer too many, a 400, and
nothing after it.

`lifecycle` names its exceptions.  `AsConfigured` speaks of ports that exist (`0
.. MaxPort`) and of files whose lines, and directories whose names, fit (`Fits`)
and whose keys are in lower case; a port given as an argument counts whatever
the file says.  `ServesReady` says that the context a worker remembers is
complete when it is used, because nothing is accepted before the second
initialisation is over and the first context is never freed: the leak protects
the workers that remember it.  `CleanupOnce` leaves two cases in which something
is freed twice, both with a handler on the thread that owns the write lock:
within a shutdown (`Nested`), and between the free and the swap of a reload
(`SwapBroken`).  `CrashHasCause` lists how the process can fall: by SIGPIPE when
a worker writes to a client that has reset the connection, by SIGPIPE in a
daemon without a log, by a bad access through one of these two double frees, or
through a context that a shutdown has freed while a handshake or the boot still
uses it. That a signal came is not enough for an excuse.  `ShutdownEnds` leaves
three ways to be stuck: the handler waits for a mutex that its own thread owns,
for the end of a condition wait that its own thread stands in, or for readers of
the cache, whose answers nobody reads or whose successors keep the lock shared.

Runs in which TLC finds a violation, each a disagreement between the code and
what a document, comment, message or test of the repository says:

| Run | Property | What happens |
|---|---|---|
| `pool_signal` | `ShutdownCompletes` | a signal inside `thread_pool_push` makes the handler wait for a mutex its own thread holds |
| `files_stale` | `AcceptedIsCurrent` | a rename between `fopen` and `stat` leaves old content under a date that is never questioned again |
| `files_error` | `ErrorPageOwn` | concurrent error pages mix |
| `connection_post` | `PostReceived` | an incomplete body is acknowledged in full |
| `lifecycle_daemon` | `CertificateFound` | a daemon leaves its directory before it loads `certs/server.crt`, and ends; its launcher has reported success |

Other disagreements that the models exhibit and no run is kept for:

* `server_worker.c:49` ignores a failing `pthread_create`; the log line after it
  reports the number asked for as active workers.  (`Spawn` may fail;
  `QueuedIsTaken` counts such workers as occupied.)
* `server_worker.c:134`: a worker that reads the raised flag after its pop leaves
  with the descriptor open (`HandlerBreak`); the process ends soon after.
* `server_worker.c:121`: workers run through protected sections after the mutex
  was destroyed.  `ListGuarded` and `QuietAfterDestroy` show that the list
  survives it.
* `cache.c:108`: a reload has no size limit, `cache.h:24` announces one
  (`LoadStat` compares sizes for `Main` alone).
* `utils.c:39`: a file that shrinks between `ftell` and `fread` is sent with its
  old length (`DiskRead`).
* `http_parser.c:58`: three spellings of `Content-Length` are tried; the comment
  above promises a search that ignores case.
* The same searches run over the whole buffer: `Connection: close` or a
  `Content-Length` in a body is taken for a header when the head has none in the
  first spelling (`FindHeader`), while `http_parser.h:23` speaks of the length
  announced by the header.
* `README.MD:39-50` and `test-suite.yml:30-31` write the keys in upper case;
  `load_config` compares with lower-case ones (`KeysOf`).  Such a file leaves
  port 0, no cache and an empty `public_dir`, which is the root directory in
  the foreground and the starting directory for a daemon (`Served`,
  `Absolutise`).  `ConfigAgrees` states it.
* `README.MD:89` documents `MAX_KEEP_ALIVE_REQUESTS`; nothing counts requests.
* `test-suite.yml:80-84` expects 200 for a request in clear text; the code
  answers 301 (`PeekClear`).
* SIGPIPE is not handled: writing to a connection that was reset can end the
  process (`Write` of `Connection`, `BrokenPipe` of `Lifecycle`).
* Port 70000 is accepted and port 4464 bound (`Htons`); the log line says 70000.
* `main.c:123`: a starting directory with a long name cuts `public_dir`.
* `cache.c:64`: with a `public_dir` of 245 characters or more the key of
  `index.html` is cut, and a request for the shorter name is answered with it.
* `README.MD:13` speaks of fragmented bodies; a fragmented head gets two answers
  (`SurplusEnds`).
* `daemon.c:78`: when no log can be opened, the server socket becomes standard
  output and the first line written to it ends the process (`LogToServer`).
* `cache.c:131`: a signal on a worker between the free and the swap of a hot
  reload (`cache.c:118`) makes the shutdown free that content a second time
  (`DestroyFree`, `CacheDestroy`), and so does SIGTERM within the handler of
  SIGINT on one thread: the write lock does not hold up the thread that owns it.
* A signal on a worker during the second `lith_ssl_init` frees the context that
  is being filled in (`UseFile`), and one later the context of workers that
  started late (`SslNew`).

### Fairness

Weak fairness for every thread: the scheduler runs what can run.  The shutdown's
lock step is strongly fair: workers that wake spuriously may take and release
the mutex again and again, and one day the shutdown gets it.  Clients, signals,
spurious wake-ups, the file system and, in the pool, the end of a connection
owe nothing.  In `FileServing` clients owe nothing either: they ask as often as
they like, and `SSL_write`, which has no time-out, need not return.  What a
worker does between two sends, and the destruction, is strongly fair, because the
rwlock may be free again and again; a writer that finds it free again and again
gets it one day, one that never finds it free does not.  In `Connection` reads
end because `SO_RCVTIMEO` is set on the socket.  In `Lifecycle` each thread's
shutdown is strongly fair as a whole, since both the mutex and the write lock
may be free again and again; here clients owe nothing, `Sent` is not fair, and
`ShutdownEnds` says what that costs.

## Proofs

Every invariant and every action property of the passing runs is a theorem, for
every value of the constants that the named assumptions of the modules allow:
any finite number of workers, any sets of descriptors, nodes, buffers, files,
requests and launches, bounds of any size.  What is assumed of the constants is
what makes them what they stand for: `NULL` is no thread or address, the main
thread is no worker, sizes are numbers, requests are sequences of tokens, a
launch has a file, arguments and at most two signals.  Each invariant was an
invariant of a TLC run before it was proved.

| Module | Inductive invariant | Proved from it |
|---|---|---|
| `ThreadPoolProofs` | `PoolInv` | `TypeOK`, `LockDiscipline`, `PointerDiscipline`, `ListGuarded`, `ListIntact`, `NodesAccounted`, `QuietAfterDestroy`, `NoLostWakeup` |
| | `SocketInv` | `OneOwner`, `HandoffSpec` |
| `FileServingProofs` | `ServingInv` | `TypeOK`, `LockFollowsCode` |
| `CacheProofs` | `CacheInv` | `BuffersSafe`, `HeaderMatchesBody`, `ReloadsForward` |
| | `CacheInv`, `Times`, `Seen` | `AcceptedIsCurrent`, `FreshHit`, if files are only rewritten |
| `AlgorithmProofs` | `InputsInv` (types) | `ParserAgrees`, `BodyIsInert`, `ConfigAgrees`, `NamesAgree` |
| `ConnectionProofs` | `ConnectionInv` | `TypeOK`, `NothingKept`, `EndsForCause` |
| | `ConnectionInv`, `Exchange` | `AnswersMatch`, for orderly requests |
| | `ConnectionInv`, `Accounts` | `SurplusEnds`, for requests with one request line |
| `LifecycleProofs` | `LifecycleInv` | `TypeOK`, `ServesReady`, `AsConfigured`, `Detached`, `CleanupOnce`, `CrashHasCause` |

### The pool

`ListIntact` alone is not inductive: a pop writes through `head` and needs to
know that nobody changed the list since it was found non-empty.  That is
`ListGuarded`: whoever is about to change the list owns a mutex that exists, and
the flag is down.  To keep it, one must know that the flag goes up only with the
mutex held, outside any protected section of the thread the handler interrupted,
and that the mutex is destroyed only afterwards; this is `LockDiscipline`.  That
a push appends a node that ends the list is `PointerDiscipline`; that the node
freed by a pop is not in the list, and the one `malloc` returns is in nobody's
hand, is `NodesAccounted`.  `PoolInv` is the conjunction of these and `TypeOK`.

`OneOwner` counts owners.  `SocketInv` says the same without counting: at which
positions a thread has a descriptor (`SocketDiscipline`), and that the open ones
are those queued and those carried, no two owners sharing one
(`SocketsAccounted`).  On top of it, each step of the pool is a push, a take or a
close of `ConnectionHandoff`, or changes nothing that the mapping sees.  In
`NoLostWakeup` the interesting steps are the three that change either side: a
push that signals moves a sleeper to the contenders, a pop that takes a node
leaves both sides one less, a worker that begins to wait has seen an empty list
under the mutex.

### The cache

`ServingInv` says which locals are set at each position and that the rwlock is
held by exactly the positions between its calls.  From it follows that a reload
is alone in the cache between freeing the old content and storing the new
(`Swapping`), which is what `Owners` (a buffer has one owner, an entry or a
thread) needs.  A handler on a worker in that very place destroys the accounts,
so the parts of `CacheInv` hold until the destruction of a `Torn` cache, and
what is then left is that no other thread is in a position to read.
`EntrySizes` and `Versions` need `Owners`, because a buffer in use is not
overwritten; `Versions` orders what was sent, what is being loaded and what is
on disk, and `OpenFiles` relates an open stream to the name it was opened by,
which a rename or removal may since have given away.

Freshness needs `Rewriting`: no rename into place, and no two updates in one
second.  `files_stale` is the counterexample without it.  Under it a date tells
contents apart (`Times`), and `Seen` follows what a request's freshness check
saw through unlocking, reloading and locking again; its last part is about
another worker that swaps the entry while the first waits to read it.

### The parser and the names

Buffers, files and lists of arguments of any length call for induction over
data, which is out of this prover's reach.  What `strstr` finds is the least of
a set of positions, and `load_config` and the loop over the arguments are folds:
if a closed form and a fold differ, they differ first on some prefix, and one
more line cannot make the difference.  `NatLessThanWellFounded` and `WFMin` give
that least prefix.  `ParserFindsMeaning`, `ParserIgnoresBody`,
`LoadFindsMeaning` and their like are lemmas about operators for arbitrary
arguments (`CanonicalStays`: once the head has a header in its first spelling,
the search finds that one whatever follows; `LowerCaseNames`: the lines that
name a field are those of `KeysOf`, unless one does in upper case); the theorems
of `AlgorithmProofs` state them as properties of the specification that the run
explores, with no bound on tokens and lines.  `KeysMatch` and `FilePathFits`
hold for every path of which the two shortest prefixes are `""` and `"/"`; the
theorem is about those that `MCAlgorithms` asks for.

### The connection

`ConnectionInv` fixes what the worker holds at each position (`HeldAt`), so that
every early return can be checked alone, and that an announced end is followed
by nothing but releases.  `AnswersMatch` needs to know what is in transit: to a
client that waits, everything sent and not answered is one whole request, split
between wire and buffer (`Exchanged`).  Its hypothesis, `Orderly` requests, asks
that a request fits the buffer, that what begins like a request is well formed,
and that it carries the body it announces.  For `SurplusEnds` the lines that
begin a request are counted: answers, lines not yet read and the request in hand
are no more than the requests sent, plus one for a 400 (`Balance`).  The
assumption of `MCConnection` shows that the requests of the run satisfy both
hypotheses.

### The process

`LifecycleInv` has a part for each matter.  `Configured` and `Daemonised` tie what
each call leaves behind to the positions of `main()` after it; with `ConfigProofs`
this gives `AsConfigured` for every file and every command line.  `Employed` and
`Contextual` explain `ServesReady`: a worker that is born between the two
`lith_ssl_init` may remember the first context or the second, but none is busy
before the server listens, which is after the second is complete; a worker that
found none is one that the shutdown or a failed boot will not let past the pop.
`Marked` and `Locked` follow a shutdown by the position of its innermost frame:
whoever is past `lith_cache_destroy` still owns the write lock, so no second
thread passes it, which is what `Counted` needs to say that each thing is freed
once while no thread has two frames and none is interrupted in a swap.  Both
conditions, once they are broken, stay broken (`SwapStays`), since an interrupted
thread does not go on.  `CrashHasCause` rests on the state before the crash:
every bad access has its cause there (`AccessHasCause`), and the last step leaves
all threads where they were.

### Only model-checked

Liveness, because fairness and `ENABLED` are out of the prover's reach:
`QueuedIsTaken`, `ShutdownCompletes`, `RequestsAnswered`, `DestroyEnds`,
`WorkerReturns`, `ShutdownEnds`.  The runs that end in a violation are
counterexamples and need no proof.

## Not modelled

* Clients that send without end: what a client sends is bounded.
* Byte-level parsing: the digits of numbers, the text of the answers, the
  remainder of an over-long line of `lith.conf`.
* The files of a daemon's parents: buffered output of `stdio` that each exiting
  parent writes once more.
* Locks of the C library: a handler that interrupts `malloc` or `free` on its
  own thread and then frees the cache may wait for the allocator without end.
  A signal in the middle of `lith_cache_add` at boot is taken before or after it.
* The reuse of a closed client descriptor by another thread, and a third signal.
* The logger's text, the dashboard's scripts, build files; Windows.

## Plan

1. `ThreadPool`, `FileServing`, `HttpParser`, `Connection`: done as above.
2. `Config`, `Names`, `Lifecycle`: done as above.
3. Proofs of every safety invariant and action property of the passing runs, and
   of the refinement: done as above.
4. Left: the safety half of the liveness properties (from which positions a
   thread can be held up, and by whom: `Stuck` is complete), `NamesAgree` for
   every path rather than the ones asked for, and the two hazards without a
   property (`cache.c:108`, `utils.c:34`), where the code has nothing to hold.

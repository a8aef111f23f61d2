----------------------------- MODULE FileServing -----------------------------
(***************************************************************************)
(* How LITH answers a GET: the RAM cache with its read/write lock and hot  *)
(* reload (src/src/server/cache.c), the GET branch of the router, the disk *)
(* fallback (read_file) and the error page built in a static buffer.       *)
(*                                                                         *)
(* The file system is the environment: a path names an inode, publishers   *)
(* write into the inode or put another in its place, and every fopen, stat *)
(* and fread of the code is a step that sees the file system of its own    *)
(* moment.  The content of a file is the number of the update that wrote   *)
(* it and its length.  A buffer is an address that malloc() hands out and  *)
(* free() takes back, so a dangling content pointer is a state.            *)
(***************************************************************************)
EXTENDS Integers, Sequences, FiniteSets

CONSTANTS Workers, Main,      \* the worker threads, the main thread
          Paths, UnsafePaths, \* requested paths; those is_safe_path rejects
          BootList,           \* what thread_pool_init puts into the cache
          UseCache,           \* use_cache of lith.conf
          MaxEntries,         \* MAX_CACHE_ENTRIES
          MaxFile,            \* MAX_CACHE_FILE_SIZE
          Sizes,              \* lengths a file may have
          Updates,            \* what publishers do: "write", "replace", "remove"
          Delays,             \* seconds between an update and the one before
          MaxUpdates,         \* bound: updates of the file system
          Inodes, Buffers,    \* addresses
          PageLength,         \* length of the error page per status code
          NULL

Threads == Workers \cup {Main}
Codes == DOMAIN PageLength

ASSUME ServingAssumption ==
    /\ IsFiniteSet(Workers) /\ Main \notin Workers
    /\ NULL \notin Threads \cup Paths \cup Inodes \cup Buffers
    /\ UnsafePaths \subseteq Paths /\ BootList \in Seq(Paths \ UnsafePaths)
    /\ \A i, j \in 1 .. Len(BootList) : BootList[i] = BootList[j] => i = j
    /\ UseCache \in BOOLEAN /\ MaxEntries \in Nat /\ MaxFile \in Nat
    /\ Sizes \subseteq Nat /\ Delays \subseteq Nat
    /\ MaxUpdates \in Nat
    /\ {403, 404} \subseteq Codes /\ PageLength \in [Codes -> Nat]

VARIABLES
    disk, inode, clock, updates,    \* file system: directory, files, seconds, count
    readers, writer,                \* cache->rwlock
    entry,                          \* cache->entries by filepath: content, size, mtime
    live, heap,                     \* allocated buffers and what they hold
    toAdd,                          \* the lith_cache_add calls still to make
    th,                             \* the locals of each thread, see Idle
    page,                           \* static error_buffer: who wrote its two halves
    closer, cpc                     \* thread that runs lith_cache_destroy, position

fsVars    == <<disk, inode, clock, updates>>
lockVars  == <<readers, writer>>
cacheVars == <<entry, live, heap, toAdd>>
restVars  == <<page, closer, cpc>>
vars == <<fsVars, lockVars, cacheVars, th, restVars>>

NoStat == [version |-> 0, size |-> 0, mtime |-> 0]

\* Position, file_path, FILE *, buffer, struct stat, Content-Length sent
\* and the update the freshness check saw.
Local(l) == [pc |-> l, path |-> NULL, fh |-> NULL, buf |-> NULL, st |-> NoStat,
             hdr |-> 0, seen |-> 0]
Idle == Local("idle")

NoEntry == [content |-> NULL, size |-> 0, mtime |-> 0]
Cached  == {p \in Paths : entry[p] # NoEntry}
Content(p) == heap[entry[p].content]
File(p)    == inode[disk[p]]
Exists(p)  == disk[p] # NULL

MinOf(a, b) == IF a < b THEN a ELSE b

\* A thread runs unless the signal handler is on top of it or the process is gone.
At(t, l) == closer # t /\ cpc # "exited" /\ th[t].pc = l

-----------------------------------------------------------------------------
(* The file system. *)

Tick == /\ updates < MaxUpdates /\ updates' = updates + 1
        /\ \E d \in Delays : clock' = clock + d

Written(s) == [version |-> updates', size |-> s, mtime |-> clock']

InUse == {disk[p] : p \in Paths} \cup {th[t].fh : t \in Threads}

\* The file is rewritten where it is, or another file is renamed to the path.
Publish(p, s) ==
    /\ Tick
    /\ \/ /\ "write" \in Updates /\ Exists(p)
          /\ inode' = [inode EXCEPT ![disk[p]] = Written(s)] /\ UNCHANGED disk
       \/ /\ "replace" \in Updates
          /\ \E i \in Inodes \ InUse :
               /\ inode' = [inode EXCEPT ![i] = Written(s)]
               /\ disk' = [disk EXCEPT ![p] = i]
    /\ UNCHANGED <<lockVars, cacheVars, th, restVars>>

Remove(p) ==
    /\ "remove" \in Updates /\ Exists(p)
    /\ Tick
    /\ disk' = [disk EXCEPT ![p] = NULL]
    /\ UNCHANGED <<inode, lockVars, cacheVars, th, restVars>>

-----------------------------------------------------------------------------
(* pthread_rwlock_t: the default kind, which lets readers pass a writer    *)
(* that waits.                                                             *)

RdLock(t) == writer = NULL /\ readers' = readers \cup {t} /\ UNCHANGED writer
RdUnlock(t) == readers' = readers \ {t} /\ UNCHANGED writer
WrLock(t) == writer = NULL /\ readers = {} /\ writer' = t /\ UNCHANGED readers
WrUnlock == writer' = NULL /\ UNCHANGED readers

-----------------------------------------------------------------------------
(* Loading a file into a buffer under the write lock: lith_cache_add (run  *)
(* by Main at boot) and lith_cache_hot_reload (run by a worker).           *)

\* Mutant: the boot takes the lock for reading.
BootAddShared ==
    /\ At(Main, "boot") /\ toAdd # <<>>
    /\ toAdd' = Tail(toAdd)
    /\ IF Cardinality(Cached) >= MaxEntries
       THEN UNCHANGED <<lockVars, th>>
       ELSE /\ RdLock(Main)
            /\ th' = [th EXCEPT ![Main].pc = "open", ![Main].path = Head(toAdd)]
    /\ UNCHANGED <<fsVars, entry, live, heap, restVars>>

BootAdd ==
    /\ At(Main, "boot") /\ toAdd # <<>>
    /\ toAdd' = Tail(toAdd)
    /\ IF Cardinality(Cached) >= MaxEntries
       THEN UNCHANGED <<lockVars, th>>
       ELSE /\ WrLock(Main)
            /\ th' = [th EXCEPT ![Main].pc = "open", ![Main].path = Head(toAdd)]
    /\ UNCHANGED <<fsVars, entry, live, heap, restVars>>

BootDone ==
    /\ At(Main, "boot") /\ toAdd = <<>>
    /\ th' = [th EXCEPT ![Main].pc = "serving"]
    /\ UNCHANGED <<fsVars, lockVars, cacheVars, restVars>>

LoadOpen(t) ==
    /\ At(t, "open") /\ Exists(th[t].path)
    /\ th' = [th EXCEPT ![t].pc = "restat", ![t].fh = disk[th[t].path]]
    /\ UNCHANGED <<fsVars, lockVars, cacheVars, restVars>>

\* stat() goes by the name, not by the open file; then malloc.  Only the boot
\* compares the size with the limit.
LoadStat(t, b) ==
    /\ At(t, "restat") /\ Exists(th[t].path) /\ b \notin live
    /\ t = Main => File(th[t].path).size <= MaxFile
    /\ live' = live \cup {b}
    /\ th' = [th EXCEPT ![t].pc = "load", ![t].buf = b, ![t].st = File(th[t].path)]
    /\ UNCHANGED <<fsVars, lockVars, entry, heap, toAdd, restVars>>

\* After a load the boot turns to the next file, a worker takes back the read
\* lock it gave up.
AfterLoad(t) ==
    IF t = Main THEN Local("boot")
    ELSE [Local("relock") EXCEPT !.path = th[t].path]

\* Mutant: the early returns forget the unlock.
LoadFailLocked(t) ==
    /\ At(t, "open") \/ At(t, "restat")
    /\ UNCHANGED lockVars
    /\ th' = [th EXCEPT ![t] = AfterLoad(t)]
    /\ UNCHANGED <<fsVars, cacheVars, restVars>>

\* fopen, stat or malloc failed, or the boot found the file too large: the
\* cache is left as it was.
LoadFail(t) ==
    /\ At(t, "open") \/ At(t, "restat")
    /\ WrUnlock
    /\ th' = [th EXCEPT ![t] = AfterLoad(t)]
    /\ UNCHANGED <<fsVars, cacheVars, restVars>>

\* fread: at most st_size bytes of what the open file holds by now.
LoadRead(t) ==
    LET f == inode[th[t].fh] IN
    /\ At(t, "load")
    /\ heap' = [heap EXCEPT ![th[t].buf] =
          [version |-> f.version, length |-> MinOf(th[t].st.size, f.size)]]
    /\ th' = [th EXCEPT ![t].pc = IF t = Main THEN "swap" ELSE "free", ![t].fh = NULL]
    /\ UNCHANGED <<fsVars, lockVars, entry, live, toAdd, restVars>>

\* Mutant: the old content is not freed.
ReloadFreeSkipped(w) ==
    /\ At(w, "free")
    /\ UNCHANGED live
    /\ th' = [th EXCEPT ![w].pc = "swap"]
    /\ UNCHANGED <<fsVars, lockVars, entry, heap, toAdd, restVars>>

ReloadFree(w) ==
    /\ At(w, "free")
    /\ live' = live \ {entry[th[w].path].content}
    /\ th' = [th EXCEPT ![w].pc = "swap"]
    /\ UNCHANGED <<fsVars, lockVars, entry, heap, toAdd, restVars>>

\* Mutant: the entry is stamped with the time of the load.
LoadSwapNow(t) ==
    /\ At(t, "swap")
    /\ entry' = [entry EXCEPT ![th[t].path] =
          [content |-> th[t].buf, size |-> heap[th[t].buf].length, mtime |-> clock]]
    /\ WrUnlock
    /\ th' = [th EXCEPT ![t] = [AfterLoad(t) EXCEPT !.seen = th[t].seen]]
    /\ UNCHANGED <<fsVars, live, heap, toAdd, restVars>>

LoadSwap(t) ==
    /\ At(t, "swap")
    /\ entry' = [entry EXCEPT ![th[t].path] =
          [content |-> th[t].buf, size |-> heap[th[t].buf].length, mtime |-> th[t].st.mtime]]
    /\ WrUnlock
    /\ th' = [th EXCEPT ![t] = [AfterLoad(t) EXCEPT !.seen = th[t].seen]]
    /\ UNCHANGED <<fsVars, live, heap, toAdd, restVars>>

-----------------------------------------------------------------------------
(* The GET branch of handle_http_route. *)

Get(w, p) ==
    /\ At(w, "idle") /\ th[Main].pc = "serving"
    /\ th' = [th EXCEPT ![w].path = p,
                        ![w].pc = CASE p \in UnsafePaths -> "format"
                                    [] p \notin UnsafePaths /\ UseCache -> "lookup"
                                    [] OTHER -> "fopen"]
    /\ UNCHANGED <<fsVars, lockVars, cacheVars, restVars>>

\* lith_cache_lookup: a hit keeps the read lock, a miss gives it back.
LookupHit(w) ==
    /\ At(w, "lookup") /\ th[w].path \in Cached
    /\ RdLock(w)
    /\ th' = [th EXCEPT ![w].pc = "stat"]
    /\ UNCHANGED <<fsVars, cacheVars, restVars>>

LookupMiss(w) ==
    /\ At(w, "lookup") /\ th[w].path \notin Cached
    /\ writer = NULL
    /\ th' = [th EXCEPT ![w].pc = "fopen"]
    /\ UNCHANGED <<fsVars, lockVars, cacheVars, restVars>>

Newer(p) == Exists(p) /\ File(p).mtime > entry[p].mtime

\* The freshness check.  Its answer is acted upon after the read lock was
\* given up for the write lock, without a second look.
StatCurrent(w) ==
    LET p == th[w].path IN
    /\ At(w, "stat") /\ ~Newer(p)
    /\ th' = [th EXCEPT ![w].pc = "header", ![w].seen = IF Exists(p) THEN File(p).version ELSE 0]
    /\ UNCHANGED <<fsVars, lockVars, cacheVars, restVars>>

\* Mutant: the stale entry is served and not reloaded.
StatStaleServed(w) ==
    LET p == th[w].path IN
    /\ At(w, "stat") /\ Newer(p)
    /\ UNCHANGED lockVars
    /\ th' = [th EXCEPT ![w].pc = "header", ![w].seen = File(p).version]
    /\ UNCHANGED <<fsVars, cacheVars, restVars>>

\* Mutant: the write lock is asked for under the read lock.
StatStaleHolding(w) ==
    LET p == th[w].path IN
    /\ At(w, "stat") /\ Newer(p)
    /\ UNCHANGED lockVars
    /\ th' = [th EXCEPT ![w].pc = "upgrade", ![w].seen = File(p).version]
    /\ UNCHANGED <<fsVars, cacheVars, restVars>>

StatStale(w) ==
    LET p == th[w].path IN
    /\ At(w, "stat") /\ Newer(p)
    /\ RdUnlock(w)
    /\ th' = [th EXCEPT ![w].pc = "upgrade", ![w].seen = File(p).version]
    /\ UNCHANGED <<fsVars, cacheVars, restVars>>

\* Mutant: the write lock does not wait for the readers.
UpgradeShared(w) ==
    /\ At(w, "upgrade")
    /\ writer = NULL /\ writer' = w /\ UNCHANGED readers
    /\ th' = [th EXCEPT ![w].pc = "open"]
    /\ UNCHANGED <<fsVars, cacheVars, restVars>>

Upgrade(w) ==
    /\ At(w, "upgrade")
    /\ WrLock(w)
    /\ th' = [th EXCEPT ![w].pc = "open"]
    /\ UNCHANGED <<fsVars, cacheVars, restVars>>

\* Mutant: after a reload the answer is sent without the lock.
RelockSkipped(w) ==
    /\ At(w, "relock")
    /\ UNCHANGED lockVars
    /\ th' = [th EXCEPT ![w].pc = "header"]
    /\ UNCHANGED <<fsVars, cacheVars, restVars>>

Relock(w) ==
    /\ At(w, "relock")
    /\ RdLock(w)
    /\ th' = [th EXCEPT ![w].pc = "header"]
    /\ UNCHANGED <<fsVars, cacheVars, restVars>>

CacheHeader(w) ==
    /\ At(w, "header")
    /\ th' = [th EXCEPT ![w].pc = "body", ![w].hdr = entry[th[w].path].size]
    /\ UNCHANGED <<fsVars, lockVars, cacheVars, restVars>>

\* Mutant: the request ends without the unlock.
CacheBodyLocked(w) ==
    /\ At(w, "body")
    /\ UNCHANGED lockVars
    /\ th' = [th EXCEPT ![w] = Idle]
    /\ UNCHANGED <<fsVars, cacheVars, restVars>>

\* SSL_write of the content, as long as the client takes, under the read lock.
CacheBody(w) ==
    /\ At(w, "body")
    /\ RdUnlock(w)
    /\ th' = [th EXCEPT ![w] = Idle]
    /\ UNCHANGED <<fsVars, cacheVars, restVars>>

\* read_file: fopen; the length by fseek/ftell and a buffer; fread.
DiskOpen(w) ==
    /\ At(w, "fopen") /\ Exists(th[w].path)
    /\ th' = [th EXCEPT ![w].pc = "ftell", ![w].fh = disk[th[w].path]]
    /\ UNCHANGED <<fsVars, lockVars, cacheVars, restVars>>

DiskSize(w, b) ==
    /\ At(w, "ftell") /\ b \notin live
    /\ live' = live \cup {b}
    /\ th' = [th EXCEPT ![w].pc = "fread", ![w].buf = b, ![w].hdr = inode[th[w].fh].size]
    /\ UNCHANGED <<fsVars, lockVars, entry, heap, toAdd, restVars>>

\* fopen or malloc failed: 404.
DiskFail(w) ==
    /\ At(w, "fopen") \/ At(w, "ftell")
    /\ th' = [th EXCEPT ![w].pc = "format", ![w].fh = NULL]
    /\ UNCHANGED <<fsVars, lockVars, cacheVars, restVars>>

\* fread may deliver less than was announced: the length returned to the
\* router is still the one ftell saw.
DiskRead(w) ==
    LET f == inode[th[w].fh] IN
    /\ At(w, "fread")
    /\ heap' = [heap EXCEPT ![th[w].buf] =
          [version |-> f.version, length |-> MinOf(th[w].hdr, f.size)]]
    /\ th' = [th EXCEPT ![w].pc = "send", ![w].fh = NULL]
    /\ UNCHANGED <<fsVars, lockVars, entry, live, toAdd, restVars>>

\* Header and body of the announced length, then free(file_content).
DiskSend(w) ==
    /\ At(w, "send")
    /\ live' = live \ {th[w].buf}
    /\ th' = [th EXCEPT ![w] = Idle]
    /\ UNCHANGED <<fsVars, lockVars, entry, heap, toAdd, restVars>>

-----------------------------------------------------------------------------
(* send_http_error and get_error_html.  The page is formatted into a static*)
(* buffer every thread shares: another thread may get in between the bytes *)
(* of one snprintf, and between the two strlen calls of the sender.        *)

CodeOf(w) == IF th[w].path \in UnsafePaths THEN 403 ELSE 404

ErrorFormatTop(w) ==
    /\ At(w, "format")
    /\ page' = [page EXCEPT !.top = CodeOf(w)]
    /\ th' = [th EXCEPT ![w].pc = "format2"]
    /\ UNCHANGED <<fsVars, lockVars, cacheVars, closer, cpc>>

ErrorFormatEnd(w) ==
    /\ At(w, "format2")
    /\ page' = [page EXCEPT !.end = CodeOf(w)]
    /\ th' = [th EXCEPT ![w].pc = "errheader"]
    /\ UNCHANGED <<fsVars, lockVars, cacheVars, closer, cpc>>

ErrorHeader(w) ==
    /\ At(w, "errheader")
    /\ th' = [th EXCEPT ![w].pc = "errbody", ![w].hdr = PageLength[page.end]]
    /\ UNCHANGED <<fsVars, lockVars, cacheVars, restVars>>

ErrorBody(w) ==
    /\ At(w, "errbody")
    /\ th' = [th EXCEPT ![w] = Idle]
    /\ UNCHANGED <<fsVars, lockVars, cacheVars, restVars>>

-----------------------------------------------------------------------------
(* lith_cache_destroy, the last part of thread_pool_shutdown, in the signal*)
(* handler on whichever thread the signal finds.  The write lock it takes  *)
(* is never released, its destruction has no effect, and the process ends  *)
(* next: the interrupted code does not go on.                              *)

\* The workers exist from the end of the boot on.
Destroy(t) ==
    /\ closer = NULL
    /\ t \in Workers => th[Main].pc = "serving"
    /\ closer' = t /\ cpc' = "lock"
    /\ UNCHANGED <<fsVars, lockVars, cacheVars, th, page>>

\* If the interrupted code is a load, wrlock returns EDEADLK, which nobody
\* looks at; if it is a reader, the handler waits for its own thread.
DestroyLock ==
    /\ cpc = "lock"
    /\ WrLock(closer) \/ (writer = closer /\ UNCHANGED lockVars)
    /\ cpc' = "free"
    /\ UNCHANGED <<fsVars, cacheVars, th, page, closer>>

\* The free of a content that a hot reload freed and has not yet replaced is
\* undefined: malloc may notice and abort, or the address is taken from
\* whoever got it in between.
DestroyFree ==
    LET contents == {entry[p].content : p \in Cached} IN
    /\ cpc = "free"
    /\ live' = live \ contents
    /\ cpc' = "exit" \/ (~(contents \subseteq live) /\ cpc' = "exited")
    /\ UNCHANGED <<fsVars, lockVars, entry, heap, toAdd, th, page, closer>>

Exit ==
    /\ cpc = "exit"
    /\ cpc' = "exited"
    /\ UNCHANGED <<fsVars, lockVars, cacheVars, th, page, closer>>

\* The process is gone, or its handler waits for the read lock of the thread
\* it runs on.
Rest ==
    /\ cpc = "exited" \/ closer \in readers
    /\ UNCHANGED vars

-----------------------------------------------------------------------------
Init ==
    /\ updates = 0 /\ clock = 1
    /\ disk \in {f \in [Paths -> Inodes \cup {NULL}] :
                    /\ \A p, q \in Paths : f[p] = f[q] /\ f[p] # NULL => p = q
                    /\ \A p \in UnsafePaths : f[p] = NULL}
    /\ \E s \in [Paths -> Sizes] :
          inode = [i \in Inodes |->
             IF \E p \in Paths : disk[p] = i
             THEN [version |-> 0, mtime |-> 1, size |-> s[CHOOSE p \in Paths : disk[p] = i]]
             ELSE NoStat]
    /\ readers = {} /\ writer = NULL
    /\ entry = [p \in Paths |-> NoEntry]
    /\ live = {} /\ heap = [b \in Buffers |-> [version |-> 0, length |-> 0]]
    /\ toAdd = BootList
    /\ page = [top |-> NULL, end |-> NULL]
    /\ th = [t \in Threads |-> IF t = Main THEN Local("boot") ELSE Idle]
    /\ closer = NULL /\ cpc = "none"

BootStep ==
    \/ BootAdd \/ BootDone
    \/ LoadOpen(Main) \/ LoadFail(Main) \/ LoadRead(Main) \/ LoadSwap(Main)
    \/ \E b \in Buffers : LoadStat(Main, b)

WorkerStep(w) ==
    \/ LookupHit(w) \/ LookupMiss(w) \/ StatCurrent(w) \/ StatStale(w) \/ Upgrade(w)
    \/ LoadOpen(w) \/ LoadFail(w) \/ LoadRead(w) \/ ReloadFree(w) \/ LoadSwap(w)
    \/ \E b \in Buffers : LoadStat(w, b) \/ DiskSize(w, b)
    \/ Relock(w) \/ DiskOpen(w) \/ DiskFail(w) \/ DiskRead(w)
    \/ ErrorFormatTop(w) \/ ErrorFormatEnd(w)

\* SSL_write, which has no timeout and returns when the client has read.
SendStep(w) ==
    CacheHeader(w) \/ CacheBody(w) \/ DiskSend(w) \/ ErrorHeader(w) \/ ErrorBody(w)

DestroyStep == DestroyLock \/ DestroyFree \/ Exit

Next ==
    \/ BootStep
    \/ \E w \in Workers : WorkerStep(w) \/ SendStep(w)
    \/ DestroyStep
    \/ \E w \in Workers, p \in Paths : Get(w, p)
    \/ \E p \in Paths : Remove(p) \/ \E s \in Sizes : Publish(p, s)
    \/ \E t \in Threads : Destroy(t)
    \/ Rest

Spec == Init /\ [][Next]_vars

\* Every thread that can run is run, and a lock that is free again and again
\* is one day given to the thread that waits for it.  Clients owe nothing:
\* they ask as often as they like and may never read what they are sent.
FairSpec ==
    /\ Spec
    /\ WF_vars(BootStep) /\ SF_vars(DestroyStep)
    /\ \A w \in Workers : SF_vars(WorkerStep(w))

-----------------------------------------------------------------------------
(* Properties. *)

Positions == {"boot", "serving", "idle", "lookup", "stat", "upgrade", "open", "restat",
              "load", "free", "swap", "relock", "header", "body", "fopen", "ftell",
              "fread", "send", "format", "format2", "errheader", "errbody"}

Stats == [version : Nat, size : Nat, mtime : Nat]
LocalType == [pc : Positions, path : Paths \cup {NULL}, fh : Inodes \cup {NULL},
              buf : Buffers \cup {NULL}, st : Stats, hdr : Nat, seen : Nat]
EntryType == [content : Buffers \cup {NULL}, size : Nat, mtime : Nat]

\* Types of the cache, of the lock and of each thread's locals; only workers
\* ever hold the lock for reading.
TypeOK ==
    /\ disk \in [Paths -> Inodes \cup {NULL}] /\ inode \in [Inodes -> Stats]
    /\ clock \in Nat /\ updates \in Nat
    /\ readers \subseteq Workers /\ writer \in Threads \cup {NULL}
    /\ entry \in [Paths -> EntryType]
    /\ live \subseteq Buffers /\ heap \in [Buffers -> [version : Nat, length : Nat]]
    /\ toAdd \in Seq(Paths)
    /\ page \in [top : Codes \cup {NULL}, end : Codes \cup {NULL}]
    /\ th \in [Threads -> LocalType]
    /\ closer \in Threads \cup {NULL} /\ cpc \in {"none", "lock", "free", "exit", "exited"}

Reading == {"stat", "header", "body"}
Loading == {"open", "restat", "load", "free", "swap"}

Held == {"free", "exit", "exited"}

\* The lock is held exactly by the code that relies on it: by readers from a
\* cache hit to the last byte of the answer, exclusively by a load or by the
\* destruction, and by nobody whose request is over.
LockFollowsCode ==
    /\ readers = {w \in Workers : th[w].pc \in Reading}
    /\ \A t \in Threads : th[t].pc \in Loading => writer = t
    /\ writer # NULL => /\ readers = {}
                        /\ th[writer].pc \in Loading \/ (writer = closer /\ cpc \in Held)
    /\ cpc \in Held => writer = closer

InHand == {th[t].buf : t \in Threads} \ {NULL}
Swapping(p) == \E w \in Workers : th[w].pc = "swap" /\ th[w].path = p
Destroyed == cpc \in {"exit", "exited"}
OwnedByCache ==
    {entry[p].content : p \in {q \in Cached : ~Swapping(q) /\ ~Destroyed}}

\* The signal found a worker between the free and the swap of a hot reload.
Torn == closer \in Workers /\ th[closer].pc = "swap"

\* No freed buffer is read, sent or freed again: whoever is about to use the
\* content of an entry finds it allocated, and no two owners share a buffer.
\* What is allocated is owned: nothing leaks.  The one exception is the
\* handler that interrupts a hot reload between its free and its swap
\* (cache.c:118-119): there, and only for the entry being reloaded, the
\* destruction frees a content for the second time, and may hit a buffer that
\* another thread got at the same address.
BuffersSafe ==
    /\ ~(Torn /\ Destroyed) =>
          /\ live = OwnedByCache \cup InHand
          /\ OwnedByCache \cap InHand = {}
          /\ \A p, q \in Cached : entry[p].content = entry[q].content => p = q
    /\ \A w \in Workers : w # closer /\ th[w].pc \in Reading \cup {"free"} =>
          th[w].path \in Cached /\ entry[th[w].path].content \in OwnedByCache
    /\ cpc = "free" => \A p \in Cached :
          entry[p].content \in OwnedByCache \/ (Torn /\ p = th[closer].path)

\* The length announced for a cached file is the length of the body that
\* follows it, whatever was reloaded in between.
HeaderMatchesBody == \A w \in Workers : th[w].pc = "body" =>
    th[w].hdr = entry[th[w].path].size /\ th[w].hdr = Content(th[w].path).length

\* An answer from the cache is at least as recent as the file the request's
\* own freshness check saw, unless the reload it asked for failed.
FreshHit == \A w \in Workers :
    th[w].pc \in {"header", "body"} => Content(th[w].path).version >= th[w].seen

\* An entry the freshness check accepts is the whole file now on disk.
AcceptedIsCurrent == \A p \in Cached :
    Exists(p) /\ ~Newer(p) /\ writer = NULL =>
        Content(p).version = File(p).version /\ entry[p].size = File(p).size

\* An entry changes only when nobody reads the cache, and the content that a
\* reload frees is never more recent than the one that takes its place.
ReloadsForward ==
    [][/\ \A p \in Cached : entry'[p] # entry[p] => readers = {}
       /\ \A w \in Workers : th[w].pc = "free" /\ th'[w].pc = "swap" =>
             heap[th[w].buf].version >= Content(th[w].path).version]_vars

Sending == {"header", "body", "send", "errheader", "errbody"}

\* From some moment on there is always a request that reads the cache: its
\* client does not take the answer, requests overlap without a gap, or the
\* signal handler runs on top of it.
AlwaysRead == <>[](\E w \in Workers : th[w].pc \in Reading)

\* Every GET that handle_http_route begins gets as far as its answer, unless
\* the server is stopped: the change from read to write lock and back cannot
\* block for good, except that readers who leave no gap starve the writer
\* (the lock prefers readers), however many requests the workers serve.
RequestsAnswered ==
    \/ \A w \in Workers :
          (th[w].pc # "idle") ~> (th[w].pc \in Sending \cup {"idle"} \/ closer # NULL)
    \/ AlwaysRead

\* lith_cache_destroy gets its write lock and the process ends, whichever
\* thread the handler interrupts: no request leaves a lock behind, and only
\* readers who leave no gap can keep it waiting.
DestroyEnds == ((cpc = "lock") ~> (cpc = "exited")) \/ AlwaysRead

\* A worker sends the error page it formatted, with its length.
ErrorPageOwn == \A w \in Workers : th[w].pc = "errbody" =>
    /\ page = [top |-> CodeOf(w), end |-> CodeOf(w)]
    /\ th[w].hdr = PageLength[page.end]

=============================================================================

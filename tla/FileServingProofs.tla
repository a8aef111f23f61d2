-------------------------- MODULE FileServingProofs --------------------------
(***************************************************************************)
(* Proofs about module FileServing, for any number of workers, files and   *)
(* buffers, any boot list without repetition and any behaviour of the      *)
(* publishers.                                                             *)
(***************************************************************************)
EXTENDS FileServing, TLAPS

\* What a thread's locals hold at each position: the path of the request or of
\* the file being loaded, the open file, the buffer between malloc and free or
\* swap; a page that is being sent has been formatted by somebody; and the
\* destruction runs on some thread once it has begun.
Locals ==
    /\ th[Main].pc \in {"boot", "serving", "open", "restat", "load", "swap"}
    /\ \A w \in Workers : th[w].pc \notin {"boot", "serving"}
    /\ \A t \in Threads : th[t].pc \notin {"boot", "serving", "idle"} => th[t].path \in Paths
    /\ \A t \in Threads : th[t].pc \in {"restat", "load", "ftell", "fread"} => th[t].fh \in Inodes
    /\ \A t \in Threads : th[t].pc \notin {"restat", "load", "ftell", "fread"} => th[t].fh = NULL
    /\ \A t \in Threads : th[t].buf # NULL <=> th[t].pc \in {"load", "free", "swap", "fread", "send"}
    /\ \A w \in Workers : th[w].pc \in {"errheader", "errbody"} => page.end \in Codes
    /\ closer = NULL <=> cpc = "none"

\* The initial states have the types and the locals of threads that have just started.
LEMMA InitTypes == Init => TypeOK /\ Locals
<1> SUFFICES ASSUME Init PROVE TypeOK /\ Locals
  OBVIOUS
<1> USE ServingAssumption DEF Init
<1>1. th \in [Threads -> LocalType]
  BY DEF LocalType, Positions, Stats, Local, Idle, NoStat
<1>2. inode \in [Inodes -> Stats]
  <2>1. PICK s \in [Paths -> Sizes] : inode = [i \in Inodes |->
             IF \E p \in Paths : disk[p] = i
             THEN [version |-> 0, mtime |-> 1, size |-> s[CHOOSE p \in Paths : disk[p] = i]]
             ELSE NoStat]
    OBVIOUS
  <2>2. ASSUME NEW i \in Inodes PROVE inode[i] \in Stats
    <3>1. CASE \E p \in Paths : disk[p] = i
      <4>1. (CHOOSE p \in Paths : disk[p] = i) \in Paths
        BY <3>1
      <4> QED BY <2>1, <3>1, <4>1 DEF Stats
    <3>2. CASE ~ \E p \in Paths : disk[p] = i
      BY <2>1, <3>2 DEF Stats, NoStat
    <3> QED BY <3>1, <3>2
  <2> QED BY <2>1, <2>2
<1>3. toAdd \in Seq(Paths)
  BY DEF Threads
<1>4. TypeOK
  BY <1>1, <1>2, <1>3 DEF TypeOK, EntryType, NoEntry
<1>5. Locals
  BY DEF Locals, Local, Idle, Threads
<1> QED BY <1>4, <1>5

\* The positions by name.
LEMMA AllPositions ==
    /\ "boot" \in Positions /\ "serving" \in Positions /\ "idle" \in Positions
    /\ "lookup" \in Positions /\ "stat" \in Positions /\ "upgrade" \in Positions
    /\ "open" \in Positions /\ "restat" \in Positions /\ "load" \in Positions
    /\ "free" \in Positions /\ "swap" \in Positions /\ "relock" \in Positions
    /\ "header" \in Positions /\ "body" \in Positions /\ "fopen" \in Positions
    /\ "ftell" \in Positions /\ "fread" \in Positions /\ "send" \in Positions
    /\ "format" \in Positions /\ "format2" \in Positions /\ "errheader" \in Positions
    /\ "errbody" \in Positions
  BY DEF Positions

\* Thread t goes to l with these locals, and no other thread moves.
Moved(t, l, path, fh, buf, st, hdr, seen) ==
    /\ th' \in [Threads -> LocalType]
    /\ \A u \in Threads : u # t => th'[u] = th[u]
    /\ th'[t].pc = l /\ th'[t].path = path /\ th'[t].fh = fh /\ th'[t].buf = buf
    /\ th'[t].st = st /\ th'[t].hdr = hdr /\ th'[t].seen = seen

\* The ways in which the actions change the locals of a thread.
LEMMA MovePc ==
    ASSUME th \in [Threads -> LocalType], NEW t \in Threads, NEW l \in Positions,
           th' = [th EXCEPT ![t].pc = l]
    PROVE  Moved(t, l, th[t].path, th[t].fh, th[t].buf, th[t].st, th[t].hdr, th[t].seen)
BY DEF Moved, LocalType

\* A move that opens or closes a file.
LEMMA MoveFh ==
    ASSUME th \in [Threads -> LocalType], NEW t \in Threads, NEW l \in Positions,
           NEW f \in Inodes \cup {NULL},
           th' = [th EXCEPT ![t].pc = l, ![t].fh = f]
    PROVE  Moved(t, l, th[t].path, f, th[t].buf, th[t].st, th[t].hdr, th[t].seen)
BY DEF Moved, LocalType

\* A move that announces a length.
LEMMA MoveHdr ==
    ASSUME th \in [Threads -> LocalType], NEW t \in Threads, NEW l \in Positions,
           NEW n \in Nat,
           th' = [th EXCEPT ![t].pc = l, ![t].hdr = n]
    PROVE  Moved(t, l, th[t].path, th[t].fh, th[t].buf, th[t].st, n, th[t].seen)
BY DEF Moved, LocalType

\* A move that notes the version seen on disk.
LEMMA MoveSeen ==
    ASSUME th \in [Threads -> LocalType], NEW t \in Threads, NEW l \in Positions,
           NEW n \in Nat,
           th' = [th EXCEPT ![t].pc = l, ![t].seen = n]
    PROVE  Moved(t, l, th[t].path, th[t].fh, th[t].buf, th[t].st, th[t].hdr, n)
BY DEF Moved, LocalType

\* A move to another path.
LEMMA MovePath ==
    ASSUME th \in [Threads -> LocalType], NEW t \in Threads, NEW l \in Positions,
           NEW p \in Paths,
           th' = [th EXCEPT ![t].pc = l, ![t].path = p]
    PROVE  Moved(t, l, p, th[t].fh, th[t].buf, th[t].st, th[t].hdr, th[t].seen)
BY DEF Moved, LocalType

\* The same, as a request begins.
LEMMA MovePathPc ==
    ASSUME th \in [Threads -> LocalType], NEW t \in Threads, NEW l \in Positions,
           NEW p \in Paths,
           th' = [th EXCEPT ![t].path = p, ![t].pc = l]
    PROVE  Moved(t, l, p, th[t].fh, th[t].buf, th[t].st, th[t].hdr, th[t].seen)
BY DEF Moved, LocalType

\* A move that takes a buffer and a struct stat.
LEMMA MoveStat ==
    ASSUME th \in [Threads -> LocalType], NEW t \in Threads, NEW l \in Positions,
           NEW b \in Buffers, NEW s \in Stats,
           th' = [th EXCEPT ![t].pc = l, ![t].buf = b, ![t].st = s]
    PROVE  Moved(t, l, th[t].path, th[t].fh, b, s, th[t].hdr, th[t].seen)
BY DEF Moved, LocalType

\* A move that takes a buffer and announces a length.
LEMMA MoveSize ==
    ASSUME th \in [Threads -> LocalType], NEW t \in Threads, NEW l \in Positions,
           NEW b \in Buffers, NEW n \in Nat,
           th' = [th EXCEPT ![t].pc = l, ![t].buf = b, ![t].hdr = n]
    PROVE  Moved(t, l, th[t].path, th[t].fh, b, th[t].st, n, th[t].seen)
BY DEF Moved, LocalType

\* A move that starts the locals afresh.
LEMMA MoveAll ==
    ASSUME th \in [Threads -> LocalType], NEW t \in Threads, NEW r \in LocalType,
           th' = [th EXCEPT ![t] = r]
    PROVE  Moved(t, r.pc, r.path, r.fh, r.buf, r.st, r.hdr, r.seen)
BY DEF Moved, LocalType

\* A thread that starts afresh, with or without a path.
LEMMA LocalTypes ==
    ASSUME NEW l \in Positions, NEW p \in Paths, NEW n \in Nat
    PROVE  /\ Local(l) \in LocalType
           /\ [Local(l) EXCEPT !.path = p] \in LocalType
           /\ [Local(l) EXCEPT !.seen = n] \in LocalType
           /\ [[Local(l) EXCEPT !.path = p] EXCEPT !.seen = n] \in LocalType
<1>1. NoStat \in Stats
  BY DEF NoStat, Stats
<1> QED BY <1>1 DEF Local, LocalType

\* What each action does to the locals of the thread that takes it.
LEMMA LoadOpenMoves ==
    ASSUME TypeOK, Locals, NEW t \in Threads, LoadOpen(t)
    PROVE  /\ th[t].pc = "open" /\ th[t].path \in Paths
           /\ disk[th[t].path] \in Inodes
           /\ Moved(t, "restat", th[t].path, disk[th[t].path], th[t].buf, th[t].st, th[t].hdr,
                    th[t].seen)
           /\ UNCHANGED <<fsVars, lockVars, cacheVars, restVars>>
<1>1. th[t].pc = "open" /\ th \in [Threads -> LocalType]
  BY DEF LoadOpen, At, TypeOK, Threads
<1>2. th' = [th EXCEPT ![t].pc = "restat", ![t].fh = disk[th[t].path]]
  BY DEF LoadOpen
<1>3. th[t].path \in Paths
  BY <1>1 DEF Locals, Threads
<1>4. disk[th[t].path] \in Inodes
  BY <1>3 DEF TypeOK, LoadOpen, Exists
<1>5. Moved(t, "restat", th[t].path, disk[th[t].path], th[t].buf, th[t].st, th[t].hdr, th[t].seen)
  BY <1>1, <1>2, <1>4, MoveFh, AllPositions
<1> QED BY <1>1, <1>3, <1>4, <1>5 DEF LoadOpen

\* stat and malloc of a load.
LEMMA LoadStatMoves ==
    ASSUME TypeOK, Locals, NEW t \in Threads, NEW b \in Buffers, LoadStat(t, b)
    PROVE  /\ th[t].pc = "restat" /\ th[t].path \in Paths
           /\ disk[th[t].path] \in Inodes /\ File(th[t].path) \in Stats
           /\ Moved(t, "load", th[t].path, th[t].fh, b, File(th[t].path), th[t].hdr, th[t].seen)
           /\ b \notin live /\ live' = live \cup {b}
           /\ UNCHANGED <<fsVars, lockVars, entry, heap, toAdd, restVars>>
<1>1. th[t].pc = "restat" /\ th \in [Threads -> LocalType]
  BY DEF LoadStat, At, TypeOK, Threads
<1>2. th' = [th EXCEPT ![t].pc = "load", ![t].buf = b, ![t].st = File(th[t].path)]
  BY DEF LoadStat
<1>3. th[t].path \in Paths
  BY <1>1 DEF Locals, Threads
<1>4. disk[th[t].path] \in Inodes /\ File(th[t].path) \in Stats
  BY <1>3 DEF TypeOK, LoadStat, Exists, File
<1>5. Moved(t, "load", th[t].path, th[t].fh, b, File(th[t].path), th[t].hdr, th[t].seen)
  BY <1>1, <1>2, <1>4, MoveStat, AllPositions
<1> QED BY <1>1, <1>3, <1>4, <1>5 DEF LoadStat

\* fread and fclose of a load.
LEMMA LoadReadMoves ==
    ASSUME TypeOK, Locals, NEW t \in Threads, LoadRead(t)
    PROVE  /\ th[t].pc = "load" /\ th[t].path \in Paths
           /\ Moved(t, IF t = Main THEN "swap" ELSE "free", th[t].path, NULL, th[t].buf,
                    th[t].st, th[t].hdr, th[t].seen)
           /\ UNCHANGED <<fsVars, lockVars, entry, live, toAdd, restVars>>
<1>1. th[t].pc = "load" /\ th \in [Threads -> LocalType]
  BY DEF LoadRead, At, TypeOK, Threads
<1>2. th' = [th EXCEPT ![t].pc = IF t = Main THEN "swap" ELSE "free", ![t].fh = NULL]
  BY DEF LoadRead
<1>3. th[t].path \in Paths
  BY <1>1 DEF Locals, Threads
<1>5. Moved(t, IF t = Main THEN "swap" ELSE "free", th[t].path, NULL, th[t].buf, th[t].st,
            th[t].hdr, th[t].seen)
  BY <1>1, <1>2, MoveFh, AllPositions
<1> QED BY <1>1, <1>3, <1>5 DEF LoadRead

\* What it reads into its buffer.
LEMMA LoadReadFills ==
    ASSUME TypeOK, Locals, NEW t \in Threads, LoadRead(t)
    PROVE  /\ th[t].fh \in Inodes /\ th[t].buf \in Buffers
           /\ heap'[th[t].buf].version = inode[th[t].fh].version
           /\ heap'[th[t].buf].length = MinOf(th[t].st.size, inode[th[t].fh].size)
           /\ \A b \in Buffers : b # th[t].buf => heap'[b] = heap[b]
<1>1. th[t].pc = "load" /\ t \in Threads
  BY DEF LoadRead, At, Threads
<1>2. th[t].fh \in Inodes /\ th[t].buf \in Buffers
  BY <1>1 DEF Locals, TypeOK, LocalType
<1> QED BY <1>2 DEF LoadRead, TypeOK

\* The free of a reload.
LEMMA ReloadFreeMoves ==
    ASSUME TypeOK, Locals, NEW w \in Workers, ReloadFree(w)
    PROVE  /\ th[w].pc = "free" /\ w \in Threads /\ th[w].path \in Paths
           /\ Moved(w, "swap", th[w].path, th[w].fh, th[w].buf, th[w].st, th[w].hdr, th[w].seen)
           /\ live' = live \ {entry[th[w].path].content}
           /\ UNCHANGED <<fsVars, lockVars, entry, heap, toAdd, restVars>>
<1>1. th[w].pc = "free" /\ th \in [Threads -> LocalType] /\ w \in Threads
  BY DEF ReloadFree, At, TypeOK, Threads
<1>2. th' = [th EXCEPT ![w].pc = "swap"]
  BY DEF ReloadFree
<1>3. th[w].path \in Paths
  BY <1>1 DEF Locals, Threads
<1>5. Moved(w, "swap", th[w].path, th[w].fh, th[w].buf, th[w].st, th[w].hdr, th[w].seen)
  BY <1>1, <1>2, MovePc, AllPositions
<1> QED BY <1>1, <1>3, <1>5 DEF ReloadFree

\* A hit, with the read lock kept.
LEMMA LookupHitMoves ==
    ASSUME TypeOK, Locals, NEW w \in Workers, LookupHit(w)
    PROVE  /\ th[w].pc = "lookup" /\ w \in Threads /\ th[w].path \in Paths
           /\ Moved(w, "stat", th[w].path, th[w].fh, th[w].buf, th[w].st, th[w].hdr, th[w].seen)
           /\ th[w].path \in Cached /\ RdLock(w) /\ UNCHANGED <<fsVars, cacheVars, restVars>>
<1>1. th[w].pc = "lookup" /\ th \in [Threads -> LocalType] /\ w \in Threads
  BY DEF LookupHit, At, TypeOK, Threads
<1>2. th' = [th EXCEPT ![w].pc = "stat"]
  BY DEF LookupHit
<1>3. th[w].path \in Paths
  BY <1>1 DEF Locals, Threads
<1>5. Moved(w, "stat", th[w].path, th[w].fh, th[w].buf, th[w].st, th[w].hdr, th[w].seen)
  BY <1>1, <1>2, MovePc, AllPositions
<1> QED BY <1>1, <1>3, <1>5 DEF LookupHit

\* A miss, on to the disk.
LEMMA LookupMissMoves ==
    ASSUME TypeOK, Locals, NEW w \in Workers, LookupMiss(w)
    PROVE  /\ th[w].pc = "lookup" /\ w \in Threads /\ th[w].path \in Paths
           /\ Moved(w, "fopen", th[w].path, th[w].fh, th[w].buf, th[w].st, th[w].hdr, th[w].seen)
           /\ UNCHANGED <<fsVars, lockVars, cacheVars, restVars>>
<1>1. th[w].pc = "lookup" /\ th \in [Threads -> LocalType] /\ w \in Threads
  BY DEF LookupMiss, At, TypeOK, Threads
<1>2. th' = [th EXCEPT ![w].pc = "fopen"]
  BY DEF LookupMiss
<1>3. th[w].path \in Paths
  BY <1>1 DEF Locals, Threads
<1>5. Moved(w, "fopen", th[w].path, th[w].fh, th[w].buf, th[w].st, th[w].hdr, th[w].seen)
  BY <1>1, <1>2, MovePc, AllPositions
<1> QED BY <1>1, <1>3, <1>5 DEF LookupMiss

\* The write lock of a reload.
LEMMA UpgradeMoves ==
    ASSUME TypeOK, Locals, NEW w \in Workers, Upgrade(w)
    PROVE  /\ th[w].pc = "upgrade" /\ w \in Threads /\ th[w].path \in Paths
           /\ Moved(w, "open", th[w].path, th[w].fh, th[w].buf, th[w].st, th[w].hdr, th[w].seen)
           /\ WrLock(w) /\ UNCHANGED <<fsVars, cacheVars, restVars>>
<1>1. th[w].pc = "upgrade" /\ th \in [Threads -> LocalType] /\ w \in Threads
  BY DEF Upgrade, At, TypeOK, Threads
<1>2. th' = [th EXCEPT ![w].pc = "open"]
  BY DEF Upgrade
<1>3. th[w].path \in Paths
  BY <1>1 DEF Locals, Threads
<1>5. Moved(w, "open", th[w].path, th[w].fh, th[w].buf, th[w].st, th[w].hdr, th[w].seen)
  BY <1>1, <1>2, MovePc, AllPositions
<1> QED BY <1>1, <1>3, <1>5 DEF Upgrade

\* The read lock after a reload.
LEMMA RelockMoves ==
    ASSUME TypeOK, Locals, NEW w \in Workers, Relock(w)
    PROVE  /\ th[w].pc = "relock" /\ w \in Threads /\ th[w].path \in Paths
           /\ Moved(w, "header", th[w].path, th[w].fh, th[w].buf, th[w].st, th[w].hdr, th[w].seen)
           /\ RdLock(w) /\ UNCHANGED <<fsVars, cacheVars, restVars>>
<1>1. th[w].pc = "relock" /\ th \in [Threads -> LocalType] /\ w \in Threads
  BY DEF Relock, At, TypeOK, Threads
<1>2. th' = [th EXCEPT ![w].pc = "header"]
  BY DEF Relock
<1>3. th[w].path \in Paths
  BY <1>1 DEF Locals, Threads
<1>5. Moved(w, "header", th[w].path, th[w].fh, th[w].buf, th[w].st, th[w].hdr, th[w].seen)
  BY <1>1, <1>2, MovePc, AllPositions
<1> QED BY <1>1, <1>3, <1>5 DEF Relock

\* A freshness check that accepts the entry.
LEMMA StatCurrentMoves ==
    ASSUME TypeOK, Locals, NEW w \in Workers, StatCurrent(w)
    PROVE  /\ th[w].pc = "stat" /\ w \in Threads /\ th[w].path \in Paths
           /\ (IF Exists(th[w].path) THEN File(th[w].path).version ELSE 0) \in Nat
           /\ Moved(w, "header", th[w].path, th[w].fh, th[w].buf, th[w].st, th[w].hdr,
                    IF Exists(th[w].path) THEN File(th[w].path).version ELSE 0)
           /\ ~Newer(th[w].path) /\ UNCHANGED <<fsVars, lockVars, cacheVars, restVars>>
<1>1. th[w].pc = "stat" /\ th \in [Threads -> LocalType] /\ w \in Threads
  BY DEF StatCurrent, At, TypeOK, Threads
<1>2. th' = [th EXCEPT ![w].pc = "header",
                       ![w].seen = IF Exists(th[w].path) THEN File(th[w].path).version ELSE 0]
  BY DEF StatCurrent
<1>3. th[w].path \in Paths
  BY <1>1 DEF Locals, Threads
<1>4. (IF Exists(th[w].path) THEN File(th[w].path).version ELSE 0) \in Nat
  BY <1>3 DEF TypeOK, Exists, File, Stats
<1>5. Moved(w, "header", th[w].path, th[w].fh, th[w].buf, th[w].st, th[w].hdr,
            IF Exists(th[w].path) THEN File(th[w].path).version ELSE 0)
  BY <1>1, <1>2, <1>4, MoveSeen, AllPositions
<1> QED BY <1>1, <1>3, <1>4, <1>5 DEF StatCurrent

\* A freshness check that finds a newer file and gives up the read lock.
LEMMA StatStaleMoves ==
    ASSUME TypeOK, Locals, NEW w \in Workers, StatStale(w)
    PROVE  /\ th[w].pc = "stat" /\ w \in Threads /\ th[w].path \in Paths
           /\ disk[th[w].path] \in Inodes /\ File(th[w].path).version \in Nat
           /\ Moved(w, "upgrade", th[w].path, th[w].fh, th[w].buf, th[w].st, th[w].hdr,
                    File(th[w].path).version)
           /\ Newer(th[w].path) /\ RdUnlock(w) /\ UNCHANGED <<fsVars, cacheVars, restVars>>
<1>1. th[w].pc = "stat" /\ th \in [Threads -> LocalType] /\ w \in Threads
  BY DEF StatStale, At, TypeOK, Threads
<1>2. th' = [th EXCEPT ![w].pc = "upgrade", ![w].seen = File(th[w].path).version]
  BY DEF StatStale
<1>3. th[w].path \in Paths
  BY <1>1 DEF Locals, Threads
<1>4. disk[th[w].path] \in Inodes /\ File(th[w].path).version \in Nat
  BY <1>3 DEF TypeOK, StatStale, Newer, Exists, File, Stats
<1>5. Moved(w, "upgrade", th[w].path, th[w].fh, th[w].buf, th[w].st, th[w].hdr,
            File(th[w].path).version)
  BY <1>1, <1>2, <1>4, MoveSeen, AllPositions
<1> QED BY <1>1, <1>3, <1>4, <1>5 DEF StatStale

\* The header of an answer from the cache.
LEMMA CacheHeaderMoves ==
    ASSUME TypeOK, Locals, NEW w \in Workers, CacheHeader(w)
    PROVE  /\ th[w].pc = "header" /\ w \in Threads /\ th[w].path \in Paths
           /\ entry[th[w].path].size \in Nat
           /\ Moved(w, "body", th[w].path, th[w].fh, th[w].buf, th[w].st,
                    entry[th[w].path].size, th[w].seen)
           /\ UNCHANGED <<fsVars, lockVars, cacheVars, restVars>>
<1>1. th[w].pc = "header" /\ th \in [Threads -> LocalType] /\ w \in Threads
  BY DEF CacheHeader, At, TypeOK, Threads
<1>2. th' = [th EXCEPT ![w].pc = "body", ![w].hdr = entry[th[w].path].size]
  BY DEF CacheHeader
<1>3. th[w].path \in Paths
  BY <1>1 DEF Locals, Threads
<1>4. entry[th[w].path].size \in Nat
  BY <1>3 DEF TypeOK, EntryType
<1>5. Moved(w, "body", th[w].path, th[w].fh, th[w].buf, th[w].st, entry[th[w].path].size,
            th[w].seen)
  BY <1>1, <1>2, <1>4, MoveHdr, AllPositions
<1> QED BY <1>1, <1>3, <1>4, <1>5 DEF CacheHeader

\* fopen of read_file.
LEMMA DiskOpenMoves ==
    ASSUME TypeOK, Locals, NEW w \in Workers, DiskOpen(w)
    PROVE  /\ th[w].pc = "fopen" /\ w \in Threads /\ th[w].path \in Paths
           /\ disk[th[w].path] \in Inodes
           /\ Moved(w, "ftell", th[w].path, disk[th[w].path], th[w].buf, th[w].st, th[w].hdr,
                    th[w].seen)
           /\ UNCHANGED <<fsVars, lockVars, cacheVars, restVars>>
<1>1. th[w].pc = "fopen" /\ th \in [Threads -> LocalType] /\ w \in Threads
  BY DEF DiskOpen, At, TypeOK, Threads
<1>2. th' = [th EXCEPT ![w].pc = "ftell", ![w].fh = disk[th[w].path]]
  BY DEF DiskOpen
<1>3. th[w].path \in Paths
  BY <1>1 DEF Locals, Threads
<1>4. disk[th[w].path] \in Inodes
  BY <1>3 DEF TypeOK, DiskOpen, Exists
<1>5. Moved(w, "ftell", th[w].path, disk[th[w].path], th[w].buf, th[w].st, th[w].hdr, th[w].seen)
  BY <1>1, <1>2, <1>4, MoveFh, AllPositions
<1> QED BY <1>1, <1>3, <1>4, <1>5 DEF DiskOpen

\* ftell and malloc of read_file.
LEMMA DiskSizeMoves ==
    ASSUME TypeOK, Locals, NEW w \in Workers, NEW b \in Buffers, DiskSize(w, b)
    PROVE  /\ th[w].pc = "ftell" /\ w \in Threads /\ th[w].path \in Paths
           /\ inode[th[w].fh].size \in Nat
           /\ Moved(w, "fread", th[w].path, th[w].fh, b, th[w].st, inode[th[w].fh].size,
                    th[w].seen)
           /\ b \notin live /\ live' = live \cup {b}
           /\ UNCHANGED <<fsVars, lockVars, entry, heap, toAdd, restVars>>
<1>1. th[w].pc = "ftell" /\ th \in [Threads -> LocalType] /\ w \in Threads
  BY DEF DiskSize, At, TypeOK, Threads
<1>2. th' = [th EXCEPT ![w].pc = "fread", ![w].buf = b, ![w].hdr = inode[th[w].fh].size]
  BY DEF DiskSize
<1>3. th[w].path \in Paths
  BY <1>1 DEF Locals, Threads
<1>4. inode[th[w].fh].size \in Nat
  BY <1>1 DEF Locals, TypeOK, Stats, Threads
<1>5. Moved(w, "fread", th[w].path, th[w].fh, b, th[w].st, inode[th[w].fh].size, th[w].seen)
  BY <1>1, <1>2, <1>4, MoveSize, AllPositions
<1> QED BY <1>1, <1>3, <1>4, <1>5 DEF DiskSize

\* read_file fails, on to the error page.
LEMMA DiskFailMoves ==
    ASSUME TypeOK, Locals, NEW w \in Workers, DiskFail(w)
    PROVE  /\ th[w].pc \in {"fopen", "ftell"} /\ w \in Threads /\ th[w].path \in Paths
           /\ Moved(w, "format", th[w].path, NULL, th[w].buf, th[w].st, th[w].hdr, th[w].seen)
           /\ UNCHANGED <<fsVars, lockVars, cacheVars, restVars>>
<1>1. th[w].pc \in {"fopen", "ftell"} /\ th \in [Threads -> LocalType] /\ w \in Threads
  BY DEF DiskFail, At, TypeOK, Threads
<1>2. th' = [th EXCEPT ![w].pc = "format", ![w].fh = NULL]
  BY DEF DiskFail
<1>3. th[w].path \in Paths
  BY <1>1 DEF Locals, Threads
<1>5. Moved(w, "format", th[w].path, NULL, th[w].buf, th[w].st, th[w].hdr, th[w].seen)
  BY <1>1, <1>2, MoveFh, AllPositions
<1> QED BY <1>1, <1>3, <1>5 DEF DiskFail

\* fread and fclose of read_file.
LEMMA DiskReadMoves ==
    ASSUME TypeOK, Locals, NEW w \in Workers, DiskRead(w)
    PROVE  /\ th[w].pc = "fread" /\ w \in Threads /\ th[w].path \in Paths
           /\ Moved(w, "send", th[w].path, NULL, th[w].buf, th[w].st, th[w].hdr, th[w].seen)
           /\ UNCHANGED <<fsVars, lockVars, entry, live, toAdd, restVars>>
<1>1. th[w].pc = "fread" /\ th \in [Threads -> LocalType] /\ w \in Threads
  BY DEF DiskRead, At, TypeOK, Threads
<1>2. th' = [th EXCEPT ![w].pc = "send", ![w].fh = NULL]
  BY DEF DiskRead
<1>3. th[w].path \in Paths
  BY <1>1 DEF Locals, Threads
<1>5. Moved(w, "send", th[w].path, NULL, th[w].buf, th[w].st, th[w].hdr, th[w].seen)
  BY <1>1, <1>2, MoveFh, AllPositions
<1> QED BY <1>1, <1>3, <1>5 DEF DiskRead

\* What it reads into its buffer.
LEMMA DiskReadFills ==
    ASSUME TypeOK, Locals, NEW w \in Workers, DiskRead(w)
    PROVE  /\ th[w].fh \in Inodes /\ th[w].buf \in Buffers
           /\ heap'[th[w].buf].version = inode[th[w].fh].version
           /\ heap'[th[w].buf].length = MinOf(th[w].hdr, inode[th[w].fh].size)
           /\ \A b \in Buffers : b # th[w].buf => heap'[b] = heap[b]
<1>1. th[w].pc = "fread" /\ w \in Threads
  BY DEF DiskRead, At, Threads
<1>2. th[w].fh \in Inodes /\ th[w].buf \in Buffers
  BY <1>1 DEF Locals, TypeOK, LocalType
<1> QED BY <1>2 DEF DiskRead, TypeOK

\* The first half of the error page is formatted.
LEMMA ErrorFormatTopMoves ==
    ASSUME TypeOK, Locals, NEW w \in Workers, ErrorFormatTop(w)
    PROVE  /\ th[w].pc = "format" /\ w \in Threads /\ th[w].path \in Paths
           /\ Moved(w, "format2", th[w].path, th[w].fh, th[w].buf, th[w].st, th[w].hdr,
                    th[w].seen)
           /\ UNCHANGED <<fsVars, lockVars, cacheVars, closer, cpc>>
<1>1. th[w].pc = "format" /\ th \in [Threads -> LocalType] /\ w \in Threads
  BY DEF ErrorFormatTop, At, TypeOK, Threads
<1>2. th' = [th EXCEPT ![w].pc = "format2"]
  BY DEF ErrorFormatTop
<1>3. th[w].path \in Paths
  BY <1>1 DEF Locals, Threads
<1>5. Moved(w, "format2", th[w].path, th[w].fh, th[w].buf, th[w].st, th[w].hdr, th[w].seen)
  BY <1>1, <1>2, MovePc, AllPositions
<1> QED BY <1>1, <1>3, <1>5 DEF ErrorFormatTop

\* The second half of the error page is formatted.
LEMMA ErrorFormatEndMoves ==
    ASSUME TypeOK, Locals, NEW w \in Workers, ErrorFormatEnd(w)
    PROVE  /\ th[w].pc = "format2" /\ w \in Threads /\ th[w].path \in Paths
           /\ Moved(w, "errheader", th[w].path, th[w].fh, th[w].buf, th[w].st, th[w].hdr,
                    th[w].seen)
           /\ UNCHANGED <<fsVars, lockVars, cacheVars, closer, cpc>>
<1>1. th[w].pc = "format2" /\ th \in [Threads -> LocalType] /\ w \in Threads
  BY DEF ErrorFormatEnd, At, TypeOK, Threads
<1>2. th' = [th EXCEPT ![w].pc = "errheader"]
  BY DEF ErrorFormatEnd
<1>3. th[w].path \in Paths
  BY <1>1 DEF Locals, Threads
<1>5. Moved(w, "errheader", th[w].path, th[w].fh, th[w].buf, th[w].st, th[w].hdr, th[w].seen)
  BY <1>1, <1>2, MovePc, AllPositions
<1> QED BY <1>1, <1>3, <1>5 DEF ErrorFormatEnd

\* The header of an error page.
LEMMA ErrorHeaderMoves ==
    ASSUME TypeOK, Locals, NEW w \in Workers, ErrorHeader(w)
    PROVE  /\ th[w].pc = "errheader" /\ w \in Threads /\ th[w].path \in Paths
           /\ PageLength[page.end] \in Nat
           /\ Moved(w, "errbody", th[w].path, th[w].fh, th[w].buf, th[w].st,
                    PageLength[page.end], th[w].seen)
           /\ UNCHANGED <<fsVars, lockVars, cacheVars, restVars>>
<1>1. th[w].pc = "errheader" /\ th \in [Threads -> LocalType] /\ w \in Threads
  BY DEF ErrorHeader, At, TypeOK, Threads
<1>2. th' = [th EXCEPT ![w].pc = "errbody", ![w].hdr = PageLength[page.end]]
  BY DEF ErrorHeader
<1>3. th[w].path \in Paths
  BY <1>1 DEF Locals, Threads
<1>4. PageLength[page.end] \in Nat
  BY <1>1, ServingAssumption DEF Locals
<1>5. Moved(w, "errbody", th[w].path, th[w].fh, th[w].buf, th[w].st, PageLength[page.end],
            th[w].seen)
  BY <1>1, <1>2, <1>4, MoveHdr, AllPositions
<1> QED BY <1>1, <1>3, <1>4, <1>5 DEF ErrorHeader

\* The body of an answer from the cache ends the request and the read lock.
LEMMA CacheBodyMoves ==
    ASSUME TypeOK, Locals, NEW w \in Workers, CacheBody(w)
    PROVE  /\ th[w].pc = "body" /\ w \in Threads /\ th[w].path \in Paths
           /\ Moved(w, "idle", NULL, NULL, NULL, NoStat, 0, 0)
           /\ RdUnlock(w) /\ UNCHANGED <<fsVars, cacheVars, restVars>>
<1>1. th[w].pc = "body" /\ th \in [Threads -> LocalType] /\ w \in Threads
  BY DEF CacheBody, At, TypeOK, Threads
<1>2. th' = [th EXCEPT ![w] = Idle]
  BY DEF CacheBody
<1>3. th[w].path \in Paths
  BY <1>1 DEF Locals, Threads
<1>4. Local("idle") \in LocalType
  BY <1>3, LocalTypes, AllPositions
<1>5. Moved(w, "idle", NULL, NULL, NULL, NoStat, 0, 0)
  BY <1>1, <1>2, <1>4, MoveAll DEF Idle, Local
<1> QED BY <1>1, <1>3, <1>5 DEF CacheBody

\* The answer from read_file ends the request and frees the buffer.
LEMMA DiskSendMoves ==
    ASSUME TypeOK, Locals, NEW w \in Workers, DiskSend(w)
    PROVE  /\ th[w].pc = "send" /\ w \in Threads /\ th[w].path \in Paths
           /\ Moved(w, "idle", NULL, NULL, NULL, NoStat, 0, 0)
           /\ live' = live \ {th[w].buf}
           /\ UNCHANGED <<fsVars, lockVars, entry, heap, toAdd, restVars>>
<1>1. th[w].pc = "send" /\ th \in [Threads -> LocalType] /\ w \in Threads
  BY DEF DiskSend, At, TypeOK, Threads
<1>2. th' = [th EXCEPT ![w] = Idle]
  BY DEF DiskSend
<1>3. th[w].path \in Paths
  BY <1>1 DEF Locals, Threads
<1>4. Local("idle") \in LocalType
  BY <1>3, LocalTypes, AllPositions
<1>5. Moved(w, "idle", NULL, NULL, NULL, NoStat, 0, 0)
  BY <1>1, <1>2, <1>4, MoveAll DEF Idle, Local
<1> QED BY <1>1, <1>3, <1>5 DEF DiskSend

\* The body of an error page ends the request.
LEMMA ErrorBodyMoves ==
    ASSUME TypeOK, Locals, NEW w \in Workers, ErrorBody(w)
    PROVE  /\ th[w].pc = "errbody" /\ w \in Threads /\ th[w].path \in Paths
           /\ Moved(w, "idle", NULL, NULL, NULL, NoStat, 0, 0)
           /\ UNCHANGED <<fsVars, lockVars, cacheVars, restVars>>
<1>1. th[w].pc = "errbody" /\ th \in [Threads -> LocalType] /\ w \in Threads
  BY DEF ErrorBody, At, TypeOK, Threads
<1>2. th' = [th EXCEPT ![w] = Idle]
  BY DEF ErrorBody
<1>3. th[w].path \in Paths
  BY <1>1 DEF Locals, Threads
<1>4. Local("idle") \in LocalType
  BY <1>3, LocalTypes, AllPositions
<1>5. Moved(w, "idle", NULL, NULL, NULL, NoStat, 0, 0)
  BY <1>1, <1>2, <1>4, MoveAll DEF Idle, Local
<1> QED BY <1>1, <1>3, <1>5 DEF ErrorBody

\* The end of a load: the boot turns to the next file, a worker to its read lock.
LEMMA LoadFailMoves ==
    ASSUME TypeOK, Locals, NEW t \in Threads, LoadFail(t)
    PROVE  /\ th[t].pc \in {"open", "restat"} /\ th[t].path \in Paths
           /\ Moved(t, IF t = Main THEN "boot" ELSE "relock",
                    IF t = Main THEN NULL ELSE th[t].path,
                    NULL, NULL, NoStat, 0, 0)
           /\ WrUnlock /\ UNCHANGED <<fsVars, cacheVars, restVars>>
<1>1. th[t].pc \in {"open", "restat"} /\ th \in [Threads -> LocalType]
  BY DEF LoadFail, At, TypeOK
<1>2. th' = [th EXCEPT ![t] = AfterLoad(t)]
  BY DEF LoadFail
<1>3. th[t].path \in Paths
  BY <1>1 DEF Locals
<1>4. AfterLoad(t) \in LocalType
  BY <1>3, LocalTypes, AllPositions DEF AfterLoad
<1>6. Moved(t, IF t = Main THEN "boot" ELSE "relock", IF t = Main THEN NULL ELSE th[t].path,
            NULL, NULL, NoStat, 0, 0)
  <2>1. CASE t = Main
    BY <1>1, <1>2, <1>4, <2>1, MoveAll DEF AfterLoad, Local
  <2>2. CASE t # Main
    BY <1>1, <1>2, <1>4, <2>2, MoveAll DEF AfterLoad, Local
  <2> QED BY <2>1, <2>2
<1>7. WrUnlock /\ UNCHANGED <<fsVars, cacheVars, restVars>>
  BY DEF LoadFail
<1> QED BY <1>1, <1>3, <1>6, <1>7

\* The same after the swap, which keeps what the freshness check saw.
LEMMA LoadSwapMoves ==
    ASSUME TypeOK, Locals, NEW t \in Threads, LoadSwap(t)
    PROVE  /\ th[t].pc = "swap" /\ th[t].path \in Paths /\ th[t].buf \in Buffers
           /\ Moved(t, IF t = Main THEN "boot" ELSE "relock",
                    IF t = Main THEN NULL ELSE th[t].path,
                    NULL, NULL, NoStat, 0, th[t].seen)
           /\ WrUnlock /\ UNCHANGED <<fsVars, live, heap, toAdd, restVars>>
<1>1. th[t].pc = "swap" /\ th \in [Threads -> LocalType] /\ th[t].seen \in Nat
  BY DEF LoadSwap, At, TypeOK, LocalType
<1>2. th' = [th EXCEPT ![t] = [AfterLoad(t) EXCEPT !.seen = th[t].seen]]
  BY DEF LoadSwap
<1>3. th[t].path \in Paths /\ th[t].buf \in Buffers
  BY <1>1 DEF Locals, LocalType
<1>4. [AfterLoad(t) EXCEPT !.seen = th[t].seen] \in LocalType
  BY <1>1, <1>3, LocalTypes, AllPositions DEF AfterLoad
<1>6. Moved(t, IF t = Main THEN "boot" ELSE "relock", IF t = Main THEN NULL ELSE th[t].path,
            NULL, NULL, NoStat, 0, th[t].seen)
  <2>1. CASE t = Main
    BY <1>1, <1>2, <1>4, <2>1, MoveAll DEF AfterLoad, Local
  <2>2. CASE t # Main
    BY <1>1, <1>2, <1>4, <2>2, MoveAll DEF AfterLoad, Local
  <2> QED BY <2>1, <2>2
<1>7. WrUnlock /\ UNCHANGED <<fsVars, live, heap, toAdd, restVars>>
  BY DEF LoadSwap
<1> QED BY <1>1, <1>3, <1>6, <1>7

\* What it stores in the cache.
LEMMA LoadSwapStores ==
    ASSUME TypeOK, Locals, NEW t \in Threads, LoadSwap(t)
    PROVE  /\ entry'[th[t].path].content = th[t].buf
           /\ entry'[th[t].path].size = heap[th[t].buf].length
           /\ entry'[th[t].path].mtime = th[t].st.mtime
           /\ \A p \in Paths : p # th[t].path => entry'[p] = entry[p]
<1>1. th[t].path \in Paths
  BY LoadSwapMoves
<1> QED BY <1>1 DEF LoadSwap, TypeOK

\* The boot turns to a file, unless the cache is full.
LEMMA BootAddMoves ==
    ASSUME TypeOK, Locals, BootAdd
    PROVE  /\ th[Main].pc = "boot" /\ Main \in Threads /\ toAdd # <<>>
           /\ Head(toAdd) \in Paths /\ toAdd' = Tail(toAdd) /\ toAdd' \in Seq(Paths)
           /\ UNCHANGED <<fsVars, entry, live, heap, restVars>>
           /\ \/ UNCHANGED <<readers, writer, th>>
              \/ /\ WrLock(Main)
                 /\ Moved(Main, "open", Head(toAdd), th[Main].fh, th[Main].buf, th[Main].st,
                          th[Main].hdr, th[Main].seen)
<1>1. /\ th[Main].pc = "boot" /\ Main \in Threads /\ th \in [Threads -> LocalType]
      /\ toAdd \in Seq(Paths) /\ toAdd # <<>> /\ toAdd' = Tail(toAdd)
  BY DEF BootAdd, At, TypeOK, Threads
<1>2. Head(toAdd) \in Paths /\ toAdd' \in Seq(Paths)
  BY <1>1
<1>3. \/ UNCHANGED <<readers, writer, th>>
      \/ WrLock(Main) /\ th' = [th EXCEPT ![Main].pc = "open", ![Main].path = Head(toAdd)]
  BY DEF BootAdd, lockVars
<1>4. ASSUME th' = [th EXCEPT ![Main].pc = "open", ![Main].path = Head(toAdd)]
      PROVE  Moved(Main, "open", Head(toAdd), th[Main].fh, th[Main].buf, th[Main].st,
                   th[Main].hdr, th[Main].seen)
  BY <1>1, <1>2, <1>4, MovePath, AllPositions
<1> QED BY <1>1, <1>2, <1>3, <1>4 DEF BootAdd

\* The boot list is done.
LEMMA BootDoneMoves ==
    ASSUME TypeOK, Locals, BootDone
    PROVE  /\ th[Main].pc = "boot" /\ Main \in Threads
           /\ Moved(Main, "serving", th[Main].path, th[Main].fh, th[Main].buf, th[Main].st,
                    th[Main].hdr, th[Main].seen)
           /\ toAdd = <<>> /\ UNCHANGED <<fsVars, lockVars, cacheVars, restVars>>
<1>1. th[Main].pc = "boot" /\ Main \in Threads /\ th \in [Threads -> LocalType]
  BY DEF BootDone, At, TypeOK, Threads
<1>2. th' = [th EXCEPT ![Main].pc = "serving"]
  BY DEF BootDone
<1>3. toAdd = <<>> /\ UNCHANGED <<fsVars, lockVars, cacheVars, restVars>>
  BY DEF BootDone
<1> QED BY <1>1, <1>2, <1>3, MovePc, AllPositions

\* A request begins.
LEMMA GetMoves ==
    ASSUME TypeOK, Locals, NEW w \in Workers, NEW p \in Paths, Get(w, p)
    PROVE  /\ th[w].pc = "idle" /\ w \in Threads
           /\ \E l \in {"format", "lookup", "fopen"} :
                 Moved(w, l, p, th[w].fh, th[w].buf, th[w].st, th[w].hdr, th[w].seen)
           /\ UNCHANGED <<fsVars, lockVars, cacheVars, restVars>>
<1>1. th[w].pc = "idle" /\ w \in Threads /\ th \in [Threads -> LocalType]
  BY DEF Get, At, TypeOK, Threads
<1>2. PICK l \in {"format", "lookup", "fopen"} : th' = [th EXCEPT ![w].path = p, ![w].pc = l]
  BY DEF Get
<1>3. l \in Positions
  BY AllPositions
<1>4. Moved(w, l, p, th[w].fh, th[w].buf, th[w].st, th[w].hdr, th[w].seen)
  BY <1>1, <1>2, <1>3, MovePathPc
<1> QED BY <1>1, <1>4 DEF Get

\* Every step keeps the types.
LEMMA TypeStep == TypeOK /\ Locals /\ [Next]_vars => TypeOK'
<1> SUFFICES ASSUME TypeOK, Locals, [Next]_vars PROVE TypeOK'
  OBVIOUS
<1> USE DEF fsVars, lockVars, cacheVars, restVars, vars
<1>0. Main \in Threads /\ Workers \subseteq Threads
  BY DEF Threads
<1>1. ASSUME NEW t \in Threads, LoadOpen(t) PROVE TypeOK'
  <2>1. th' \in [Threads -> LocalType]
    BY <1>1, LoadOpenMoves DEF Moved
  <2> QED
    BY <1>0, <1>1, <2>1 DEF LoadOpen, TypeOK
<1>2. ASSUME NEW t \in Threads, LoadFail(t) PROVE TypeOK'
  <2>1. th' \in [Threads -> LocalType]
    BY <1>2, LoadFailMoves DEF Moved
  <2> QED
    BY <1>0, <1>2, <2>1 DEF LoadFail, WrUnlock, TypeOK
<1>3. ASSUME NEW t \in Threads, LoadRead(t) PROVE TypeOK'
  <2>1. th' \in [Threads -> LocalType] /\ th[t].pc = "load"
    BY <1>3, LoadReadMoves DEF Moved
  <2>2. th[t].fh \in Inodes /\ th[t].buf \in Buffers /\ th[t].st.size \in Nat
    BY <2>1 DEF TypeOK, Locals, LocalType, Stats
  <2>3. inode[th[t].fh].version \in Nat /\ MinOf(th[t].st.size, inode[th[t].fh].size) \in Nat
    BY <2>2 DEF TypeOK, Stats, MinOf
  <2>4. heap' = [heap EXCEPT ![th[t].buf] =
          [version |-> inode[th[t].fh].version, length |-> MinOf(th[t].st.size, inode[th[t].fh].size)]]
    BY <1>3 DEF LoadRead
  <2>5. heap' \in [Buffers -> [version : Nat, length : Nat]]
    BY <2>2, <2>3, <2>4 DEF TypeOK
  <2> QED
    BY <1>3, <2>1, <2>5 DEF LoadRead, TypeOK
<1>4. ASSUME NEW t \in Threads, LoadSwap(t) PROVE TypeOK'
  <2>1. th' \in [Threads -> LocalType] /\ th[t].path \in Paths /\ th[t].buf \in Buffers
    BY <1>4, LoadSwapMoves DEF Moved
  <2>2. heap[th[t].buf].length \in Nat /\ th[t].st.mtime \in Nat
    BY <2>1 DEF TypeOK, LocalType, Stats
  <2>3. entry' = [entry EXCEPT ![th[t].path] =
          [content |-> th[t].buf, size |-> heap[th[t].buf].length, mtime |-> th[t].st.mtime]]
    BY <1>4 DEF LoadSwap
  <2>4. entry' \in [Paths -> EntryType]
    BY <2>1, <2>2, <2>3 DEF TypeOK, EntryType
  <2> QED
    BY <1>4, <2>1, <2>4 DEF LoadSwap, WrUnlock, TypeOK
<1>5. ASSUME NEW t \in Threads, NEW b \in Buffers, LoadStat(t, b) PROVE TypeOK'
  <2>1. th' \in [Threads -> LocalType]
    BY <1>5, LoadStatMoves DEF Moved
  <2> QED
    BY <1>0, <1>5, <2>1 DEF LoadStat, TypeOK
<1>6. CASE BootAdd
  <2>1. th' \in [Threads -> LocalType]
    BY <1>6, BootAddMoves DEF Moved, TypeOK
  <2> QED
    BY <1>0, <1>6, <2>1 DEF BootAdd, WrLock, TypeOK
<1>7. CASE BootDone
  <2>1. th' \in [Threads -> LocalType]
    BY <1>7, BootDoneMoves DEF Moved
  <2> QED
    BY <1>0, <1>7, <2>1 DEF BootDone, TypeOK
<1>8. ASSUME NEW w \in Workers, LookupHit(w) PROVE TypeOK'
  <2>1. th' \in [Threads -> LocalType]
    BY <1>8, LookupHitMoves DEF Moved
  <2> QED
    BY <1>0, <1>8, <2>1 DEF LookupHit, RdLock, TypeOK
<1>9. ASSUME NEW w \in Workers, LookupMiss(w) PROVE TypeOK'
  <2>1. th' \in [Threads -> LocalType]
    BY <1>9, LookupMissMoves DEF Moved
  <2> QED
    BY <1>0, <1>9, <2>1 DEF LookupMiss, TypeOK
<1>10. ASSUME NEW w \in Workers, StatCurrent(w) PROVE TypeOK'
  <2>1. th' \in [Threads -> LocalType]
    BY <1>10, StatCurrentMoves DEF Moved
  <2> QED
    BY <1>0, <1>10, <2>1 DEF StatCurrent, TypeOK
<1>11. ASSUME NEW w \in Workers, StatStale(w) PROVE TypeOK'
  <2>1. th' \in [Threads -> LocalType]
    BY <1>11, StatStaleMoves DEF Moved
  <2> QED
    BY <1>0, <1>11, <2>1 DEF StatStale, RdUnlock, TypeOK
<1>12. ASSUME NEW w \in Workers, Upgrade(w) PROVE TypeOK'
  <2>1. th' \in [Threads -> LocalType]
    BY <1>12, UpgradeMoves DEF Moved
  <2> QED
    BY <1>0, <1>12, <2>1 DEF Upgrade, WrLock, TypeOK
<1>13. ASSUME NEW w \in Workers, ReloadFree(w) PROVE TypeOK'
  <2>1. th' \in [Threads -> LocalType]
    BY <1>13, ReloadFreeMoves DEF Moved
  <2> QED
    BY <1>0, <1>13, <2>1 DEF ReloadFree, TypeOK
<1>14. ASSUME NEW w \in Workers, Relock(w) PROVE TypeOK'
  <2>1. th' \in [Threads -> LocalType]
    BY <1>14, RelockMoves DEF Moved
  <2> QED
    BY <1>0, <1>14, <2>1 DEF Relock, RdLock, TypeOK
<1>15. ASSUME NEW w \in Workers, CacheHeader(w) PROVE TypeOK'
  <2>1. th' \in [Threads -> LocalType]
    BY <1>15, CacheHeaderMoves DEF Moved
  <2> QED
    BY <1>0, <1>15, <2>1 DEF CacheHeader, TypeOK
<1>16. ASSUME NEW w \in Workers, CacheBody(w) PROVE TypeOK'
  <2>1. th' \in [Threads -> LocalType]
    BY <1>16, CacheBodyMoves DEF Moved
  <2> QED
    BY <1>0, <1>16, <2>1 DEF CacheBody, RdUnlock, TypeOK
<1>17. ASSUME NEW w \in Workers, DiskOpen(w) PROVE TypeOK'
  <2>1. th' \in [Threads -> LocalType]
    BY <1>17, DiskOpenMoves DEF Moved
  <2> QED
    BY <1>0, <1>17, <2>1 DEF DiskOpen, TypeOK
<1>18. ASSUME NEW w \in Workers, DiskFail(w) PROVE TypeOK'
  <2>1. th' \in [Threads -> LocalType]
    BY <1>18, DiskFailMoves DEF Moved
  <2> QED
    BY <1>0, <1>18, <2>1 DEF DiskFail, TypeOK
<1>19. ASSUME NEW w \in Workers, DiskRead(w) PROVE TypeOK'
  <2>1. th' \in [Threads -> LocalType] /\ th[w].pc = "fread"
    BY <1>19, DiskReadMoves DEF Moved
  <2>2. th[w].fh \in Inodes /\ th[w].buf \in Buffers /\ th[w].hdr \in Nat
    BY <1>0, <2>1 DEF TypeOK, Locals, LocalType
  <2>3. inode[th[w].fh].version \in Nat /\ MinOf(th[w].hdr, inode[th[w].fh].size) \in Nat
    BY <2>2 DEF TypeOK, Stats, MinOf
  <2>4. heap' = [heap EXCEPT ![th[w].buf] =
          [version |-> inode[th[w].fh].version, length |-> MinOf(th[w].hdr, inode[th[w].fh].size)]]
    BY <1>19 DEF DiskRead
  <2>5. heap' \in [Buffers -> [version : Nat, length : Nat]]
    BY <2>2, <2>3, <2>4 DEF TypeOK
  <2> QED
    BY <1>19, <2>1, <2>5 DEF DiskRead, TypeOK
<1>20. ASSUME NEW w \in Workers, DiskSend(w) PROVE TypeOK'
  <2>1. th' \in [Threads -> LocalType]
    BY <1>20, DiskSendMoves DEF Moved
  <2> QED
    BY <1>0, <1>20, <2>1 DEF DiskSend, TypeOK
<1>21. ASSUME NEW w \in Workers, ErrorFormatTop(w) PROVE TypeOK'
  <2>1. th' \in [Threads -> LocalType]
    BY <1>21, ErrorFormatTopMoves DEF Moved
  <2>2. CodeOf(w) \in Codes
    BY ServingAssumption DEF CodeOf
  <2>3. page' \in [top : Codes \cup {NULL}, end : Codes \cup {NULL}]
    BY <1>21, <2>2 DEF ErrorFormatTop, TypeOK
  <2> QED
    BY <1>21, <2>1, <2>3 DEF ErrorFormatTop, TypeOK
<1>22. ASSUME NEW w \in Workers, ErrorFormatEnd(w) PROVE TypeOK'
  <2>1. th' \in [Threads -> LocalType]
    BY <1>22, ErrorFormatEndMoves DEF Moved
  <2>2. CodeOf(w) \in Codes
    BY ServingAssumption DEF CodeOf
  <2>3. page' \in [top : Codes \cup {NULL}, end : Codes \cup {NULL}]
    BY <1>22, <2>2 DEF ErrorFormatEnd, TypeOK
  <2> QED
    BY <1>22, <2>1, <2>3 DEF ErrorFormatEnd, TypeOK
<1>23. ASSUME NEW w \in Workers, ErrorHeader(w) PROVE TypeOK'
  <2>1. th' \in [Threads -> LocalType]
    BY <1>23, ErrorHeaderMoves DEF Moved
  <2> QED
    BY <1>0, <1>23, <2>1 DEF ErrorHeader, TypeOK
<1>24. ASSUME NEW w \in Workers, ErrorBody(w) PROVE TypeOK'
  <2>1. th' \in [Threads -> LocalType]
    BY <1>24, ErrorBodyMoves DEF Moved
  <2> QED
    BY <1>0, <1>24, <2>1 DEF ErrorBody, TypeOK
<1>25. ASSUME NEW w \in Workers, NEW b \in Buffers, DiskSize(w, b) PROVE TypeOK'
  <2>1. th' \in [Threads -> LocalType]
    BY <1>25, DiskSizeMoves DEF Moved
  <2> QED
    BY <1>0, <1>25, <2>1 DEF DiskSize, TypeOK
<1>26. ASSUME NEW w \in Workers, NEW p \in Paths, Get(w, p) PROVE TypeOK'
  <2>1. th' \in [Threads -> LocalType]
    BY <1>26, GetMoves DEF Moved
  <2> QED
    BY <1>0, <1>26, <2>1 DEF Get, TypeOK
<1>27. CASE DestroyLock
  BY <1>0, <1>27 DEF DestroyLock, WrLock, Threads, Locals, TypeOK
<1>28. CASE DestroyFree
  BY <1>0, <1>28 DEF DestroyFree, TypeOK
<1>29. CASE Exit
  BY <1>0, <1>29 DEF Exit, TypeOK
<1>30. ASSUME NEW p \in Paths, Remove(p) PROVE TypeOK'
  <2>1. disk' \in [Paths -> Inodes \cup {NULL}] /\ updates' \in Nat /\ clock' \in Nat
    BY <1>30, ServingAssumption DEF Remove, Tick, TypeOK
  <2> QED
    BY <1>30, <2>1 DEF Remove, TypeOK
<1>31. ASSUME NEW p \in Paths, NEW s \in Sizes, Publish(p, s) PROVE TypeOK'
  <2>1. updates' \in Nat /\ clock' \in Nat /\ s \in Nat
    BY <1>31, ServingAssumption DEF Publish, Tick, TypeOK
  <2>2. Written(s) \in Stats
    BY <2>1 DEF Written, Stats
  <2>3. disk' \in [Paths -> Inodes \cup {NULL}] /\ inode' \in [Inodes -> Stats]
    BY <1>31, <2>2 DEF Publish, Exists, TypeOK
  <2> QED
    BY <1>31, <2>1, <2>3 DEF Publish, TypeOK
<1>32. ASSUME NEW t \in Threads, Destroy(t) PROVE TypeOK'
  BY <1>0, <1>32 DEF Destroy, TypeOK
<1>33. CASE Rest \/ UNCHANGED vars
  BY <1>0, <1>33 DEF Rest, TypeOK
<1> QED
  BY <1>1, <1>2, <1>3, <1>4, <1>5, <1>6, <1>7, <1>8, <1>9, <1>10, <1>11, <1>12, <1>13, <1>14,
     <1>15, <1>16, <1>17, <1>18, <1>19, <1>20, <1>21, <1>22, <1>23, <1>24, <1>25, <1>26, <1>27,
     <1>28, <1>29, <1>30, <1>31, <1>32, <1>33 DEF Next, BootStep, WorkerStep, SendStep, DestroyStep,
     Threads
\* Every step keeps the locals in order.
LEMMA LocalsStep == TypeOK /\ Locals /\ [Next]_vars => Locals'
<1> SUFFICES ASSUME TypeOK, Locals, [Next]_vars PROVE Locals'
  OBVIOUS
<1> USE DEF fsVars, lockVars, cacheVars, restVars, vars
<1>0. /\ Main \in Threads /\ Workers \subseteq Threads /\ Main \notin Workers
      /\ NULL \notin Buffers /\ NULL \notin Threads
  BY ServingAssumption DEF Threads
<1>1. ASSUME NEW t \in Threads, LoadOpen(t) PROVE Locals'
  BY <1>0, <1>1, LoadOpenMoves DEF Moved, Locals
<1>2. ASSUME NEW t \in Threads, LoadFail(t) PROVE Locals'
  BY <1>0, <1>2, LoadFailMoves DEF Moved, Locals
<1>3. ASSUME NEW t \in Threads, LoadRead(t) PROVE Locals'
  BY <1>0, <1>3, LoadReadMoves DEF Moved, Locals
<1>4. ASSUME NEW t \in Threads, LoadSwap(t) PROVE Locals'
  BY <1>0, <1>4, LoadSwapMoves DEF Moved, Locals
<1>5. ASSUME NEW t \in Threads, NEW b \in Buffers, LoadStat(t, b) PROVE Locals'
  BY <1>0, <1>5, LoadStatMoves DEF Moved, Locals
<1>6. CASE BootAdd
  BY <1>0, <1>6, BootAddMoves DEF Moved, Locals
<1>7. CASE BootDone
  BY <1>0, <1>7, BootDoneMoves DEF Moved, Locals
<1>8. ASSUME NEW w \in Workers, LookupHit(w) PROVE Locals'
  BY <1>0, <1>8, LookupHitMoves DEF Moved, Locals
<1>9. ASSUME NEW w \in Workers, LookupMiss(w) PROVE Locals'
  BY <1>0, <1>9, LookupMissMoves DEF Moved, Locals
<1>10. ASSUME NEW w \in Workers, StatCurrent(w) PROVE Locals'
  BY <1>0, <1>10, StatCurrentMoves DEF Moved, Locals
<1>11. ASSUME NEW w \in Workers, StatStale(w) PROVE Locals'
  BY <1>0, <1>11, StatStaleMoves DEF Moved, Locals
<1>12. ASSUME NEW w \in Workers, Upgrade(w) PROVE Locals'
  BY <1>0, <1>12, UpgradeMoves DEF Moved, Locals
<1>13. ASSUME NEW w \in Workers, ReloadFree(w) PROVE Locals'
  BY <1>0, <1>13, ReloadFreeMoves DEF Moved, Locals
<1>14. ASSUME NEW w \in Workers, Relock(w) PROVE Locals'
  BY <1>0, <1>14, RelockMoves DEF Moved, Locals
<1>15. ASSUME NEW w \in Workers, CacheHeader(w) PROVE Locals'
  BY <1>0, <1>15, CacheHeaderMoves DEF Moved, Locals
<1>16. ASSUME NEW w \in Workers, CacheBody(w) PROVE Locals'
  BY <1>0, <1>16, CacheBodyMoves DEF Moved, Locals
<1>17. ASSUME NEW w \in Workers, DiskOpen(w) PROVE Locals'
  BY <1>0, <1>17, DiskOpenMoves DEF Moved, Locals
<1>18. ASSUME NEW w \in Workers, DiskFail(w) PROVE Locals'
  BY <1>0, <1>18, DiskFailMoves DEF Moved, Locals
<1>19. ASSUME NEW w \in Workers, DiskRead(w) PROVE Locals'
  BY <1>0, <1>19, DiskReadMoves DEF Moved, Locals
<1>20. ASSUME NEW w \in Workers, DiskSend(w) PROVE Locals'
  BY <1>0, <1>20, DiskSendMoves DEF Moved, Locals
<1>21. ASSUME NEW w \in Workers, ErrorFormatTop(w) PROVE Locals'
  <2>1. CodeOf(w) \in Codes
    BY ServingAssumption DEF CodeOf
  <2>2. page'.end = page.end
    BY <1>21, <2>1 DEF ErrorFormatTop, TypeOK
  <2> QED
    BY <1>0, <1>21, <2>2, ErrorFormatTopMoves DEF Moved, Locals
<1>22. ASSUME NEW w \in Workers, ErrorFormatEnd(w) PROVE Locals'
  <2>1. CodeOf(w) \in Codes
    BY ServingAssumption DEF CodeOf
  <2>2. page'.end \in Codes
    BY <1>22, <2>1 DEF ErrorFormatEnd, TypeOK
  <2> QED
    BY <1>0, <1>22, <2>2, ErrorFormatEndMoves DEF Moved, Locals
<1>23. ASSUME NEW w \in Workers, ErrorHeader(w) PROVE Locals'
  BY <1>0, <1>23, ErrorHeaderMoves DEF Moved, Locals
<1>24. ASSUME NEW w \in Workers, ErrorBody(w) PROVE Locals'
  BY <1>0, <1>24, ErrorBodyMoves DEF Moved, Locals
<1>25. ASSUME NEW w \in Workers, NEW b \in Buffers, DiskSize(w, b) PROVE Locals'
  BY <1>0, <1>25, DiskSizeMoves DEF Moved, Locals
<1>26. ASSUME NEW w \in Workers, NEW p \in Paths, Get(w, p) PROVE Locals'
  BY <1>0, <1>26, GetMoves DEF Moved, Locals
<1>27. CASE DestroyLock
  BY <1>0, <1>27 DEF DestroyLock, Locals
<1>28. CASE DestroyFree
  BY <1>0, <1>28 DEF DestroyFree, Locals
<1>29. CASE Exit
  BY <1>0, <1>29 DEF Exit, Locals
<1>30. ASSUME NEW p \in Paths, Remove(p) PROVE Locals'
  BY <1>0, <1>30 DEF Remove, Locals
<1>31. ASSUME NEW p \in Paths, NEW s \in Sizes, Publish(p, s) PROVE Locals'
  BY <1>0, <1>31 DEF Publish, Locals
<1>32. ASSUME NEW t \in Threads, Destroy(t) PROVE Locals'
  BY <1>0, <1>32 DEF Destroy, Locals
<1>33. CASE Rest \/ UNCHANGED vars
  BY <1>0, <1>33 DEF Rest, Locals
<1> QED
  BY <1>1, <1>2, <1>3, <1>4, <1>5, <1>6, <1>7, <1>8, <1>9, <1>10, <1>11, <1>12, <1>13, <1>14,
     <1>15, <1>16, <1>17, <1>18, <1>19, <1>20, <1>21, <1>22, <1>23, <1>24, <1>25, <1>26, <1>27,
     <1>28, <1>29, <1>30, <1>31, <1>32, <1>33 DEF Next, BootStep, WorkerStep, SendStep, DestroyStep,
     Threads

\* Every step keeps the lock with the code that relies on it.
LEMMA LockStep == TypeOK /\ Locals /\ LockFollowsCode /\ [Next]_vars => LockFollowsCode'
<1> SUFFICES ASSUME TypeOK, Locals, LockFollowsCode, [Next]_vars PROVE LockFollowsCode'
  OBVIOUS
<1> USE DEF fsVars, lockVars, cacheVars, restVars, vars
<1>0. /\ Main \in Threads /\ Workers \subseteq Threads /\ Threads = Workers \cup {Main}
      /\ Main \notin Workers /\ NULL \notin Threads /\ writer \in Threads \cup {NULL}
  BY ServingAssumption DEF Threads, TypeOK
<1>1. ASSUME NEW t \in Threads, LoadOpen(t) PROVE LockFollowsCode'
  BY <1>0, <1>1, LoadOpenMoves DEF Locals, Moved, LockFollowsCode, Held, Reading, Loading
<1>2. ASSUME NEW t \in Threads, LoadFail(t) PROVE LockFollowsCode'
  <2>1. t # closer /\ th[t].pc \in Loading
    BY <1>0, <1>2, LoadFailMoves DEF LoadFail, At, Loading
  <2> QED BY <1>0, <1>2, <2>1, LoadFailMoves DEF WrUnlock, Moved, LockFollowsCode, Held, Reading, Loading
<1>3. ASSUME NEW t \in Threads, LoadRead(t) PROVE LockFollowsCode'
  BY <1>0, <1>3, LoadReadMoves DEF Locals, Moved, LockFollowsCode, Held, Reading, Loading
<1>4. ASSUME NEW t \in Threads, LoadSwap(t) PROVE LockFollowsCode'
  <2>1. t # closer /\ th[t].pc \in Loading
    BY <1>0, <1>4, LoadSwapMoves DEF LoadSwap, At, Loading
  <2> QED BY <1>0, <1>4, <2>1, LoadSwapMoves DEF WrUnlock, Moved, LockFollowsCode, Held, Reading, Loading
<1>5. ASSUME NEW t \in Threads, NEW b \in Buffers, LoadStat(t, b) PROVE LockFollowsCode'
  BY <1>0, <1>5, LoadStatMoves DEF Locals, Moved, LockFollowsCode, Held, Reading, Loading
<1>6. CASE BootAdd
  BY <1>0, <1>6, BootAddMoves DEF WrLock, Locals, Moved, LockFollowsCode, Held, Reading, Loading
<1>7. CASE BootDone
  BY <1>0, <1>7, BootDoneMoves DEF Locals, Moved, LockFollowsCode, Held, Reading, Loading
<1>8. ASSUME NEW w \in Workers, LookupHit(w) PROVE LockFollowsCode'
  BY <1>0, <1>8, LookupHitMoves DEF RdLock, Locals, Moved, LockFollowsCode, Held, Reading, Loading
<1>9. ASSUME NEW w \in Workers, LookupMiss(w) PROVE LockFollowsCode'
  BY <1>0, <1>9, LookupMissMoves DEF Locals, Moved, LockFollowsCode, Held, Reading, Loading
<1>10. ASSUME NEW w \in Workers, StatCurrent(w) PROVE LockFollowsCode'
  BY <1>0, <1>10, StatCurrentMoves DEF Locals, Moved, LockFollowsCode, Held, Reading, Loading
<1>11. ASSUME NEW w \in Workers, StatStale(w) PROVE LockFollowsCode'
  BY <1>0, <1>11, StatStaleMoves DEF RdUnlock, Locals, Moved, LockFollowsCode, Held, Reading, Loading
<1>12. ASSUME NEW w \in Workers, Upgrade(w) PROVE LockFollowsCode'
  BY <1>0, <1>12, UpgradeMoves DEF WrLock, Locals, Moved, LockFollowsCode, Held, Reading, Loading
<1>13. ASSUME NEW w \in Workers, ReloadFree(w) PROVE LockFollowsCode'
  BY <1>0, <1>13, ReloadFreeMoves DEF Locals, Moved, LockFollowsCode, Held, Reading, Loading
<1>14. ASSUME NEW w \in Workers, Relock(w) PROVE LockFollowsCode'
  BY <1>0, <1>14, RelockMoves DEF RdLock, Locals, Moved, LockFollowsCode, Held, Reading, Loading
<1>15. ASSUME NEW w \in Workers, CacheHeader(w) PROVE LockFollowsCode'
  BY <1>0, <1>15, CacheHeaderMoves DEF Locals, Moved, LockFollowsCode, Held, Reading, Loading
<1>16. ASSUME NEW w \in Workers, CacheBody(w) PROVE LockFollowsCode'
  BY <1>0, <1>16, CacheBodyMoves DEF RdUnlock, Locals, Moved, LockFollowsCode, Held, Reading, Loading
<1>17. ASSUME NEW w \in Workers, DiskOpen(w) PROVE LockFollowsCode'
  BY <1>0, <1>17, DiskOpenMoves DEF Locals, Moved, LockFollowsCode, Held, Reading, Loading
<1>18. ASSUME NEW w \in Workers, DiskFail(w) PROVE LockFollowsCode'
  BY <1>0, <1>18, DiskFailMoves DEF Locals, Moved, LockFollowsCode, Held, Reading, Loading
<1>19. ASSUME NEW w \in Workers, DiskRead(w) PROVE LockFollowsCode'
  BY <1>0, <1>19, DiskReadMoves DEF Locals, Moved, LockFollowsCode, Held, Reading, Loading
<1>20. ASSUME NEW w \in Workers, DiskSend(w) PROVE LockFollowsCode'
  BY <1>0, <1>20, DiskSendMoves DEF Locals, Moved, LockFollowsCode, Held, Reading, Loading
<1>21. ASSUME NEW w \in Workers, ErrorFormatTop(w) PROVE LockFollowsCode'
  BY <1>0, <1>21, ErrorFormatTopMoves DEF Locals, Moved, LockFollowsCode, Held, Reading, Loading
<1>22. ASSUME NEW w \in Workers, ErrorFormatEnd(w) PROVE LockFollowsCode'
  BY <1>0, <1>22, ErrorFormatEndMoves DEF Locals, Moved, LockFollowsCode, Held, Reading, Loading
<1>23. ASSUME NEW w \in Workers, ErrorHeader(w) PROVE LockFollowsCode'
  BY <1>0, <1>23, ErrorHeaderMoves DEF Locals, Moved, LockFollowsCode, Held, Reading, Loading
<1>24. ASSUME NEW w \in Workers, ErrorBody(w) PROVE LockFollowsCode'
  BY <1>0, <1>24, ErrorBodyMoves DEF Locals, Moved, LockFollowsCode, Held, Reading, Loading
<1>25. ASSUME NEW w \in Workers, NEW b \in Buffers, DiskSize(w, b) PROVE LockFollowsCode'
  BY <1>0, <1>25, DiskSizeMoves DEF Locals, Moved, LockFollowsCode, Held, Reading, Loading
<1>26. ASSUME NEW w \in Workers, NEW p \in Paths, Get(w, p) PROVE LockFollowsCode'
  BY <1>0, <1>26, GetMoves DEF Locals, Moved, LockFollowsCode, Held, Reading, Loading
<1>27. CASE DestroyLock
  BY <1>0, <1>27 DEF DestroyLock, WrLock, Locals, TypeOK, LockFollowsCode, Held
<1>28. CASE DestroyFree
  BY <1>0, <1>28 DEF DestroyFree, LockFollowsCode, Held
<1>29. CASE Exit
  BY <1>0, <1>29 DEF Exit, LockFollowsCode, Held
<1>30. ASSUME NEW p \in Paths, Remove(p) PROVE LockFollowsCode'
  BY <1>0, <1>30 DEF Remove, LockFollowsCode
<1>31. ASSUME NEW p \in Paths, NEW s \in Sizes, Publish(p, s) PROVE LockFollowsCode'
  BY <1>0, <1>31 DEF Publish, LockFollowsCode
<1>32. ASSUME NEW t \in Threads, Destroy(t) PROVE LockFollowsCode'
  BY <1>0, <1>32 DEF Destroy, LockFollowsCode, Held, Locals
<1>33. CASE Rest \/ UNCHANGED vars
  BY <1>0, <1>33 DEF Rest, LockFollowsCode
<1> QED
  BY <1>1, <1>2, <1>3, <1>4, <1>5, <1>6, <1>7, <1>8, <1>9, <1>10, <1>11, <1>12, <1>13, <1>14,
     <1>15, <1>16, <1>17, <1>18, <1>19, <1>20, <1>21, <1>22, <1>23, <1>24, <1>25, <1>26, <1>27,
     <1>28, <1>29, <1>30, <1>31, <1>32, <1>33 DEF Next, BootStep, WorkerStep, SendStep, DestroyStep,
     Threads

\* The lock discipline holds at the start.
LEMMA InitLock == Init => LockFollowsCode
<1> SUFFICES ASSUME Init PROVE LockFollowsCode
  OBVIOUS
<1>1. th[Main].pc = "boot" /\ \A w \in Workers : th[w].pc = "idle"
  BY ServingAssumption DEF Init, Threads, Local, Idle
<1>2. NULL \notin Threads
  BY ServingAssumption
<1> QED BY <1>1, <1>2 DEF Init, LockFollowsCode, Reading, Loading, Threads

ServingInv == TypeOK /\ Locals /\ LockFollowsCode

\* Types, locals and lock together are inductive.
THEOREM ServingInvariant == Spec => []ServingInv
<1>1. Init => ServingInv
  BY InitTypes, InitLock DEF ServingInv
<1>2. ServingInv /\ [Next]_vars => ServingInv'
  BY TypeStep, LocalsStep, LockStep DEF ServingInv
<1> QED BY <1>1, <1>2, PTL DEF Spec

\* The cache, its lock and the locals of every thread keep their types.
THEOREM ServingTypeCorrect == Spec => []TypeOK
<1>1. ServingInv => TypeOK
  BY DEF ServingInv
<1> QED BY <1>1, ServingInvariant, PTL

\* The cache lock is held by exactly the code that relies on it, whatever
\* fails on the way: fopen, stat or malloc in a reload, a file removed
\* between the lookup and the answer, the shutdown in the middle of a request.
THEOREM LockIsWhereTheCodeIs == Spec => []LockFollowsCode
<1>1. ServingInv => LockFollowsCode
  BY DEF ServingInv
<1> QED BY <1>1, ServingInvariant, PTL

=============================================================================

----------------------------- MODULE CacheProofs -----------------------------
(***************************************************************************)
(* What the cache of module FileServing guarantees: buffers are owned by   *)
(* one party and freed once (unless the signal handler interrupts a hot    *)
(* reload between its free and its swap), the header announces the body,   *)
(* reloads go forward, and, when files are rewritten in place with         *)
(* increasing modification times, what is served is what the request saw   *)
(* on disk.                                                                *)
(***************************************************************************)
EXTENDS FileServingProofs

\* An entry whose content the cache owns: no reload has freed it and the
\* destruction has not reached it.
Kept(p) == p \in Cached /\ ~Swapping(p) /\ ~Destroyed

\* A step that leaves the entries and the owners of their contents alone.
KeepsEntries ==
    /\ entry' = entry /\ Cached' = Cached
    /\ \A p \in Paths : Kept(p)' <=> Kept(p)

\* Positions outside of the cache and of read_file, where a thread has neither
\* a file open nor a buffer.
Outside == {"boot", "serving", "idle", "lookup", "fopen", "format", "format2",
            "errheader", "errbody"}

\* A step of the lock, the shutdown or the answer that no file, entry or buffer
\* takes part in: who moves, moves to a position outside.
Still ==
    /\ UNCHANGED <<disk, inode, clock, updates, entry, live, heap, toAdd>>
    /\ \A u \in Threads :
          \/ th'[u] = th[u]
          \/ th[u].buf = NULL /\ th'[u].buf = NULL /\ th'[u].fh = NULL /\ th'[u].pc \in Outside

\* The steps about files that neither free nor replace the content of an entry.
FileStep ==
    \/ BootAdd
    \/ \E t \in Threads : LoadOpen(t) \/ LoadRead(t) \/ \E b \in Buffers : LoadStat(t, b)
    \/ \E w \in Workers :
          \/ LoadFail(w) \/ LookupHit(w) \/ StatCurrent(w) \/ StatStale(w) \/ Upgrade(w)
          \/ Relock(w) \/ CacheHeader(w) \/ DiskOpen(w) \/ DiskRead(w) \/ DiskSend(w)
          \/ \E b \in Buffers : DiskSize(w, b)
    \/ \E p \in Paths : Remove(p) \/ \E s \in Sizes : Publish(p, s)

\* The entries keep their contents when no reload reaches or leaves its swap.
LEMMA SameKept ==
    ASSUME entry' = entry, Destroyed' <=> Destroyed,
           \A w \in Workers : /\ th'[w].pc = "swap" <=> th[w].pc = "swap"
                              /\ th[w].pc = "swap" => th'[w].path = th[w].path
    PROVE  KeepsEntries
<1>1. Cached' = Cached
  BY DEF Cached
<1>2. \A p \in Paths : Swapping(p)' <=> Swapping(p)
  BY DEF Swapping
<1> QED BY <1>1, <1>2 DEF KeepsEntries, Kept

\* A content was freed twice: the destruction ran on a hot reload that had freed
\* the content of its entry and not yet replaced it.
Lost == Torn /\ Destroyed

\* The thread below the signal handler does not move, and the destruction is
\* not undone.
LEMMA Interrupted ==
    ASSUME TypeOK, Locals, closer # NULL, [Next]_vars
    PROVE  closer' = closer /\ th'[closer] = th[closer] /\ (Destroyed => Destroyed')
<1> USE DEF fsVars, lockVars, cacheVars, restVars, vars
<1>0. closer \in Threads /\ cpc # "none" /\ th \in [Threads -> LocalType]
  BY DEF TypeOK, Locals
<1>2. ASSUME UNCHANGED <<closer, th>>, Destroyed => Destroyed'
      PROVE  closer' = closer /\ th'[closer] = th[closer] /\ (Destroyed => Destroyed')
  BY <1>2
<1>3. CASE BootStep
  <2>1. Main # closer
    BY <1>3 DEF BootStep, BootAdd, BootDone, LoadOpen, LoadFail, LoadRead, LoadSwap, LoadStat, At
  <2> QED BY <1>0, <1>3, <2>1 DEF BootStep, BootAdd, BootDone, LoadOpen, LoadFail, LoadRead,
          LoadSwap, LoadStat, Destroyed
<1>4. ASSUME NEW w \in Workers, WorkerStep(w)
      PROVE  closer' = closer /\ th'[closer] = th[closer] /\ (Destroyed => Destroyed')
  <2>1. CASE LookupHit(w) \/ LookupMiss(w) \/ StatCurrent(w) \/ StatStale(w) \/ Upgrade(w)
    BY <1>0, <2>1 DEF LookupHit, LookupMiss, StatCurrent, StatStale, Upgrade, At, Destroyed
  <2>2. CASE LoadOpen(w) \/ LoadFail(w) \/ LoadRead(w) \/ ReloadFree(w) \/ LoadSwap(w)
    BY <1>0, <2>2 DEF LoadOpen, LoadFail, LoadRead, ReloadFree, LoadSwap, At, Destroyed
  <2>3. ASSUME NEW b \in Buffers, LoadStat(w, b) \/ DiskSize(w, b)
        PROVE  closer' = closer /\ th'[closer] = th[closer] /\ (Destroyed => Destroyed')
    BY <1>0, <2>3 DEF LoadStat, DiskSize, At, Destroyed
  <2>4. CASE Relock(w) \/ DiskOpen(w) \/ DiskFail(w) \/ DiskRead(w)
    BY <1>0, <2>4 DEF Relock, DiskOpen, DiskFail, DiskRead, At, Destroyed
  <2>5. CASE ErrorFormatTop(w) \/ ErrorFormatEnd(w)
    BY <1>0, <2>5 DEF ErrorFormatTop, ErrorFormatEnd, At, Destroyed
  <2> QED BY <1>4, <2>1, <2>2, <2>3, <2>4, <2>5 DEF WorkerStep
<1>5. ASSUME NEW w \in Workers, SendStep(w)
      PROVE  closer' = closer /\ th'[closer] = th[closer] /\ (Destroyed => Destroyed')
  BY <1>0, <1>5 DEF SendStep, CacheHeader, CacheBody, DiskSend, ErrorHeader, ErrorBody, At,
     Destroyed
<1>6. CASE DestroyStep
  BY <1>2, <1>6 DEF DestroyStep, DestroyLock, DestroyFree, Exit, Destroyed
<1>7. ASSUME NEW w \in Workers, NEW p \in Paths, Get(w, p)
      PROVE  closer' = closer /\ th'[closer] = th[closer] /\ (Destroyed => Destroyed')
  BY <1>0, <1>7 DEF Get, At, Destroyed
<1>8. ASSUME NEW p \in Paths, Remove(p) \/ \E s \in Sizes : Publish(p, s)
      PROVE  closer' = closer /\ th'[closer] = th[closer] /\ (Destroyed => Destroyed')
  BY <1>2, <1>8 DEF Remove, Publish, Destroyed
<1>9. ASSUME NEW t \in Threads, Destroy(t) PROVE FALSE
  BY <1>9 DEF Destroy
<1>10. CASE Rest \/ UNCHANGED vars
  BY <1>2, <1>10 DEF Rest, Destroyed
<1> QED BY <1>3, <1>4, <1>5, <1>6, <1>7, <1>8, <1>9, <1>10 DEF Next

\* Every step is one of these, or frees the content of an entry or replaces it.
LEMMA StepKinds ==
    ASSUME TypeOK, Locals, [Next]_vars
    PROVE  \/ KeepsEntries /\ (Still \/ FileStep)
           \/ \E w \in Workers : ReloadFree(w)
           \/ \E t \in Threads : LoadSwap(t)
           \/ DestroyFree
<1> USE DEF fsVars, lockVars, cacheVars, restVars, vars
<1>0. Main \in Threads /\ Workers \subseteq Threads /\ Main \notin Workers
  BY ServingAssumption DEF Threads
<1>1. ASSUME NEW t \in Threads, LoadOpen(t) PROVE KeepsEntries /\ (Still \/ FileStep)
  BY <1>0, <1>1, LoadOpenMoves, SameKept DEF Moved, Destroyed, FileStep
<1>2. ASSUME NEW w \in Workers, LoadFail(w) PROVE KeepsEntries /\ (Still \/ FileStep)
  BY <1>0, <1>2, LoadFailMoves, SameKept DEF Moved, Destroyed, FileStep
<1>3. CASE LoadFail(Main)
  <2>1. Still
    BY <1>0, <1>3, LoadFailMoves DEF Moved, Locals, Still, Outside
  <2>2. KeepsEntries
    BY <1>0, <1>3, LoadFailMoves, SameKept DEF Moved, Destroyed
  <2> QED BY <2>1, <2>2
<1>4. ASSUME NEW t \in Threads, LoadRead(t) PROVE KeepsEntries /\ (Still \/ FileStep)
  BY <1>0, <1>4, LoadReadMoves, SameKept DEF Moved, Destroyed, FileStep
<1>5. ASSUME NEW t \in Threads, NEW b \in Buffers, LoadStat(t, b)
      PROVE  KeepsEntries /\ (Still \/ FileStep)
  BY <1>0, <1>5, LoadStatMoves, SameKept DEF Moved, Destroyed, FileStep
<1>6. CASE BootAdd
  BY <1>0, <1>6, BootAddMoves, SameKept DEF Moved, Destroyed, FileStep
<1>7. CASE BootDone
  <2>1. Still
    BY <1>0, <1>7, BootDoneMoves DEF Moved, Locals, Still, Outside
  <2>2. KeepsEntries
    BY <1>0, <1>7, BootDoneMoves, SameKept DEF Moved, Destroyed
  <2> QED BY <2>1, <2>2
<1>8. ASSUME NEW w \in Workers, LookupHit(w) PROVE KeepsEntries /\ (Still \/ FileStep)
  BY <1>0, <1>8, LookupHitMoves, SameKept DEF Moved, Destroyed, FileStep
<1>9. ASSUME NEW w \in Workers, LookupMiss(w) PROVE KeepsEntries /\ (Still \/ FileStep)
  <2>1. Still
    BY <1>0, <1>9, LookupMissMoves DEF Moved, Locals, Still, Outside
  <2>2. KeepsEntries
    BY <1>0, <1>9, LookupMissMoves, SameKept DEF Moved, Destroyed
  <2> QED BY <2>1, <2>2
<1>10. ASSUME NEW w \in Workers, StatCurrent(w) PROVE KeepsEntries /\ (Still \/ FileStep)
  BY <1>0, <1>10, StatCurrentMoves, SameKept DEF Moved, Destroyed, FileStep
<1>11. ASSUME NEW w \in Workers, StatStale(w) PROVE KeepsEntries /\ (Still \/ FileStep)
  BY <1>0, <1>11, StatStaleMoves, SameKept DEF Moved, Destroyed, FileStep
<1>12. ASSUME NEW w \in Workers, Upgrade(w) PROVE KeepsEntries /\ (Still \/ FileStep)
  BY <1>0, <1>12, UpgradeMoves, SameKept DEF Moved, Destroyed, FileStep
<1>13. ASSUME NEW w \in Workers, Relock(w) PROVE KeepsEntries /\ (Still \/ FileStep)
  BY <1>0, <1>13, RelockMoves, SameKept DEF Moved, Destroyed, FileStep
<1>14. ASSUME NEW w \in Workers, CacheHeader(w) PROVE KeepsEntries /\ (Still \/ FileStep)
  BY <1>0, <1>14, CacheHeaderMoves, SameKept DEF Moved, Destroyed, FileStep
<1>15. ASSUME NEW w \in Workers, CacheBody(w) PROVE KeepsEntries /\ (Still \/ FileStep)
  <2>1. Still
    BY <1>0, <1>15, CacheBodyMoves DEF Moved, Locals, Still, Outside
  <2>2. KeepsEntries
    BY <1>0, <1>15, CacheBodyMoves, SameKept DEF Moved, Destroyed
  <2> QED BY <2>1, <2>2
<1>16. ASSUME NEW w \in Workers, DiskOpen(w) PROVE KeepsEntries /\ (Still \/ FileStep)
  BY <1>0, <1>16, DiskOpenMoves, SameKept DEF Moved, Destroyed, FileStep
<1>17. ASSUME NEW w \in Workers, DiskFail(w) PROVE KeepsEntries /\ (Still \/ FileStep)
  <2>1. Still
    BY <1>0, <1>17, DiskFailMoves DEF Moved, Locals, Still, Outside
  <2>2. KeepsEntries
    BY <1>0, <1>17, DiskFailMoves, SameKept DEF Moved, Destroyed
  <2> QED BY <2>1, <2>2
<1>18. ASSUME NEW w \in Workers, DiskRead(w) PROVE KeepsEntries /\ (Still \/ FileStep)
  BY <1>0, <1>18, DiskReadMoves, SameKept DEF Moved, Destroyed, FileStep
<1>19. ASSUME NEW w \in Workers, DiskSend(w) PROVE KeepsEntries /\ (Still \/ FileStep)
  BY <1>0, <1>19, DiskSendMoves, SameKept DEF Moved, Destroyed, FileStep
<1>20. ASSUME NEW w \in Workers, ErrorFormatTop(w) PROVE KeepsEntries /\ (Still \/ FileStep)
  <2>1. Still
    BY <1>0, <1>20, ErrorFormatTopMoves DEF Moved, Locals, Still, Outside
  <2>2. KeepsEntries
    BY <1>0, <1>20, ErrorFormatTopMoves, SameKept DEF Moved, Destroyed
  <2> QED BY <2>1, <2>2
<1>21. ASSUME NEW w \in Workers, ErrorFormatEnd(w) PROVE KeepsEntries /\ (Still \/ FileStep)
  <2>1. Still
    BY <1>0, <1>21, ErrorFormatEndMoves DEF Moved, Locals, Still, Outside
  <2>2. KeepsEntries
    BY <1>0, <1>21, ErrorFormatEndMoves, SameKept DEF Moved, Destroyed
  <2> QED BY <2>1, <2>2
<1>22. ASSUME NEW w \in Workers, ErrorHeader(w) PROVE KeepsEntries /\ (Still \/ FileStep)
  <2>1. Still
    BY <1>0, <1>22, ErrorHeaderMoves DEF Moved, Locals, Still, Outside
  <2>2. KeepsEntries
    BY <1>0, <1>22, ErrorHeaderMoves, SameKept DEF Moved, Destroyed
  <2> QED BY <2>1, <2>2
<1>23. ASSUME NEW w \in Workers, ErrorBody(w) PROVE KeepsEntries /\ (Still \/ FileStep)
  <2>1. Still
    BY <1>0, <1>23, ErrorBodyMoves DEF Moved, Locals, Still, Outside
  <2>2. KeepsEntries
    BY <1>0, <1>23, ErrorBodyMoves, SameKept DEF Moved, Destroyed
  <2> QED BY <2>1, <2>2
<1>24. ASSUME NEW w \in Workers, NEW b \in Buffers, DiskSize(w, b)
       PROVE  KeepsEntries /\ (Still \/ FileStep)
  BY <1>0, <1>24, DiskSizeMoves, SameKept DEF Moved, Destroyed, FileStep
<1>25. ASSUME NEW w \in Workers, NEW p \in Paths, Get(w, p)
       PROVE  KeepsEntries /\ (Still \/ FileStep)
  <2>1. Still
    BY <1>0, <1>25, GetMoves DEF Moved, Locals, Still, Outside
  <2>2. KeepsEntries
    BY <1>0, <1>25, GetMoves, SameKept DEF Moved, Destroyed
  <2> QED BY <2>1, <2>2
<1>26. CASE DestroyLock
  <2>1. entry' = entry /\ th' = th /\ (Destroyed' <=> Destroyed) /\ Still
    BY <1>26 DEF DestroyLock, Destroyed, Still
  <2> QED BY <1>0, <2>1, SameKept
<1>27. CASE Exit
  <2>1. entry' = entry /\ th' = th /\ (Destroyed' <=> Destroyed) /\ Still
    BY <1>27 DEF Exit, Destroyed, Still
  <2> QED BY <1>0, <2>1, SameKept
<1>28. ASSUME NEW p \in Paths, Remove(p) PROVE KeepsEntries /\ (Still \/ FileStep)
  <2>1. entry' = entry /\ th' = th /\ (Destroyed' <=> Destroyed) /\ FileStep
    BY <1>28 DEF Remove, Destroyed, FileStep
  <2> QED BY <1>0, <2>1, SameKept
<1>29. ASSUME NEW p \in Paths, NEW s \in Sizes, Publish(p, s)
       PROVE  KeepsEntries /\ (Still \/ FileStep)
  <2>1. entry' = entry /\ th' = th /\ (Destroyed' <=> Destroyed) /\ FileStep
    BY <1>29 DEF Publish, Destroyed, FileStep
  <2> QED BY <1>0, <2>1, SameKept
<1>30. ASSUME NEW t \in Threads, Destroy(t) PROVE KeepsEntries /\ (Still \/ FileStep)
  <2>1. entry' = entry /\ th' = th /\ (Destroyed' <=> Destroyed) /\ Still
    BY <1>30 DEF Destroy, Destroyed, Still, Locals
  <2> QED BY <1>0, <2>1, SameKept
<1>31. CASE Rest \/ UNCHANGED vars
  <2>1. entry' = entry /\ th' = th /\ (Destroyed' <=> Destroyed) /\ Still
    BY <1>31 DEF Rest, Destroyed, Still
  <2> QED BY <1>0, <2>1, SameKept
<1> QED
  BY <1>0, <1>1, <1>2, <1>3, <1>4, <1>5, <1>6, <1>7, <1>8, <1>9, <1>10, <1>11, <1>12, <1>13,
     <1>14, <1>15, <1>16, <1>17, <1>18, <1>19, <1>20, <1>21, <1>22, <1>23, <1>24, <1>25, <1>26,
     <1>27, <1>28, <1>29, <1>30, <1>31 DEF Next, BootStep, WorkerStep, SendStep,
     DestroyStep, Threads

\* A hit is of a file in the cache, and stays one; the boot loads no file twice.
FromCache == {"stat", "upgrade", "open", "restat", "load", "free", "swap", "relock", "header", "body"}
Entries ==
    /\ \A p \in Paths : p \in Cached <=> entry[p].content # NULL
    /\ \A w \in Workers : th[w].pc \in FromCache => th[w].path \in Cached
    /\ \A i, j \in 1 .. Len(toAdd) : toAdd[i] = toAdd[j] => i = j
    /\ \A i \in 1 .. Len(toAdd) : toAdd[i] \notin Cached
    /\ th[Main].pc \in Loading => /\ th[Main].path \notin Cached
                                  /\ \A i \in 1 .. Len(toAdd) : toAdd[i] # th[Main].path

\* At the start the cache is empty and the boot list has no repetition.
LEMMA InitEntries == Init => Entries
<1> SUFFICES ASSUME Init PROVE Entries
  OBVIOUS
<1>1. th[Main].pc = "boot" /\ \A w \in Workers : th[w].pc = "idle"
  BY ServingAssumption DEF Init, Threads, Local, Idle
<1>2. Cached = {} /\ \A p \in Paths : entry[p].content = NULL
  BY DEF Init, Cached, NoEntry
<1>3. \A i, j \in 1 .. Len(toAdd) : toAdd[i] = toAdd[j] => i = j
  BY ServingAssumption DEF Init
<1> QED BY <1>1, <1>2, <1>3 DEF Entries, FromCache, Loading

\* Every step keeps the hits in the cache and the boot list apart from it.
LEMMA EntriesStep ==
    ASSUME ServingInv, Entries, [Next]_vars
    PROVE  Entries'
<1> USE DEF fsVars, lockVars, cacheVars, restVars, vars
<1>0. /\ Main \in Threads /\ Workers \subseteq Threads /\ Threads = Workers \cup {Main}
      /\ Main \notin Workers /\ NULL \notin Buffers /\ TypeOK /\ Locals /\ LockFollowsCode
  BY ServingAssumption DEF Threads, ServingInv
<1>1. ASSUME KeepsEntries, Still PROVE Entries'
  BY <1>0, <1>1 DEF Still, Outside, KeepsEntries, Entries, FromCache, Loading
<1>2. ASSUME KeepsEntries, BootAdd PROVE Entries'
  <2>1. /\ toAdd \in Seq(Paths) /\ toAdd # <<>> /\ toAdd' = Tail(toAdd)
        /\ Head(toAdd) \in Paths
    BY <1>0, <1>2, BootAddMoves DEF TypeOK
  <2>2. /\ Len(toAdd) \in Nat /\ Len(toAdd') = Len(toAdd) - 1 /\ Head(toAdd) = toAdd[1]
        /\ 1 \in 1 .. Len(toAdd)
        /\ \A i \in 1 .. Len(toAdd') : toAdd'[i] = toAdd[i + 1] /\ i + 1 \in 1 .. Len(toAdd)
    BY <2>1
  <2>3. /\ \A i, j \in 1 .. Len(toAdd') : toAdd'[i] = toAdd'[j] => i = j
        /\ \A i \in 1 .. Len(toAdd') : toAdd'[i] \notin Cached /\ toAdd'[i] # Head(toAdd)
        /\ Head(toAdd) \notin Cached
    <3>1. /\ \A i, j \in 1 .. Len(toAdd) : toAdd[i] = toAdd[j] => i = j
          /\ \A i \in 1 .. Len(toAdd) : toAdd[i] \notin Cached
      BY DEF Entries
    <3>2. ASSUME NEW i \in 1 .. Len(toAdd'), NEW j \in 1 .. Len(toAdd'), toAdd'[i] = toAdd'[j]
          PROVE  i = j
      <4>1. i + 1 = j + 1
        BY <2>2, <3>1, <3>2
      <4> QED BY <4>1
    <3>3. ASSUME NEW i \in 1 .. Len(toAdd')
          PROVE  toAdd'[i] \notin Cached /\ toAdd'[i] # Head(toAdd)
      <4>1. i + 1 \in 1 .. Len(toAdd) /\ toAdd'[i] = toAdd[i + 1] /\ i + 1 # 1
        BY <2>2
      <4> QED BY <2>2, <3>1, <4>1
    <3>4. Head(toAdd) \notin Cached
      BY <2>2, <3>1
    <3> QED BY <3>2, <3>3, <3>4
  <2>5. \/ UNCHANGED th
        \/ Moved(Main, "open", Head(toAdd), th[Main].fh, th[Main].buf, th[Main].st,
                 th[Main].hdr, th[Main].seen)
    BY <1>0, <1>2, BootAddMoves
  <2>6. th[Main].pc = "boot"
    BY <1>0, <1>2, BootAddMoves
  <2> QED BY <1>0, <1>2, <2>1, <2>3, <2>5, <2>6 DEF Moved, KeepsEntries, Entries, FromCache,
          Loading
<1>3. ASSUME NEW t \in Threads, KeepsEntries, LoadOpen(t) PROVE Entries'
  BY <1>0, <1>3, LoadOpenMoves DEF Moved, KeepsEntries, Entries, FromCache, Loading
<1>4. ASSUME NEW t \in Threads, NEW b \in Buffers, KeepsEntries, LoadStat(t, b) PROVE Entries'
  BY <1>0, <1>4, LoadStatMoves DEF Moved, KeepsEntries, Entries, FromCache, Loading
<1>5. ASSUME NEW t \in Threads, KeepsEntries, LoadRead(t) PROVE Entries'
  BY <1>0, <1>5, LoadReadMoves DEF Moved, KeepsEntries, Entries, FromCache, Loading
<1>6. ASSUME NEW w \in Workers, KeepsEntries, LoadFail(w) PROVE Entries'
  BY <1>0, <1>6, LoadFailMoves DEF Moved, KeepsEntries, Entries, FromCache, Loading
<1>7. ASSUME NEW w \in Workers, KeepsEntries, LookupHit(w) PROVE Entries'
  BY <1>0, <1>7, LookupHitMoves DEF Moved, KeepsEntries, Entries, FromCache, Loading
<1>8. ASSUME NEW w \in Workers, KeepsEntries, StatCurrent(w) PROVE Entries'
  BY <1>0, <1>8, StatCurrentMoves DEF Moved, KeepsEntries, Entries, FromCache, Loading
<1>9. ASSUME NEW w \in Workers, KeepsEntries, StatStale(w) PROVE Entries'
  BY <1>0, <1>9, StatStaleMoves DEF Moved, KeepsEntries, Entries, FromCache, Loading
<1>10. ASSUME NEW w \in Workers, KeepsEntries, Upgrade(w) PROVE Entries'
  BY <1>0, <1>10, UpgradeMoves DEF Moved, KeepsEntries, Entries, FromCache, Loading
<1>11. ASSUME NEW w \in Workers, KeepsEntries, Relock(w) PROVE Entries'
  BY <1>0, <1>11, RelockMoves DEF Moved, KeepsEntries, Entries, FromCache, Loading
<1>12. ASSUME NEW w \in Workers, KeepsEntries, CacheHeader(w) PROVE Entries'
  BY <1>0, <1>12, CacheHeaderMoves DEF Moved, KeepsEntries, Entries, FromCache, Loading
<1>13. ASSUME NEW w \in Workers, KeepsEntries, DiskOpen(w) PROVE Entries'
  BY <1>0, <1>13, DiskOpenMoves DEF Moved, KeepsEntries, Entries, FromCache, Loading
<1>14. ASSUME NEW w \in Workers, NEW b \in Buffers, KeepsEntries, DiskSize(w, b) PROVE Entries'
  BY <1>0, <1>14, DiskSizeMoves DEF Moved, KeepsEntries, Entries, FromCache, Loading
<1>15. ASSUME NEW w \in Workers, KeepsEntries, DiskRead(w) PROVE Entries'
  BY <1>0, <1>15, DiskReadMoves DEF Moved, KeepsEntries, Entries, FromCache, Loading
<1>16. ASSUME NEW w \in Workers, KeepsEntries, DiskSend(w) PROVE Entries'
  BY <1>0, <1>16, DiskSendMoves DEF Moved, KeepsEntries, Entries, FromCache, Loading
<1>17. ASSUME NEW p \in Paths, KeepsEntries, Remove(p) PROVE Entries'
  BY <1>0, <1>17 DEF Remove, KeepsEntries, Entries, FromCache, Loading
<1>18. ASSUME NEW p \in Paths, NEW s \in Sizes, KeepsEntries, Publish(p, s) PROVE Entries'
  BY <1>0, <1>18 DEF Publish, KeepsEntries, Entries, FromCache, Loading
<1>19. ASSUME NEW w \in Workers, ReloadFree(w) PROVE Entries'
  <2>1. Cached' = Cached
    BY <1>0, <1>19, ReloadFreeMoves DEF Cached
  <2> QED BY <1>0, <1>19, <2>1, ReloadFreeMoves DEF Moved, Entries, FromCache, Loading
<1>20. ASSUME NEW t \in Threads, LoadSwap(t) PROVE Entries'
  <2>1. /\ th[t].path \in Paths /\ th[t].buf \in Buffers
        /\ entry'[th[t].path].content = th[t].buf
        /\ \A p \in Paths : p # th[t].path => entry'[p] = entry[p]
    BY <1>0, <1>20, LoadSwapMoves, LoadSwapStores
  <2>2. Cached' = Cached \cup {th[t].path}
    <3>1. \A p \in Paths : p \in Cached' <=> p \in Cached \cup {th[t].path}
      BY <1>0, <2>1 DEF Cached, NoEntry
    <3> QED BY <2>1, <3>1 DEF Cached
  <2>3. \A i \in 1 .. Len(toAdd) : toAdd[i] # th[t].path
    BY <1>0, <1>20, LoadSwapMoves DEF Entries, FromCache, Loading
  <2>4. t = Main \/ th[Main].pc \notin Loading
    BY <1>0, <1>20, LoadSwapMoves DEF LockFollowsCode, Loading
  <2> QED BY <1>0, <1>20, <2>1, <2>2, <2>3, <2>4, LoadSwapMoves DEF Moved, Entries, FromCache,
          Loading
<1>21. CASE DestroyFree
  <2>1. Cached' = Cached
    BY <1>21 DEF DestroyFree, Cached
  <2> QED BY <1>0, <1>21, <2>1 DEF DestroyFree, Entries, FromCache, Loading
<1> QED
  BY <1>0, <1>1, <1>2, <1>3, <1>4, <1>5, <1>6, <1>7, <1>8, <1>9, <1>10, <1>11, <1>12, <1>13,
     <1>14, <1>15, <1>16, <1>17, <1>18, <1>19, <1>20, <1>21, StepKinds DEF FileStep

\* Who loads has the cache for itself, and nobody has destroyed it who is not
\* the handler on top of the load.
LEMMA SoleLoader ==
    ASSUME ServingInv, NEW t \in Threads, th[t].pc \in Loading
    PROVE  /\ t # closer => ~Destroyed
           /\ readers = {}
           /\ \A u \in Threads : th[u].pc \in Loading => u = t
<1>1. writer = t /\ NULL \notin Threads
  BY ServingAssumption DEF ServingInv, LockFollowsCode
<1> QED BY <1>1 DEF ServingInv, LockFollowsCode, Destroyed, Held

\* What a worker reads, or is about to free, belongs to the cache.
LEMMA InUseIsKept ==
    ASSUME ServingInv, Entries, NEW w \in Workers,
           th[w].pc \in Reading \cup {"open", "restat", "load", "free"},
           th[w].pc \in Reading \/ w # closer \/ ~Destroyed
    PROVE  th[w].path \in Paths /\ Kept(th[w].path)
<1>1. /\ w \in Threads /\ Workers \subseteq Threads
      /\ th[w].path \in Cached /\ th[w].path \in Paths
  BY DEF Entries, FromCache, Reading, Threads, Cached
<1>2. CASE th[w].pc \in Reading
  <2>1. w \in readers /\ writer = NULL
    BY <1>2, ServingAssumption DEF ServingInv, LockFollowsCode, TypeOK
  <2>2. \A u \in Workers : th[u].pc # "swap"
    BY <1>1, <2>1, ServingAssumption DEF ServingInv, LockFollowsCode, Loading
  <2>3. ~Destroyed
    BY <2>1 DEF ServingInv, LockFollowsCode, Destroyed, Locals, Held
  <2> QED BY <1>1, <2>2, <2>3 DEF Kept, Swapping
<1>3. CASE th[w].pc \in {"open", "restat", "load", "free"}
  <2>1. th[w].pc \in Loading /\ th[w].pc # "swap" /\ th[w].pc \notin Reading
    BY <1>3 DEF Loading, Reading
  <2>2. ~Destroyed /\ \A u \in Workers : th[u].pc # "swap"
    BY <1>1, <2>1, SoleLoader DEF Loading
  <2> QED BY <1>1, <2>2 DEF Kept, Swapping
<1> QED BY <1>2, <1>3

\* A reload that frees the content of its entry takes it from the cache.
LEMMA ReloadFreeKept ==
    ASSUME ServingInv, Entries, NEW w \in Workers, ReloadFree(w)
    PROVE  /\ Kept(th[w].path) /\ entry' = entry /\ Cached' = Cached
           /\ \A p \in Paths : Kept(p)' <=> Kept(p) /\ p # th[w].path
<1> USE DEF fsVars, lockVars, cacheVars, restVars
<1>1. TypeOK /\ Locals /\ w \in Threads /\ Workers \subseteq Threads
  BY DEF ServingInv, Threads
<1>2. /\ th[w].pc = "free" /\ th[w].path \in Paths /\ entry' = entry /\ cpc' = cpc
      /\ th'[w].pc = "swap" /\ th'[w].path = th[w].path
      /\ \A u \in Threads : u # w => th'[u] = th[u]
  BY <1>1, ReloadFreeMoves DEF Moved
<1>3. Kept(th[w].path)
  <2>1. w # closer
    BY DEF ReloadFree, At
  <2> QED BY <1>2, <2>1, InUseIsKept
<1>4. Cached' = Cached /\ (Destroyed' <=> Destroyed)
  BY <1>2 DEF Cached, Destroyed
<1>5. \A p \in Paths : Swapping(p)' <=> Swapping(p) \/ p = th[w].path
  BY <1>1, <1>2 DEF Swapping
<1> QED BY <1>2, <1>3, <1>4, <1>5 DEF Kept

\* A swap gives the loaded content to the cache, and nothing else.
LEMMA LoadSwapKept ==
    ASSUME ServingInv, Entries, NEW t \in Threads, LoadSwap(t)
    PROVE  /\ ~Kept(th[t].path) /\ Cached' = Cached \cup {th[t].path}
           /\ \A p \in Cached : p # th[t].path => Kept(p)
           /\ \A p \in Paths : Kept(p)' <=> Kept(p) \/ p = th[t].path
<1> USE DEF fsVars, lockVars, cacheVars, restVars
<1>1. TypeOK /\ Locals /\ Workers \subseteq Threads /\ NULL \notin Buffers
  BY ServingAssumption DEF ServingInv, Threads
<1>2. /\ th[t].pc = "swap" /\ th[t].path \in Paths /\ th[t].buf \in Buffers /\ cpc' = cpc
      /\ th'[t].pc # "swap" /\ \A u \in Threads : u # t => th'[u] = th[u]
  BY <1>1, LoadSwapMoves DEF Moved
<1>3. /\ entry'[th[t].path].content = th[t].buf
      /\ \A p \in Paths : p # th[t].path => entry'[p] = entry[p]
  BY <1>1, LoadSwapStores
<1>4. Cached' = Cached \cup {th[t].path}
  <2>1. \A p \in Paths : p \in Cached' <=> p \in Cached \cup {th[t].path}
    BY <1>1, <1>2, <1>3 DEF Cached, NoEntry
  <2> QED BY <1>2, <2>1 DEF Cached
<1>5. ~Destroyed /\ ~Destroyed' /\ \A u \in Threads : th[u].pc = "swap" => u = t
  <2>1. t # closer
    BY DEF LoadSwap, At
  <2> QED BY <1>2, <2>1, SoleLoader DEF Loading, Destroyed
<1>6. \A p \in Paths : ~Swapping(p)'
  BY <1>1, <1>2, <1>5 DEF Swapping
<1>7. \A p \in Paths : Swapping(p) => p = th[t].path
  BY <1>1, <1>5 DEF Swapping
<1>8. ~Kept(th[t].path)
  BY <1>1, <1>2, ServingAssumption DEF Entries, Loading, Kept, Swapping, Threads
<1> QED BY <1>2, <1>4, <1>5, <1>6, <1>7, <1>8 DEF Kept, Cached

\* The destruction frees the contents of all entries, each of which the cache
\* still owned, unless it has interrupted a reload that was about to swap.
LEMMA DestroyFreeKept ==
    ASSUME ServingInv, Entries, DestroyFree, ~Torn
    PROVE  /\ Cached' = Cached /\ \A p \in Cached : Kept(p)
           /\ \A p \in Paths : ~Kept(p)'
<1>1. Cached' = Cached /\ cpc = "free" /\ Destroyed'
  BY DEF DestroyFree, Cached, Destroyed
<1>2. ~Destroyed /\ \A u \in Workers : th[u].pc # "swap"
  <2>1. \A t \in Threads : th[t].pc \in Loading => t = closer
    BY <1>1 DEF ServingInv, LockFollowsCode, Held
  <2> QED BY <1>1, <2>1 DEF Destroyed, Loading, Threads, Torn
<1> QED BY <1>1, <1>2 DEF Kept, Swapping

\* BuffersSafe, buffer by buffer and thread by thread.
Owners ==
    /\ \A p \in Paths : Kept(p) => entry[p].content \in live
    /\ \A t \in Threads : th[t].buf # NULL => th[t].buf \in live
    /\ \A b \in live : \/ \E p \in Paths : Kept(p) /\ entry[p].content = b
                       \/ \E t \in Threads : th[t].buf = b
    /\ \A p \in Paths, t \in Threads : Kept(p) => entry[p].content # th[t].buf
    /\ \A p, q \in Cached : entry[p].content = entry[q].content => p = q
    /\ \A t, u \in Threads : th[t].buf # NULL /\ th[t].buf = th[u].buf => t = u

\* At the start nothing is allocated.
LEMMA InitOwners == Init => Owners
<1> SUFFICES ASSUME Init PROVE Owners
  OBVIOUS
<1>1. \A t \in Threads : th[t].buf = NULL
  BY DEF Init, Local, Idle
<1>2. Cached = {} /\ live = {} /\ \A p \in Paths : ~Kept(p)
  BY DEF Init, Cached, NoEntry, Kept
<1> QED BY <1>1, <1>2 DEF Owners

\* Owners is kept by a step that moves no buffer.
LEMMA SameOwners ==
    ASSUME Owners, KeepsEntries, live' = live, \A t \in Threads : th'[t].buf = th[t].buf
    PROVE  Owners'
BY DEF Owners, KeepsEntries

\* Owners is kept by a malloc.
LEMMA MoreOwners ==
    ASSUME Owners, KeepsEntries, live \subseteq Buffers,
           NEW t \in Threads, NEW b \in Buffers \ live, live' = live \cup {b},
           th[t].buf = NULL, th'[t].buf = b, \A u \in Threads : u # t => th'[u].buf = th[u].buf
    PROVE  Owners'
<1>0. NULL \notin Buffers
  BY ServingAssumption
<1>1. \A p \in Paths : Kept(p)' => entry'[p].content \in live'
  BY <1>0 DEF Owners, KeepsEntries
<1>2. \A u \in Threads : th'[u].buf # NULL => th'[u].buf \in live'
  BY <1>0 DEF Owners, KeepsEntries
<1>3. ASSUME NEW c \in live'
      PROVE  \/ \E p \in Paths : Kept(p)' /\ entry'[p].content = c
             \/ \E u \in Threads : th'[u].buf = c
  <2>1. CASE c = b
    BY <2>1
  <2>2. CASE \E p \in Paths : Kept(p) /\ entry[p].content = c
    BY <2>2 DEF KeepsEntries
  <2>3. ASSUME c # b, NEW u \in Threads, th[u].buf = c PROVE th'[u].buf = c
    BY <1>0, <2>3
  <2> QED BY <2>1, <2>2, <2>3 DEF Owners
<1>4. \A p \in Paths, u \in Threads : Kept(p)' => entry'[p].content # th'[u].buf
  BY <1>0 DEF Owners, KeepsEntries
<1>5. \A p, q \in Cached' : entry'[p].content = entry'[q].content => p = q
  BY <1>0 DEF Owners, KeepsEntries
<1>6. \A u, v \in Threads : th'[u].buf # NULL /\ th'[u].buf = th'[v].buf => u = v
  BY <1>0 DEF Owners, KeepsEntries
<1> QED BY <1>1, <1>2, <1>3, <1>4, <1>5, <1>6 DEF Owners

\* Every step keeps each buffer with its one owner.
LEMMA OwnersStep ==
    ASSUME ServingInv, Entries, Owners, ~Lost', [Next]_vars
    PROVE  Owners'
<1> USE DEF fsVars, lockVars, cacheVars, restVars, vars
<1>0. /\ Main \in Threads /\ Workers \subseteq Threads /\ Threads = Workers \cup {Main}
      /\ Main \notin Workers /\ NULL \notin Buffers /\ TypeOK /\ Locals /\ LockFollowsCode
  BY ServingAssumption DEF Threads, ServingInv
<1>1. ASSUME KeepsEntries, Still PROVE Owners'
  BY <1>0, <1>1, SameOwners DEF Still
<1>2. ASSUME KeepsEntries, BootAdd PROVE Owners'
  BY <1>0, <1>2, BootAddMoves, SameOwners DEF Moved
<1>3. ASSUME NEW t \in Threads, KeepsEntries, LoadOpen(t) PROVE Owners'
  BY <1>0, <1>3, LoadOpenMoves, SameOwners DEF Moved
<1>4. ASSUME NEW t \in Threads, NEW b \in Buffers, KeepsEntries, LoadStat(t, b) PROVE Owners'
  <2>1. /\ th[t].buf = NULL /\ th'[t].buf = b /\ b \notin live /\ live' = live \cup {b}
        /\ \A u \in Threads : u # t => th'[u].buf = th[u].buf
    BY <1>0, <1>4, LoadStatMoves DEF Moved, Locals
  <2>2. live \subseteq Buffers
    BY <1>0 DEF TypeOK
  <2> QED BY <1>0, <1>4, <2>1, <2>2, MoreOwners
<1>5. ASSUME NEW t \in Threads, KeepsEntries, LoadRead(t) PROVE Owners'
  BY <1>0, <1>5, LoadReadMoves, SameOwners DEF Moved
<1>6. ASSUME NEW w \in Workers, KeepsEntries, LoadFail(w) PROVE Owners'
  BY <1>0, <1>6, LoadFailMoves, SameOwners DEF Moved, Locals
<1>7. ASSUME NEW w \in Workers, KeepsEntries, LookupHit(w) PROVE Owners'
  BY <1>0, <1>7, LookupHitMoves, SameOwners DEF Moved
<1>8. ASSUME NEW w \in Workers, KeepsEntries, StatCurrent(w) PROVE Owners'
  BY <1>0, <1>8, StatCurrentMoves, SameOwners DEF Moved
<1>9. ASSUME NEW w \in Workers, KeepsEntries, StatStale(w) PROVE Owners'
  BY <1>0, <1>9, StatStaleMoves, SameOwners DEF Moved
<1>10. ASSUME NEW w \in Workers, KeepsEntries, Upgrade(w) PROVE Owners'
  BY <1>0, <1>10, UpgradeMoves, SameOwners DEF Moved
<1>11. ASSUME NEW w \in Workers, KeepsEntries, Relock(w) PROVE Owners'
  BY <1>0, <1>11, RelockMoves, SameOwners DEF Moved
<1>12. ASSUME NEW w \in Workers, KeepsEntries, CacheHeader(w) PROVE Owners'
  BY <1>0, <1>12, CacheHeaderMoves, SameOwners DEF Moved
<1>13. ASSUME NEW w \in Workers, KeepsEntries, DiskOpen(w) PROVE Owners'
  BY <1>0, <1>13, DiskOpenMoves, SameOwners DEF Moved
<1>14. ASSUME NEW w \in Workers, NEW b \in Buffers, KeepsEntries, DiskSize(w, b) PROVE Owners'
  <2>1. /\ th[w].buf = NULL /\ th'[w].buf = b /\ b \notin live /\ live' = live \cup {b}
        /\ \A u \in Threads : u # w => th'[u].buf = th[u].buf
    BY <1>0, <1>14, DiskSizeMoves DEF Moved, Locals
  <2>2. live \subseteq Buffers
    BY <1>0 DEF TypeOK
  <2> QED BY <1>0, <1>14, <2>1, <2>2, MoreOwners
<1>15. ASSUME NEW w \in Workers, KeepsEntries, DiskRead(w) PROVE Owners'
  BY <1>0, <1>15, DiskReadMoves, SameOwners DEF Moved
<1>16. ASSUME NEW w \in Workers, KeepsEntries, DiskSend(w) PROVE Owners'
  <2>1. /\ th[w].buf # NULL /\ th'[w].buf = NULL /\ live' = live \ {th[w].buf}
        /\ \A u \in Threads : u # w => th'[u].buf = th[u].buf
    BY <1>0, <1>16, DiskSendMoves DEF Moved, Locals
  <2>2. w \in Threads /\ \A p \in Paths : Kept(p) => entry[p].content # NULL
    BY <1>0 DEF Kept, Entries
  <2>3. Owners'
    <3>1. \A p \in Paths : Kept(p)' => entry'[p].content \in live'
      BY <1>16, <2>1, <2>2 DEF Owners, KeepsEntries
    <3>2. \A u \in Threads : th'[u].buf # NULL => th'[u].buf \in live'
      BY <1>16, <2>1, <2>2 DEF Owners, KeepsEntries
    <3>3. ASSUME NEW c \in live'
          PROVE  \/ \E p \in Paths : Kept(p)' /\ entry'[p].content = c
                 \/ \E u \in Threads : th'[u].buf = c
      <4>1. CASE \E p \in Paths : Kept(p) /\ entry[p].content = c
        BY <1>16, <4>1 DEF KeepsEntries
      <4>2. ASSUME NEW u \in Threads, th[u].buf = c PROVE th'[u].buf = c
        BY <2>1, <4>2
      <4> QED BY <2>1, <4>1, <4>2 DEF Owners
    <3>4. \A p \in Paths, u \in Threads : Kept(p)' => entry'[p].content # th'[u].buf
      BY <1>16, <2>1, <2>2 DEF Owners, KeepsEntries
    <3>5. \A p, q \in Cached' : entry'[p].content = entry'[q].content => p = q
      BY <1>16, <2>1, <2>2 DEF Owners, KeepsEntries
    <3>6. \A u, v \in Threads : th'[u].buf # NULL /\ th'[u].buf = th'[v].buf => u = v
      BY <1>16, <2>1, <2>2 DEF Owners, KeepsEntries
    <3> QED BY <3>1, <3>2, <3>3, <3>4, <3>5, <3>6 DEF Owners
  <2> QED BY <2>3
<1>17. ASSUME NEW p \in Paths, KeepsEntries, Remove(p) PROVE Owners'
  BY <1>0, <1>17, SameOwners DEF Remove
<1>18. ASSUME NEW p \in Paths, NEW s \in Sizes, KeepsEntries, Publish(p, s) PROVE Owners'
  BY <1>0, <1>18, SameOwners DEF Publish
<1>19. ASSUME NEW w \in Workers, ReloadFree(w) PROVE Owners'
  <2>1. /\ live' = live \ {entry[th[w].path].content} /\ th[w].path \in Paths
        /\ \A u \in Threads : th'[u].buf = th[u].buf
    BY <1>0, <1>19, ReloadFreeMoves DEF Moved
  <2>2. /\ Kept(th[w].path) /\ entry' = entry /\ Cached' = Cached
        /\ \A p \in Paths : Kept(p)' <=> Kept(p) /\ p # th[w].path
    BY <1>19, ReloadFreeKept
  <2>3. \A p \in Paths : Kept(p) => p \in Cached
    BY DEF Kept
  <2> QED BY <2>1, <2>2, <2>3 DEF Owners
<1>20. ASSUME NEW t \in Threads, LoadSwap(t) PROVE Owners'
  <2>1. /\ live' = live /\ th[t].path \in Paths /\ th[t].buf # NULL /\ th'[t].buf = NULL
        /\ \A u \in Threads : u # t => th'[u].buf = th[u].buf
    BY <1>0, <1>20, LoadSwapMoves DEF Moved
  <2>2. /\ ~Kept(th[t].path) /\ Cached' = Cached \cup {th[t].path}
        /\ \A p \in Cached : p # th[t].path => Kept(p)
        /\ \A p \in Paths : Kept(p)' <=> Kept(p) \/ p = th[t].path
    BY <1>20, LoadSwapKept
  <2>3. /\ entry'[th[t].path].content = th[t].buf
        /\ \A p \in Paths : p # th[t].path => entry'[p] = entry[p]
    BY <1>0, <1>20, LoadSwapStores
  <2>4. Cached \subseteq Paths /\ \A p \in Paths : Kept(p) => entry[p].content # NULL
    BY DEF Cached, Kept, Entries
  <2>5. Owners'
    <3>1. \A p \in Paths : Kept(p)' => entry'[p].content \in live'
      BY <2>1, <2>2, <2>3, <2>4 DEF Owners
    <3>2. \A u \in Threads : th'[u].buf # NULL => th'[u].buf \in live'
      BY <2>1, <2>2, <2>3, <2>4 DEF Owners
    <3>3. \A c \in live' : \/ \E p \in Paths : Kept(p)' /\ entry'[p].content = c
                           \/ \E u \in Threads : th'[u].buf = c
      BY <2>1, <2>2, <2>3, <2>4 DEF Owners
    <3>4. \A p \in Paths, u \in Threads : Kept(p)' => entry'[p].content # th'[u].buf
      BY <2>1, <2>2, <2>3, <2>4 DEF Owners
    <3>5. \A p, q \in Cached' : entry'[p].content = entry'[q].content => p = q
      BY <2>1, <2>2, <2>3, <2>4 DEF Owners
    <3>6. \A u, v \in Threads : th'[u].buf # NULL /\ th'[u].buf = th'[v].buf => u = v
      BY <2>1, <2>2, <2>3, <2>4 DEF Owners
    <3> QED BY <3>1, <3>2, <3>3, <3>4, <3>5, <3>6 DEF Owners
  <2> QED BY <2>5
<1>21. CASE DestroyFree
  <2>1. /\ live' = live \ {entry[p].content : p \in Cached} /\ th' = th /\ entry' = entry
        /\ \A p \in Paths : Kept(p) => p \in Cached
    BY <1>21 DEF DestroyFree, Kept
  <2>4. ~Torn
    BY <1>21 DEF DestroyFree, Lost, Torn, Destroyed
  <2>2. Cached' = Cached /\ \A p \in Cached : p \in Paths /\ Kept(p)
    BY <1>21, <2>4, DestroyFreeKept DEF Cached
  <2>3. \A p \in Paths : ~Kept(p)'
    BY <1>21, <2>4, DestroyFreeKept
  <2> QED BY <2>1, <2>2, <2>3 DEF Owners
<1> QED
  BY <1>0, <1>1, <1>2, <1>3, <1>4, <1>5, <1>6, <1>7, <1>8, <1>9, <1>10, <1>11, <1>12, <1>13,
     <1>14, <1>15, <1>16, <1>17, <1>18, <1>19, <1>20, <1>21, StepKinds DEF FileStep

\* BuffersSafe, from the owners.
LEMMA OwnersAreSafe ==
    ASSUME ServingInv, Entries, Lost \/ Owners
    PROVE  BuffersSafe
<1>0. /\ Workers \subseteq Threads /\ NULL \notin Buffers /\ live \subseteq Buffers
      /\ \A p \in Paths : Kept(p) <=> p \in {q \in Cached : ~Swapping(q) /\ ~Destroyed}
  BY ServingAssumption DEF Threads, ServingInv, TypeOK, Kept, Cached
<1>1. \A b : b \in OwnedByCache <=> \E p \in Paths : Kept(p) /\ entry[p].content = b
  BY <1>0 DEF OwnedByCache, Cached
<1>2. \A b : b \in InHand <=> b # NULL /\ \E t \in Threads : th[t].buf = b
  BY DEF InHand
<1>3. Owners => live = OwnedByCache \cup InHand
  <2> SUFFICES ASSUME Owners PROVE live = OwnedByCache \cup InHand
    OBVIOUS
  <2>1. ASSUME NEW b \in live PROVE b \in OwnedByCache \cup InHand
    BY <1>0, <1>1, <1>2 DEF Owners
  <2>2. ASSUME NEW b \in OwnedByCache \cup InHand PROVE b \in live
    BY <1>1, <1>2 DEF Owners
  <2> QED BY <2>1, <2>2
<1>4. Owners => OwnedByCache \cap InHand = {}
  BY <1>1, <1>2 DEF Owners
<1>5. Owners => \A p, q \in Cached : entry[p].content = entry[q].content => p = q
  BY DEF Owners
<1>6. \A w \in Workers : w # closer /\ th[w].pc \in Reading \cup {"free"} =>
          th[w].path \in Cached /\ entry[th[w].path].content \in OwnedByCache
  BY <1>1, InUseIsKept DEF Kept
<1>7. cpc = "free" => \A p \in Cached :
          entry[p].content \in OwnedByCache \/ (Torn /\ p = th[closer].path)
  <2> SUFFICES ASSUME cpc = "free", NEW p \in Cached, ~(Torn /\ p = th[closer].path)
               PROVE  Kept(p) /\ p \in Paths
    BY <1>1
  <2>1. \A t \in Threads : th[t].pc \in Loading => t = closer
    BY DEF ServingInv, LockFollowsCode, Held
  <2>2. ~Swapping(p)
    BY <1>0, <2>1 DEF Swapping, Loading, Torn
  <2> QED BY <2>2 DEF Kept, Destroyed, Cached
<1> QED BY <1>3, <1>4, <1>5, <1>6, <1>7 DEF BuffersSafe, Lost

\* An entry's size is the length of its content, and a header sent is the
\* entry's size.
EntrySizes ==
    /\ \A p \in Paths : Kept(p) => entry[p].size = Content(p).length
    /\ \A w \in Workers : th[w].pc = "body" => th[w].hdr = entry[th[w].path].size

\* At the start there is no entry and no answer.
LEMMA InitSizes == Init => EntrySizes
<1> SUFFICES ASSUME Init PROVE EntrySizes
  OBVIOUS
<1>1. \A w \in Workers : th[w].pc = "idle"
  BY ServingAssumption DEF Init, Threads, Local, Idle
<1>2. \A p \in Paths : ~Kept(p)
  BY DEF Init, Cached, Kept
<1> QED BY <1>1, <1>2 DEF EntrySizes

\* The content of an entry is not what a thread fills its buffer with.
LEMMA FilledElsewhere ==
    ASSUME TypeOK, Owners, Entries, NEW t \in Threads,
           \A b \in Buffers : b # th[t].buf => heap'[b] = heap[b]
    PROVE  \A p \in Paths : Kept(p) => heap'[entry[p].content] = heap[entry[p].content]
<1>1. \A p \in Paths : Kept(p) => entry[p].content \in Buffers /\ entry[p].content # th[t].buf
  BY DEF TypeOK, EntryType, Owners, Entries, Kept
<1> QED BY <1>1

\* Every step keeps the sizes of the entries and what the headers announce.
LEMMA SizesStep ==
    ASSUME ServingInv, Entries, Owners, EntrySizes, ~Destroyed, ~Destroyed',
           [Next]_vars
    PROVE  EntrySizes'
<1> USE DEF fsVars, lockVars, cacheVars, restVars, vars
<1>0. /\ Main \in Threads /\ Workers \subseteq Threads /\ Threads = Workers \cup {Main}
      /\ Main \notin Workers /\ NULL \notin Buffers /\ TypeOK /\ Locals /\ LockFollowsCode
  BY ServingAssumption DEF Threads, ServingInv
<1>1. ASSUME KeepsEntries, Still PROVE EntrySizes'
  BY <1>0, <1>1 DEF Still, Outside, KeepsEntries, EntrySizes, Content
<1>2. ASSUME KeepsEntries, BootAdd PROVE EntrySizes'
  BY <1>0, <1>2, BootAddMoves DEF Moved, KeepsEntries, EntrySizes, Content
<1>3. ASSUME NEW t \in Threads, KeepsEntries, LoadOpen(t) PROVE EntrySizes'
  BY <1>0, <1>3, LoadOpenMoves DEF Moved, KeepsEntries, EntrySizes, Content
<1>4. ASSUME NEW t \in Threads, NEW b \in Buffers, KeepsEntries, LoadStat(t, b) PROVE EntrySizes'
  BY <1>0, <1>4, LoadStatMoves DEF Moved, KeepsEntries, EntrySizes, Content
<1>5. ASSUME NEW t \in Threads, KeepsEntries, LoadRead(t) PROVE EntrySizes'
  <2>1. \A p \in Paths : Kept(p) => heap'[entry[p].content] = heap[entry[p].content]
    BY <1>0, <1>5, LoadReadFills, FilledElsewhere
  <2>2. \A u \in Workers : th'[u].pc = "body" => th[u].pc = "body" /\ th'[u] = th[u]
    BY <1>0, <1>5, LoadReadMoves DEF Moved
  <2> QED BY <1>0, <1>5, <2>1, <2>2 DEF KeepsEntries, EntrySizes, Content
<1>6. ASSUME NEW w \in Workers, KeepsEntries, LoadFail(w) PROVE EntrySizes'
  BY <1>0, <1>6, LoadFailMoves DEF Moved, KeepsEntries, EntrySizes, Content
<1>7. ASSUME NEW w \in Workers, KeepsEntries, LookupHit(w) PROVE EntrySizes'
  BY <1>0, <1>7, LookupHitMoves DEF Moved, KeepsEntries, EntrySizes, Content
<1>8. ASSUME NEW w \in Workers, KeepsEntries, StatCurrent(w) PROVE EntrySizes'
  BY <1>0, <1>8, StatCurrentMoves DEF Moved, KeepsEntries, EntrySizes, Content
<1>9. ASSUME NEW w \in Workers, KeepsEntries, StatStale(w) PROVE EntrySizes'
  BY <1>0, <1>9, StatStaleMoves DEF Moved, KeepsEntries, EntrySizes, Content
<1>10. ASSUME NEW w \in Workers, KeepsEntries, Upgrade(w) PROVE EntrySizes'
  BY <1>0, <1>10, UpgradeMoves DEF Moved, KeepsEntries, EntrySizes, Content
<1>11. ASSUME NEW w \in Workers, KeepsEntries, Relock(w) PROVE EntrySizes'
  BY <1>0, <1>11, RelockMoves DEF Moved, KeepsEntries, EntrySizes, Content
<1>12. ASSUME NEW w \in Workers, KeepsEntries, CacheHeader(w) PROVE EntrySizes'
  BY <1>0, <1>12, CacheHeaderMoves DEF Moved, KeepsEntries, EntrySizes, Content
<1>13. ASSUME NEW w \in Workers, KeepsEntries, DiskOpen(w) PROVE EntrySizes'
  BY <1>0, <1>13, DiskOpenMoves DEF Moved, KeepsEntries, EntrySizes, Content
<1>14. ASSUME NEW w \in Workers, NEW b \in Buffers, KeepsEntries, DiskSize(w, b) PROVE EntrySizes'
  BY <1>0, <1>14, DiskSizeMoves DEF Moved, KeepsEntries, EntrySizes, Content
<1>15. ASSUME NEW w \in Workers, KeepsEntries, DiskRead(w) PROVE EntrySizes'
  <2>1. \A p \in Paths : Kept(p) => heap'[entry[p].content] = heap[entry[p].content]
    BY <1>0, <1>15, DiskReadFills, FilledElsewhere
  <2>2. \A u \in Workers : th'[u].pc = "body" => th[u].pc = "body" /\ th'[u] = th[u]
    BY <1>0, <1>15, DiskReadMoves DEF Moved
  <2> QED BY <1>0, <1>15, <2>1, <2>2 DEF KeepsEntries, EntrySizes, Content
<1>16. ASSUME NEW w \in Workers, KeepsEntries, DiskSend(w) PROVE EntrySizes'
  BY <1>0, <1>16, DiskSendMoves DEF Moved, KeepsEntries, EntrySizes, Content
<1>17. ASSUME NEW p \in Paths, KeepsEntries, Remove(p) PROVE EntrySizes'
  BY <1>0, <1>17 DEF Remove, KeepsEntries, EntrySizes, Content
<1>18. ASSUME NEW p \in Paths, NEW s \in Sizes, KeepsEntries, Publish(p, s) PROVE EntrySizes'
  BY <1>0, <1>18 DEF Publish, KeepsEntries, EntrySizes, Content
<1>19. ASSUME NEW w \in Workers, ReloadFree(w) PROVE EntrySizes'
  <2>1. heap' = heap /\ \A u \in Workers : th'[u].pc = "body" => th'[u] = th[u]
    BY <1>0, <1>19, ReloadFreeMoves DEF Moved
  <2> QED BY <1>19, <2>1, ReloadFreeKept DEF EntrySizes, Content
<1>20. ASSUME NEW t \in Threads, LoadSwap(t) PROVE EntrySizes'
  <2>1. /\ heap' = heap /\ th[t].path \in Paths /\ th[t].pc \in Loading
        /\ \A u \in Workers : th'[u].pc = "body" => th'[u] = th[u]
    BY <1>0, <1>20, LoadSwapMoves DEF Moved, Loading
  <2>2. \A u \in Workers : th[u].pc # "body"
    BY <1>0, <2>1, SoleLoader DEF LockFollowsCode, Reading
  <2> QED BY <1>0, <1>20, <2>1, <2>2, LoadSwapKept, LoadSwapStores DEF EntrySizes, Content
<1>21. CASE DestroyFree
  BY <1>21 DEF DestroyFree, Destroyed
<1> QED
  BY <1>0, <1>1, <1>2, <1>3, <1>4, <1>5, <1>6, <1>7, <1>8, <1>9, <1>10, <1>11, <1>12, <1>13,
     <1>14, <1>15, <1>16, <1>17, <1>18, <1>19, <1>20, <1>21, StepKinds DEF FileStep

\* HeaderMatchesBody, from the sizes.
LEMMA SizesMatch ==
    ASSUME ServingInv, Entries, Destroyed \/ EntrySizes
    PROVE  HeaderMatchesBody
BY InUseIsKept DEF EntrySizes, HeaderMatchesBody, Reading, Kept

\* Two paths never share a file, and an open file is the one its path names or
\* has no name any more.
OpenFiles ==
    /\ \A p, q \in Paths : disk[p] = disk[q] /\ disk[p] # NULL => p = q
    /\ \A t \in Threads, p \in Paths : th[t].fh # NULL /\ disk[p] = th[t].fh => p = th[t].path

\* At the start no file is open, and each path has a file of its own.
LEMMA InitFiles == Init => OpenFiles
<1> SUFFICES ASSUME Init PROVE OpenFiles
  OBVIOUS
<1>1. \A t \in Threads : th[t].fh = NULL
  BY DEF Init, Local, Idle
<1> QED BY <1>1 DEF Init, OpenFiles

\* Closing files changes nothing about those that stay open.
LEMMA SameFiles ==
    ASSUME OpenFiles, disk' = disk,
           \A t \in Threads : \/ th'[t].fh = NULL
                              \/ th'[t].fh = th[t].fh /\ th'[t].path = th[t].path
    PROVE  OpenFiles'
BY DEF OpenFiles

\* What publishing a file does: one inode changes, which the path names from
\* now on, no other path does, and only loads of the same path have it open.
LEMMA PublishEffect ==
    ASSUME TypeOK, OpenFiles, NEW p \in Paths, NEW s \in Sizes, Publish(p, s)
    PROVE  /\ updates' = updates + 1 /\ \E d \in Delays : clock' = clock + d
           /\ th' = th /\ heap' = heap
           /\ \E i \in Inodes :
                 /\ disk' = [disk EXCEPT ![p] = i] /\ inode' = [inode EXCEPT ![i] = Written(s)]
                 /\ \A q \in Paths : q # p => disk[q] # i
                 /\ \A t \in Threads : th[t].fh = i => th[t].path = p /\ disk[p] = i
                 /\ disk[p] = i \/ "replace" \in Updates
<1> USE DEF fsVars, lockVars, cacheVars, restVars
<1>1. /\ updates' = updates + 1 /\ \E d \in Delays : clock' = clock + d
      /\ th' = th /\ heap' = heap
  BY DEF Publish, Tick
<1>2. /\ disk \in [Paths -> Inodes \cup {NULL}] /\ NULL \notin Inodes
  BY ServingAssumption DEF TypeOK
<1>3. CASE Exists(p) /\ inode' = [inode EXCEPT ![disk[p]] = Written(s)] /\ disk' = disk
  <2>1. disk[p] \in Inodes /\ disk' = [disk EXCEPT ![p] = disk[p]]
    BY <1>2, <1>3 DEF Exists
  <2>2. \A q \in Paths : q # p => disk[q] # disk[p]
    BY <1>3 DEF OpenFiles, Exists
  <2>3. \A t \in Threads : th[t].fh = disk[p] => th[t].path = p
    BY <1>3 DEF OpenFiles, Exists
  <2> QED BY <1>1, <1>3, <2>1, <2>2, <2>3
<1>4. ASSUME "replace" \in Updates, NEW i \in Inodes \ InUse,
             inode' = [inode EXCEPT ![i] = Written(s)], disk' = [disk EXCEPT ![p] = i]
      PROVE  \E j \in Inodes :
                 /\ disk' = [disk EXCEPT ![p] = j] /\ inode' = [inode EXCEPT ![j] = Written(s)]
                 /\ \A q \in Paths : q # p => disk[q] # j
                 /\ \A t \in Threads : th[t].fh = j => th[t].path = p /\ disk[p] = j
                 /\ disk[p] = j \/ "replace" \in Updates
  <2>1. /\ \A q \in Paths : disk[q] # i
        /\ \A t \in Threads : th[t].fh # i
    BY <1>4 DEF InUse
  <2> QED BY <1>4, <2>1
<1> QED BY <1>1, <1>3, <1>4 DEF Publish

\* Every step keeps open files apart from those with other names.
LEMMA FilesStep ==
    ASSUME ServingInv, OpenFiles, [Next]_vars
    PROVE  OpenFiles'
<1> USE DEF fsVars, lockVars, cacheVars, restVars, vars
<1>0. /\ Main \in Threads /\ Workers \subseteq Threads /\ Threads = Workers \cup {Main}
      /\ Main \notin Workers /\ NULL \notin Buffers /\ TypeOK /\ Locals /\ LockFollowsCode
  BY ServingAssumption DEF Threads, ServingInv
<1>1. ASSUME KeepsEntries, Still PROVE OpenFiles'
  BY <1>0, <1>1, SameFiles DEF Still
<1>2. ASSUME KeepsEntries, BootAdd PROVE OpenFiles'
  BY <1>0, <1>2, BootAddMoves, SameFiles DEF Moved, Locals
<1>3. ASSUME NEW t \in Threads, KeepsEntries, LoadOpen(t) PROVE OpenFiles'
  BY <1>0, <1>3, LoadOpenMoves DEF Moved, OpenFiles
<1>4. ASSUME NEW t \in Threads, NEW b \in Buffers, KeepsEntries, LoadStat(t, b) PROVE OpenFiles'
  BY <1>0, <1>4, LoadStatMoves, SameFiles DEF Moved
<1>5. ASSUME NEW t \in Threads, KeepsEntries, LoadRead(t) PROVE OpenFiles'
  BY <1>0, <1>5, LoadReadMoves, SameFiles DEF Moved
<1>6. ASSUME NEW w \in Workers, KeepsEntries, LoadFail(w) PROVE OpenFiles'
  BY <1>0, <1>6, LoadFailMoves, SameFiles DEF Moved
<1>7. ASSUME NEW w \in Workers, KeepsEntries, LookupHit(w) PROVE OpenFiles'
  BY <1>0, <1>7, LookupHitMoves, SameFiles DEF Moved
<1>8. ASSUME NEW w \in Workers, KeepsEntries, StatCurrent(w) PROVE OpenFiles'
  BY <1>0, <1>8, StatCurrentMoves, SameFiles DEF Moved
<1>9. ASSUME NEW w \in Workers, KeepsEntries, StatStale(w) PROVE OpenFiles'
  BY <1>0, <1>9, StatStaleMoves, SameFiles DEF Moved
<1>10. ASSUME NEW w \in Workers, KeepsEntries, Upgrade(w) PROVE OpenFiles'
  BY <1>0, <1>10, UpgradeMoves, SameFiles DEF Moved
<1>11. ASSUME NEW w \in Workers, KeepsEntries, Relock(w) PROVE OpenFiles'
  BY <1>0, <1>11, RelockMoves, SameFiles DEF Moved
<1>12. ASSUME NEW w \in Workers, KeepsEntries, CacheHeader(w) PROVE OpenFiles'
  BY <1>0, <1>12, CacheHeaderMoves, SameFiles DEF Moved
<1>13. ASSUME NEW w \in Workers, KeepsEntries, DiskOpen(w) PROVE OpenFiles'
  BY <1>0, <1>13, DiskOpenMoves DEF Moved, OpenFiles
<1>14. ASSUME NEW w \in Workers, NEW b \in Buffers, KeepsEntries, DiskSize(w, b) PROVE OpenFiles'
  BY <1>0, <1>14, DiskSizeMoves, SameFiles DEF Moved
<1>15. ASSUME NEW w \in Workers, KeepsEntries, DiskRead(w) PROVE OpenFiles'
  BY <1>0, <1>15, DiskReadMoves, SameFiles DEF Moved
<1>16. ASSUME NEW w \in Workers, KeepsEntries, DiskSend(w) PROVE OpenFiles'
  BY <1>0, <1>16, DiskSendMoves, SameFiles DEF Moved
<1>17. ASSUME NEW p \in Paths, KeepsEntries, Remove(p) PROVE OpenFiles'
  BY <1>0, <1>17 DEF Remove, Exists, OpenFiles, TypeOK
<1>18. ASSUME NEW p \in Paths, NEW s \in Sizes, KeepsEntries, Publish(p, s) PROVE OpenFiles'
  <2>1. PICK i \in Inodes :
           /\ disk' = [disk EXCEPT ![p] = i]
           /\ \A q \in Paths : q # p => disk[q] # i
           /\ \A t \in Threads : th[t].fh = i => th[t].path = p /\ disk[p] = i
    BY <1>0, <1>18, PublishEffect
  <2>2. disk'[p] = i /\ \A q \in Paths : q # p => disk'[q] = disk[q]
    BY <1>0, <2>1 DEF TypeOK
  <2>3. th' = th
    BY <1>18 DEF Publish
  <2> QED BY <2>1, <2>2, <2>3 DEF OpenFiles
<1>19. ASSUME NEW w \in Workers, ReloadFree(w) PROVE OpenFiles'
  BY <1>0, <1>19, ReloadFreeMoves, SameFiles DEF Moved
<1>20. ASSUME NEW t \in Threads, LoadSwap(t) PROVE OpenFiles'
  BY <1>0, <1>20, LoadSwapMoves, SameFiles DEF Moved
<1>21. CASE DestroyFree
  BY <1>21, SameFiles DEF DestroyFree
<1> QED
  BY <1>0, <1>1, <1>2, <1>3, <1>4, <1>5, <1>6, <1>7, <1>8, <1>9, <1>10, <1>11, <1>12, <1>13,
     <1>14, <1>15, <1>16, <1>17, <1>18, <1>19, <1>20, <1>21, StepKinds DEF FileStep

\* What is in the cache, in hand or in an open file is never more recent than
\* the file that now has the name, and a reload never goes back.
Versions ==
    /\ \A i \in Inodes : inode[i].version <= updates
    /\ \A p \in Paths : Kept(p) => /\ Content(p).version <= updates
                                   /\ Exists(p) => Content(p).version <= File(p).version
    /\ \A t \in Threads : th[t].pc \in {"free", "swap"} =>
          /\ heap[th[t].buf].version <= updates
          /\ Exists(th[t].path) => heap[th[t].buf].version <= File(th[t].path).version
    /\ \A t \in Threads : th[t].pc \in {"restat", "load"} /\ Exists(th[t].path) =>
          inode[th[t].fh].version <= File(th[t].path).version
    /\ \A w \in Workers : th[w].pc \in {"restat", "load"} =>
          Content(th[w].path).version <= inode[th[w].fh].version
    /\ \A w \in Workers : th[w].pc = "free" =>
          Content(th[w].path).version <= heap[th[w].buf].version

\* At the start there is one version of each file.
LEMMA InitVersions == Init => Versions
<1> SUFFICES ASSUME Init PROVE Versions
  OBVIOUS
<1>1. \A t \in Threads : th[t].pc \in {"boot", "idle"}
  BY DEF Init, Local, Idle
<1>2. \A p \in Paths : ~Kept(p)
  BY DEF Init, Cached, Kept
<1>3. updates = 0 /\ \A i \in Inodes : inode[i].version = 0
  BY DEF Init, NoStat
<1> QED BY <1>1, <1>2, <1>3, ServingAssumption DEF Versions, Threads

\* What read_file reads does not end up in the buffer of a load.
LEMMA LoadedElsewhere ==
    ASSUME ServingInv, Owners, NEW w \in Workers, DiskRead(w)
    PROVE  \A u \in Threads : th[u].pc \in {"free", "swap"} => heap'[th[u].buf] = heap[th[u].buf]
<1> SUFFICES ASSUME NEW u \in Threads, th[u].pc \in {"free", "swap"}
             PROVE  heap'[th[u].buf] = heap[th[u].buf]
  OBVIOUS
<1>0. TypeOK /\ Locals /\ w \in Threads
  BY DEF ServingInv, Threads
<1>1. th[w].pc = "fread" /\ th[w].buf \in Buffers
  BY <1>0, DiskReadMoves, DiskReadFills
<1>2. th[u].buf \in Buffers /\ th[u].buf # th[w].buf
  BY <1>0, <1>1 DEF Locals, Owners, TypeOK, LocalType
<1> QED BY <1>0, <1>2, DiskReadFills

\* Every step keeps the order of the versions.
LEMMA VersionsStep ==
    ASSUME ServingInv, Entries, Owners, OpenFiles, Versions, ~Destroyed, ~Destroyed',
           [Next]_vars
    PROVE  Versions'
<1> USE DEF fsVars, lockVars, cacheVars, restVars, vars
<1>0. /\ Main \in Threads /\ Workers \subseteq Threads /\ Threads = Workers \cup {Main}
      /\ Main \notin Workers /\ NULL \notin Buffers /\ TypeOK /\ Locals /\ LockFollowsCode
  BY ServingAssumption DEF Threads, ServingInv
<1>a. /\ updates \in Nat /\ \A i \in Inodes : inode[i].version \in Nat
      /\ \A b \in Buffers : heap[b].version \in Nat
      /\ \A p \in Paths : Kept(p) => Content(p).version \in Nat
      /\ \A t \in Threads : th[t].pc \in {"free", "swap"} => heap[th[t].buf].version \in Nat
  BY <1>0 DEF TypeOK, Stats, EntryType, LocalType, Content, Kept, Entries, Locals
<1>1. ASSUME KeepsEntries, Still PROVE Versions'
  BY <1>0, <1>1 DEF Still, Outside, KeepsEntries, Versions, Content, File, Exists
<1>2. ASSUME KeepsEntries, BootAdd PROVE Versions'
  BY <1>0, <1>2, BootAddMoves DEF Moved, KeepsEntries, Versions, Content, File, Exists
<1>3. ASSUME NEW t \in Threads, KeepsEntries, LoadOpen(t) PROVE Versions'
  <2>1. th[t].pc = "open" /\ th[t].path \in Paths /\ (t \in Workers => Kept(th[t].path))
    BY <1>0, <1>3, LoadOpenMoves, InUseIsKept
  <2>2. /\ th'[t].fh = disk[th[t].path] /\ th'[t].path = th[t].path /\ th'[t].pc = "restat"
        /\ disk[th[t].path] \in Inodes /\ UNCHANGED <<disk, inode, updates, entry, heap>>
        /\ \A u \in Threads : u # t => th'[u] = th[u]
    BY <1>0, <1>3, LoadOpenMoves DEF Moved
  <2>3. Exists(th[t].path)
    BY <1>3 DEF LoadOpen
  <2>4. t \in Workers => Content(th[t].path).version <= inode[disk[th[t].path]].version
    BY <2>1, <2>3 DEF Versions, File
  <2> QED BY <1>0, <1>a, <1>3, <2>1, <2>2, <2>4 DEF KeepsEntries, Versions, Content, File, Exists
<1>4. ASSUME NEW t \in Threads, NEW b \in Buffers, KeepsEntries, LoadStat(t, b) PROVE Versions'
  BY <1>0, <1>4, LoadStatMoves DEF Moved, KeepsEntries, Versions, Content, File, Exists
<1>5. ASSUME NEW t \in Threads, KeepsEntries, LoadRead(t) PROVE Versions'
  <2>1. \A p \in Paths : Kept(p) => heap'[entry[p].content] = heap[entry[p].content]
    BY <1>0, <1>5, LoadReadFills, FilledElsewhere
  <2>2. /\ th[t].path \in Paths /\ th[t].pc = "load" /\ (t \in Workers => Kept(th[t].path))
        /\ th[t].fh \in Inodes /\ heap'[th[t].buf].version = inode[th[t].fh].version
    BY <1>0, <1>5, LoadReadMoves, LoadReadFills, InUseIsKept
  <2>3. \A u \in Threads : u # t => th'[u] = th[u] /\ th[u].pc \notin Loading
    BY <1>0, <1>5, <2>2, LoadReadMoves, SoleLoader DEF Moved, Loading
  <2> QED BY <1>0, <1>5, <2>1, <2>2, <2>3, LoadReadMoves DEF Moved, Loading, KeepsEntries,
          Versions, Content, File, Exists
<1>6. ASSUME NEW w \in Workers, KeepsEntries, LoadFail(w) PROVE Versions'
  BY <1>0, <1>6, LoadFailMoves DEF Moved, KeepsEntries, Versions, Content, File, Exists
<1>7. ASSUME NEW w \in Workers, KeepsEntries, LookupHit(w) PROVE Versions'
  BY <1>0, <1>7, LookupHitMoves DEF Moved, KeepsEntries, Versions, Content, File, Exists
<1>8. ASSUME NEW w \in Workers, KeepsEntries, StatCurrent(w) PROVE Versions'
  BY <1>0, <1>8, StatCurrentMoves DEF Moved, KeepsEntries, Versions, Content, File, Exists
<1>9. ASSUME NEW w \in Workers, KeepsEntries, StatStale(w) PROVE Versions'
  BY <1>0, <1>9, StatStaleMoves DEF Moved, KeepsEntries, Versions, Content, File, Exists
<1>10. ASSUME NEW w \in Workers, KeepsEntries, Upgrade(w) PROVE Versions'
  BY <1>0, <1>10, UpgradeMoves DEF Moved, KeepsEntries, Versions, Content, File, Exists
<1>11. ASSUME NEW w \in Workers, KeepsEntries, Relock(w) PROVE Versions'
  BY <1>0, <1>11, RelockMoves DEF Moved, KeepsEntries, Versions, Content, File, Exists
<1>12. ASSUME NEW w \in Workers, KeepsEntries, CacheHeader(w) PROVE Versions'
  BY <1>0, <1>12, CacheHeaderMoves DEF Moved, KeepsEntries, Versions, Content, File, Exists
<1>13. ASSUME NEW w \in Workers, KeepsEntries, DiskOpen(w) PROVE Versions'
  BY <1>0, <1>13, DiskOpenMoves DEF Moved, KeepsEntries, Versions, Content, File, Exists
<1>14. ASSUME NEW w \in Workers, NEW b \in Buffers, KeepsEntries, DiskSize(w, b) PROVE Versions'
  BY <1>0, <1>14, DiskSizeMoves DEF Moved, KeepsEntries, Versions, Content, File, Exists
<1>15. ASSUME NEW w \in Workers, KeepsEntries, DiskRead(w) PROVE Versions'
  <2>1. \A p \in Paths : Kept(p) => heap'[entry[p].content] = heap[entry[p].content]
    BY <1>0, <1>15, DiskReadFills, FilledElsewhere
  <2>2. \A u \in Threads : th[u].pc \in {"free", "swap"} => heap'[th[u].buf] = heap[th[u].buf]
    BY <1>15, LoadedElsewhere
  <2>3. \A u \in Threads : th'[u].pc \in {"restat", "load", "free", "swap"} => th'[u] = th[u]
    BY <1>0, <1>15, DiskReadMoves DEF Moved
  <2>4. \A u \in Workers : th[u].pc \in {"restat", "load", "free"} =>
           th[u].path \in Paths /\ Kept(th[u].path)
    BY InUseIsKept
  <2> QED BY <1>0, <1>15, <2>1, <2>2, <2>3, <2>4, DiskReadMoves DEF KeepsEntries, Versions,
          Content, File, Exists
<1>16. ASSUME NEW w \in Workers, KeepsEntries, DiskSend(w) PROVE Versions'
  BY <1>0, <1>16, DiskSendMoves DEF Moved, KeepsEntries, Versions, Content, File, Exists
<1>17. ASSUME NEW p \in Paths, KeepsEntries, Remove(p) PROVE Versions'
  <2>1. /\ inode' = inode /\ heap' = heap /\ th' = th /\ updates' = updates + 1 /\ updates \in Nat
        /\ disk'[p] = NULL /\ \A q \in Paths : q # p => disk'[q] = disk[q]
    BY <1>0, <1>17 DEF Remove, Tick, TypeOK
  <2>2. \A u \in Threads : th[u].pc \in {"restat", "load", "free", "swap"} => th[u].path \in Paths
    BY <1>0 DEF Locals
  <2> QED BY <1>0, <1>a, <1>17, <2>1, <2>2 DEF KeepsEntries, Versions, Content, File, Exists
<1>18. ASSUME NEW p \in Paths, NEW s \in Sizes, KeepsEntries, Publish(p, s) PROVE Versions'
  <2>1. /\ updates' = updates + 1 /\ updates \in Nat /\ th' = th /\ heap' = heap
    BY <1>0, <1>18, PublishEffect DEF TypeOK
  <2>2. PICK i \in Inodes :
           /\ disk' = [disk EXCEPT ![p] = i] /\ inode' = [inode EXCEPT ![i] = Written(s)]
           /\ \A q \in Paths : q # p => disk[q] # i
           /\ \A t \in Threads : th[t].fh = i => th[t].path = p /\ disk[p] = i
    BY <1>0, <1>18, PublishEffect
  <2>3. /\ disk'[p] = i /\ \A q \in Paths : q # p => disk'[q] = disk[q]
        /\ inode'[i].version = updates + 1 /\ \A j \in Inodes : j # i => inode'[j] = inode[j]
    BY <1>0, <2>1, <2>2 DEF TypeOK, Written
  <2>4. \A u \in Threads : /\ th[u].pc \in {"restat", "load", "free", "swap"} => th[u].path \in Paths
                           /\ th[u].pc \in {"restat", "load"} => th[u].fh \in Inodes
    BY <1>0 DEF Locals
  <2>5. \A q \in Paths : disk[q] # NULL => disk[q] \in Inodes
    BY <1>0 DEF TypeOK
  <2>6. \A j \in Inodes : inode'[j].version <= updates' /\ inode[j].version <= inode'[j].version
    BY <1>a, <2>1, <2>3 DEF Versions
  <2>7. \A q \in Paths : /\ q # p => (Exists(q)' <=> Exists(q)) /\ (Exists(q) => File(q)' = File(q))
                         /\ q = p => File(q)'.version = updates'
    BY <2>1, <2>2, <2>3, <2>5 DEF Exists, File
  <2>8. \A q \in Paths : Kept(q)' => /\ Content(q)'.version <= updates'
                                     /\ Exists(q)' => Content(q)'.version <= File(q)'.version
    BY <1>a, <1>18, <2>1, <2>7 DEF Versions, KeepsEntries, Content
  <2>9. \A u \in Threads : th[u].pc \in {"free", "swap"} =>
          /\ heap[th[u].buf].version <= updates'
          /\ \A q \in Paths : q = th[u].path /\ Exists(q)' => heap[th[u].buf].version <= File(q)'.version
    BY <1>a, <2>1, <2>7 DEF Versions
  <2>10. \A u \in Threads, q \in Paths :
          th[u].pc \in {"restat", "load"} /\ q = th[u].path /\ Exists(q)' =>
             inode'[th[u].fh].version <= File(q)'.version
    <3> TAKE u \in Threads, q \in Paths
    <3> HAVE th[u].pc \in {"restat", "load"} /\ q = th[u].path /\ Exists(q)'
    <3>1. th[u].fh \in Inodes
      BY <2>4
    <3>2. CASE q = p
      BY <2>6, <2>7, <3>1, <3>2
    <3>3. CASE q # p
      BY <2>2, <2>3, <2>7, <3>1, <3>3 DEF Versions
    <3> QED BY <3>2, <3>3
  <2>11. \A u \in Workers, q \in Paths : th[u].pc \in {"restat", "load"} /\ q = th[u].path =>
          Content(q).version <= inode'[th[u].fh].version
    <3> TAKE u \in Workers, q \in Paths
    <3> HAVE th[u].pc \in {"restat", "load"} /\ q = th[u].path
    <3>1. Content(q).version \in Nat /\ th[u].fh \in Inodes /\ inode[th[u].fh].version \in Nat
      BY <1>0, <1>a, <2>4, InUseIsKept
    <3>2. Content(q).version <= inode[th[u].fh].version /\ inode'[th[u].fh].version \in Nat
      BY <1>a, <2>1, <2>3, <3>1 DEF Versions
    <3> QED BY <2>6, <3>1, <3>2
  <2>12. \A u \in Workers : th[u].pc = "free" => Content(th[u].path).version <= heap[th[u].buf].version
    BY DEF Versions
  <2>13. ASSUME NEW t \in Threads, th'[t].pc \in {"free", "swap"}
         PROVE  /\ heap'[th'[t].buf].version <= updates'
                /\ disk'[th'[t].path] # NULL =>
                      heap'[th'[t].buf].version <= inode'[disk'[th'[t].path]].version
    <3>1. th[t].path \in Paths
      BY <2>1, <2>4, <2>13
    <3> QED BY <2>1, <2>9, <2>13, <3>1 DEF Exists, File
  <2>14. ASSUME NEW t \in Threads, th'[t].pc \in {"restat", "load"}, disk'[th'[t].path] # NULL
         PROVE  inode'[th'[t].fh].version <= inode'[disk'[th'[t].path]].version
    <3>1. th[t].path \in Paths
      BY <2>1, <2>4, <2>14
    <3> QED BY <2>1, <2>10, <2>14, <3>1 DEF Exists, File
  <2>15. ASSUME NEW w \in Workers, th'[w].pc \in {"restat", "load"}
         PROVE  heap'[entry'[th'[w].path].content].version <= inode'[th'[w].fh].version
    <3>1. th[w].path \in Paths
      BY <1>0, <2>1, <2>4, <2>15
    <3> QED BY <1>18, <2>1, <2>11, <2>15, <3>1 DEF KeepsEntries, Content
  <2>16. ASSUME NEW w \in Workers, th'[w].pc = "free"
         PROVE  heap'[entry'[th'[w].path].content].version <= heap'[th'[w].buf].version
    BY <1>18, <2>1, <2>12, <2>16 DEF KeepsEntries, Content
  <2> QED BY <2>6, <2>8, <2>13, <2>14, <2>15, <2>16 DEF Versions, Exists, File, Content
<1>19. ASSUME NEW w \in Workers, ReloadFree(w) PROVE Versions'
  <2>1. \A u \in Threads : th'[u].pc # "swap" => th'[u] = th[u]
    BY <1>0, <1>19, ReloadFreeMoves DEF Moved
  <2> QED BY <1>0, <1>19, <2>1, ReloadFreeMoves, ReloadFreeKept DEF Moved, Versions, Content,
          File, Exists
<1>20. ASSUME NEW t \in Threads, LoadSwap(t) PROVE Versions'
  <2>1. th[t].pc \in Loading /\ th[t].pc = "swap" /\ th[t].path \in Paths
    BY <1>0, <1>20, LoadSwapMoves DEF Loading
  <2>2. \A u \in Threads : th'[u].pc \notin Loading
    BY <1>0, <1>20, <2>1, SoleLoader, LoadSwapMoves DEF Moved, Loading
  <2>3. UNCHANGED <<disk, inode, updates, heap>>
    BY <1>0, <1>20, LoadSwapMoves
  <2> QED BY <1>0, <1>20, <2>1, <2>2, <2>3, LoadSwapKept, LoadSwapStores
          DEF Loading, Versions, Content, File, Exists
<1>21. CASE DestroyFree
  BY <1>21 DEF DestroyFree, Destroyed
<1> QED
  BY <1>0, <1>1, <1>2, <1>3, <1>4, <1>5, <1>6, <1>7, <1>8, <1>9, <1>10, <1>11, <1>12, <1>13,
     <1>14, <1>15, <1>16, <1>17, <1>18, <1>19, <1>20, <1>21, StepKinds DEF FileStep

CacheInv ==
    /\ ServingInv /\ Entries /\ OpenFiles
    /\ Lost \/ Owners
    /\ Destroyed \/ (EntrySizes /\ Versions)

\* The parts support each other: the lock makes a reload the sole user of the
\* cache, which keeps each buffer with one owner, which keeps the contents of
\* the entries from being overwritten, which keeps sizes and versions true.
THEOREM CacheInvariant == Spec => []CacheInv
<1>1. Init => Entries /\ Owners /\ EntrySizes /\ OpenFiles /\ Versions
  BY InitEntries, InitOwners, InitSizes, InitFiles, InitVersions
<1>2. ASSUME CacheInv, [Next]_vars
      PROVE  (Entries /\ OpenFiles /\ (Lost \/ Owners) /\ (Destroyed \/ (EntrySizes /\ Versions)))'
  <2>0. ServingInv /\ TypeOK /\ Locals /\ Entries /\ OpenFiles
    BY <1>2 DEF CacheInv, ServingInv
  <2>1. Entries' /\ OpenFiles'
    BY <1>2, <2>0, EntriesStep, FilesStep
  <2>2. Destroyed => Destroyed' /\ (Lost => Lost')
    <3>1. Destroyed => closer # NULL
      BY <2>0 DEF Locals, Destroyed
    <3> QED BY <1>2, <2>0, <3>1, Interrupted DEF Lost, Torn
  <2>3. (Lost \/ Owners)'
    BY <1>2, <2>0, <2>2, OwnersStep DEF CacheInv, Lost
  <2>4. (Destroyed \/ (EntrySizes /\ Versions))'
    BY <1>2, <2>0, <2>2, SizesStep, VersionsStep DEF CacheInv, Lost
  <2> QED BY <2>1, <2>3, <2>4
<1>3. CacheInv /\ [Next]_vars =>
        (Entries /\ OpenFiles /\ (Lost \/ Owners) /\ (Destroyed \/ (EntrySizes /\ Versions)))'
  BY <1>2
<1> QED BY <1>1, <1>3, ServingInvariant, PTL DEF Spec, CacheInv

\* No content of the cache is read, sent or freed after it was freed, no two
\* owners share a buffer and none leaks, however requests, reloads, failures
\* and a shutdown on any thread interleave; except for the one entry whose
\* reload the shutdown interrupts between free and swap.
THEOREM BuffersAreSafe == Spec => []BuffersSafe
<1>1. CacheInv => BuffersSafe
  BY OwnersAreSafe DEF CacheInv
<1> QED BY <1>1, CacheInvariant, PTL

\* The Content-Length of a cached file is the length of the body that follows.
THEOREM HeaderAnnouncesBody == Spec => []HeaderMatchesBody
<1>1. CacheInv => HeaderMatchesBody
  BY SizesMatch DEF CacheInv
<1> QED BY <1>1, CacheInvariant, PTL

\* An entry changes only when nobody reads the cache, and a reload never puts
\* an older content in the place of a newer one.
THEOREM ReloadsGoForward == Spec => ReloadsForward
<1>1. ASSUME CacheInv, [Next]_vars PROVE \A p \in Cached : entry'[p] # entry[p] => readers = {}
  <2>0. ServingInv /\ Entries /\ TypeOK /\ Locals
    BY <1>1 DEF CacheInv, ServingInv
  <2>1. CASE KeepsEntries
    BY <2>1 DEF KeepsEntries
  <2>2. CASE \E w \in Workers : ReloadFree(w)
    BY <2>0, <2>2, ReloadFreeKept
  <2>3. ASSUME NEW t \in Threads, LoadSwap(t) PROVE readers = {}
    <3>1. th[t].pc \in Loading
      BY <2>0, <2>3, LoadSwapMoves DEF Loading
    <3> QED BY <2>0, <3>1, SoleLoader
  <2>4. CASE DestroyFree
    BY <2>4 DEF DestroyFree
  <2> QED BY <1>1, <2>0, <2>1, <2>2, <2>3, <2>4, StepKinds
<1>2. ASSUME CacheInv, [Next]_vars
      PROVE  \A w \in Workers : th[w].pc = "free" /\ th'[w].pc = "swap" =>
                heap[th[w].buf].version >= Content(th[w].path).version
  <2> SUFFICES ASSUME NEW w \in Workers, th[w].pc = "free", th'[w].pc = "swap"
               PROVE  heap[th[w].buf].version >= Content(th[w].path).version
    OBVIOUS
  <2>0. ServingInv /\ TypeOK /\ Locals /\ w \in Threads /\ NULL \notin Threads
    BY <1>2, ServingAssumption DEF CacheInv, ServingInv, Threads
  <2>1. w # closer
    BY <1>2, <2>0, Interrupted
  <2>2. ~Destroyed
    BY <2>0, <2>1, SoleLoader DEF Loading
  <2>3. Content(th[w].path).version <= heap[th[w].buf].version
    BY <1>2, <2>2 DEF CacheInv, Versions
  <2> QED BY <2>3
<1>3. CacheInv /\ [Next]_vars =>
        [/\ \A p \in Cached : entry'[p] # entry[p] => readers = {}
         /\ \A w \in Workers : th[w].pc = "free" /\ th'[w].pc = "swap" =>
               heap[th[w].buf].version >= Content(th[w].path).version]_vars
  BY <1>1, <1>2
<1> QED BY <1>3, CacheInvariant, PTL DEF Spec, ReloadsForward

\* The publishers only rewrite and remove files, and never twice in a second.
Rewriting == "replace" \notin Updates /\ 0 \notin Delays

\* Without replacement a path keeps its file, and a modification time tells
\* which content it belongs to.
Times ==
    /\ \A i \in Inodes : inode[i].mtime <= clock
    /\ \A t \in Threads : th[t].pc \in {"restat", "load"} /\ Exists(th[t].path) =>
          th[t].fh = disk[th[t].path]
    /\ \A t \in Threads : th[t].pc = "load" /\ Exists(th[t].path) =>
          LET f == File(th[t].path) IN
          /\ th[t].st.mtime <= f.mtime
          /\ th[t].st.mtime = f.mtime => th[t].st.size = f.size
    /\ \A t \in Threads : th[t].pc \in {"free", "swap"} /\ Exists(th[t].path) =>
          LET f == File(th[t].path) IN
          /\ th[t].st.mtime <= f.mtime
          /\ th[t].st.mtime = f.mtime => /\ heap[th[t].buf].version = f.version
                                         /\ heap[th[t].buf].length = f.size
    /\ \A p \in Paths : Kept(p) /\ Exists(p) =>
          /\ entry[p].mtime <= File(p).mtime
          /\ entry[p].mtime = File(p).mtime => /\ Content(p).version = File(p).version
                                               /\ entry[p].size = File(p).size

\* At the start all files are as old as the clock.
LEMMA InitTimes == Init => Times
<1> SUFFICES ASSUME Init PROVE Times
  OBVIOUS
<1>1. \A t \in Threads : th[t].pc \in {"boot", "idle"}
  BY DEF Init, Local, Idle
<1>2. \A p \in Paths : ~Kept(p)
  BY DEF Init, Cached, Kept
<1>3. clock = 1 /\ \A i \in Inodes : inode[i].mtime \in {0, 1}
  BY DEF Init, NoStat
<1> QED BY <1>1, <1>2, <1>3 DEF Times

\* Rewriting a file in place gives it a modification time nobody has seen.
LEMMA RewriteEffect ==
    ASSUME Rewriting, TypeOK, OpenFiles, Times, NEW p \in Paths, NEW s \in Sizes, Publish(p, s)
    PROVE  /\ disk' = disk /\ disk[p] \in Inodes /\ th' = th /\ heap' = heap
           /\ clock \in Nat /\ clock' \in Nat /\ clock < clock'
           /\ File(p)'.mtime = clock'
           /\ \A j \in Inodes : j # disk[p] => inode'[j] = inode[j]
           /\ \A q \in Paths : q # p /\ Exists(q) => File(q)' = File(q)
<1>1. /\ th' = th /\ heap' = heap /\ \E d \in Delays : clock' = clock + d
  BY PublishEffect
<1>2. PICK i \in Inodes :
        /\ disk' = [disk EXCEPT ![p] = i] /\ inode' = [inode EXCEPT ![i] = Written(s)]
        /\ \A q \in Paths : q # p => disk[q] # i
        /\ disk[p] = i
  BY PublishEffect DEF Rewriting
<1>3. clock \in Nat /\ clock' \in Nat /\ clock < clock'
  BY <1>1, ServingAssumption DEF Rewriting, TypeOK
<1>4. /\ disk' = disk /\ inode'[i].mtime = clock'
      /\ \A j \in Inodes : j # i => inode'[j] = inode[j]
  BY <1>2 DEF TypeOK, Written
<1>5. \A q \in Paths : q # p /\ Exists(q) => File(q)' = File(q)
  BY <1>2, <1>4 DEF Exists, File, TypeOK
<1> QED BY <1>1, <1>2, <1>3, <1>4, <1>5 DEF File

\* Every step keeps modification times with the contents they belong to.
LEMMA TimesStep ==
    ASSUME Rewriting, ServingInv, Entries, Owners, OpenFiles, Times, ~Destroyed, ~Destroyed',
           [Next]_vars
    PROVE  Times'
<1> USE DEF fsVars, lockVars, cacheVars, restVars, vars
<1>0. /\ Main \in Threads /\ Workers \subseteq Threads /\ Threads = Workers \cup {Main}
      /\ Main \notin Workers /\ NULL \notin Buffers /\ TypeOK /\ Locals /\ LockFollowsCode
  BY ServingAssumption DEF Threads, ServingInv
<1>a. /\ clock \in Nat /\ \A i \in Inodes : inode[i].mtime \in Nat /\ inode[i].size \in Nat
      /\ \A p \in Paths : entry[p].mtime \in Nat /\ (Exists(p) => disk[p] \in Inodes)
      /\ \A t \in Threads : th[t].st.mtime \in Nat /\ th[t].st.size \in Nat
  BY <1>0 DEF TypeOK, Stats, EntryType, LocalType, Exists
<1>1. ASSUME KeepsEntries, Still PROVE Times'
  BY <1>0, <1>1 DEF Still, Outside, KeepsEntries, Times, Content, File, Exists
<1>2. ASSUME KeepsEntries, BootAdd PROVE Times'
  BY <1>0, <1>2, BootAddMoves DEF Moved, KeepsEntries, Times, Content, File, Exists
<1>3. ASSUME NEW t \in Threads, KeepsEntries, LoadOpen(t) PROVE Times'
  BY <1>0, <1>3, LoadOpenMoves DEF Moved, KeepsEntries, Times, Content, File, Exists
<1>4. ASSUME NEW t \in Threads, NEW b \in Buffers, KeepsEntries, LoadStat(t, b) PROVE Times'
  <2>1. /\ th'[t].pc = "load" /\ th'[t].path = th[t].path /\ th'[t].fh = th[t].fh
        /\ th'[t].st = inode[disk[th[t].path]] /\ th[t].pc = "restat" /\ disk[th[t].path] \in Inodes
        /\ UNCHANGED <<disk, inode, clock, heap>> /\ \A u \in Threads : u # t => th'[u] = th[u]
    BY <1>0, <1>4, LoadStatMoves DEF Moved, File
  <2>2. inode[disk[th[t].path]].mtime <= inode[disk[th[t].path]].mtime
    BY <1>a, <2>1
  <2> QED BY <1>0, <1>4, <2>1, <2>2 DEF KeepsEntries, Times, Content, File, Exists
<1>5. ASSUME NEW t \in Threads, KeepsEntries, LoadRead(t) PROVE Times'
  <2>1. \A p \in Paths : Kept(p) => heap'[entry[p].content] = heap[entry[p].content]
    BY <1>0, <1>5, LoadReadFills, FilledElsewhere
  <2>2. /\ th[t].path \in Paths /\ th[t].pc = "load"
        /\ heap'[th[t].buf].version = inode[th[t].fh].version
        /\ heap'[th[t].buf].length = MinOf(th[t].st.size, inode[th[t].fh].size)
    BY <1>0, <1>5, LoadReadMoves, LoadReadFills
  <2>3. /\ \A u \in Threads : u # t => th'[u] = th[u] /\ th[u].pc \notin Loading
        /\ th'[t].pc \in {"free", "swap"} /\ th'[t].path = th[t].path /\ th'[t].buf = th[t].buf
        /\ th'[t].st = th[t].st /\ UNCHANGED <<disk, inode, clock>>
    BY <1>0, <1>5, <2>2, LoadReadMoves, SoleLoader DEF Moved, Loading
  <2>4. Exists(th[t].path) =>
          LET f == File(th[t].path) IN
          /\ th[t].st.mtime <= f.mtime
          /\ th[t].st.mtime = f.mtime => /\ heap'[th[t].buf].version = f.version
                                         /\ heap'[th[t].buf].length = f.size
    BY <1>a, <2>2 DEF Times, MinOf, File
  <2> QED BY <1>0, <1>5, <2>1, <2>2, <2>3, <2>4 DEF Loading, KeepsEntries, Times, Content, File,
          Exists
<1>6. ASSUME NEW w \in Workers, KeepsEntries, LoadFail(w) PROVE Times'
  BY <1>0, <1>6, LoadFailMoves DEF Moved, KeepsEntries, Times, Content, File, Exists
<1>7. ASSUME NEW w \in Workers, KeepsEntries, LookupHit(w) PROVE Times'
  BY <1>0, <1>7, LookupHitMoves DEF Moved, KeepsEntries, Times, Content, File, Exists
<1>8. ASSUME NEW w \in Workers, KeepsEntries, StatCurrent(w) PROVE Times'
  BY <1>0, <1>8, StatCurrentMoves DEF Moved, KeepsEntries, Times, Content, File, Exists
<1>9. ASSUME NEW w \in Workers, KeepsEntries, StatStale(w) PROVE Times'
  BY <1>0, <1>9, StatStaleMoves DEF Moved, KeepsEntries, Times, Content, File, Exists
<1>10. ASSUME NEW w \in Workers, KeepsEntries, Upgrade(w) PROVE Times'
  BY <1>0, <1>10, UpgradeMoves DEF Moved, KeepsEntries, Times, Content, File, Exists
<1>11. ASSUME NEW w \in Workers, KeepsEntries, Relock(w) PROVE Times'
  BY <1>0, <1>11, RelockMoves DEF Moved, KeepsEntries, Times, Content, File, Exists
<1>12. ASSUME NEW w \in Workers, KeepsEntries, CacheHeader(w) PROVE Times'
  BY <1>0, <1>12, CacheHeaderMoves DEF Moved, KeepsEntries, Times, Content, File, Exists
<1>13. ASSUME NEW w \in Workers, KeepsEntries, DiskOpen(w) PROVE Times'
  BY <1>0, <1>13, DiskOpenMoves DEF Moved, KeepsEntries, Times, Content, File, Exists
<1>14. ASSUME NEW w \in Workers, NEW b \in Buffers, KeepsEntries, DiskSize(w, b) PROVE Times'
  BY <1>0, <1>14, DiskSizeMoves DEF Moved, KeepsEntries, Times, Content, File, Exists
<1>15. ASSUME NEW w \in Workers, KeepsEntries, DiskRead(w) PROVE Times'
  <2>1. \A p \in Paths : Kept(p) => heap'[entry[p].content] = heap[entry[p].content]
    BY <1>0, <1>15, DiskReadFills, FilledElsewhere
  <2>2. \A u \in Threads : th[u].pc \in {"free", "swap"} => heap'[th[u].buf] = heap[th[u].buf]
    BY <1>15, LoadedElsewhere
  <2>3. \A u \in Threads : th'[u].pc \in {"restat", "load", "free", "swap"} => th'[u] = th[u]
    BY <1>0, <1>15, DiskReadMoves DEF Moved
  <2> QED BY <1>0, <1>15, <2>1, <2>2, <2>3, DiskReadMoves DEF KeepsEntries, Times, Content, File,
          Exists
<1>16. ASSUME NEW w \in Workers, KeepsEntries, DiskSend(w) PROVE Times'
  BY <1>0, <1>16, DiskSendMoves DEF Moved, KeepsEntries, Times, Content, File, Exists
<1>17. ASSUME NEW p \in Paths, KeepsEntries, Remove(p) PROVE Times'
  <2>1. /\ inode' = inode /\ heap' = heap /\ th' = th
        /\ clock \in Nat /\ clock' \in Nat /\ clock <= clock'
        /\ disk'[p] = NULL /\ \A q \in Paths : q # p => disk'[q] = disk[q]
    BY <1>0, <1>17, ServingAssumption DEF Remove, Tick, TypeOK
  <2>2. \A u \in Threads : th[u].pc \in {"restat", "load", "free", "swap"} => th[u].path \in Paths
    BY <1>0 DEF Locals
  <2> QED BY <1>0, <1>a, <1>17, <2>1, <2>2 DEF KeepsEntries, Times, Content, File, Exists
<1>18. ASSUME NEW p \in Paths, NEW s \in Sizes, KeepsEntries, Publish(p, s) PROVE Times'
  <2>1. /\ disk' = disk /\ disk[p] \in Inodes /\ th' = th /\ heap' = heap
        /\ clock \in Nat /\ clock' \in Nat /\ clock < clock'
        /\ File(p)'.mtime = clock'
        /\ \A j \in Inodes : j # disk[p] => inode'[j] = inode[j]
        /\ \A q \in Paths : q # p /\ Exists(q) => File(q)' = File(q)
    BY <1>0, <1>18, RewriteEffect
  <2>2. \A u \in Threads : th[u].pc \in {"restat", "load", "free", "swap"} => th[u].path \in Paths
    BY <1>0 DEF Locals
  <2>3. File(p).mtime \in Nat /\ File(p).mtime < clock' /\ Exists(p)
    BY <1>a, <2>1, ServingAssumption DEF Times, File, Exists
  <2>4. \A j \in Inodes : inode'[j].mtime <= clock'
    BY <1>a, <2>1 DEF Times, File
  <2>5. ASSUME NEW t \in Threads, th'[t].pc \in {"load", "free", "swap"}, th[t].path = p, Exists(p)'
        PROVE  th'[t].st.mtime < File(p)'.mtime
    BY <1>a, <2>1, <2>3, <2>5 DEF Times
  <2>6. Kept(p) => entry[p].mtime < File(p)'.mtime
    BY <1>a, <2>1, <2>3 DEF Times
  <2>7. ASSUME NEW q \in Paths, Kept(q)', Exists(q)'
        PROVE  /\ entry'[q].mtime <= File(q)'.mtime
               /\ entry'[q].mtime = File(q)'.mtime => /\ Content(q)'.version = File(q)'.version
                                                      /\ entry'[q].size = File(q)'.size
    <3>1. CASE q = p
      BY <1>a, <1>18, <2>1, <2>6, <2>7, <3>1 DEF KeepsEntries
    <3>2. CASE q # p
      <4>1. Exists(q) /\ File(q)' = File(q) /\ Kept(q) /\ entry' = entry /\ Content(q)' = Content(q)
        BY <1>18, <2>1, <2>7, <3>2 DEF KeepsEntries, Exists, Content
      <4> QED BY <4>1 DEF Times
    <3> QED BY <3>1, <3>2
  <2>8. ASSUME NEW t \in Threads, th'[t].pc \in {"restat", "load"}, Exists(th[t].path)'
        PROVE  th'[t].fh = disk'[th'[t].path]
    BY <2>1, <2>8 DEF Times, Exists
  <2>9. ASSUME NEW t \in Threads, th'[t].pc = "load", disk'[th'[t].path] # NULL
        PROVE  LET f == inode'[disk'[th'[t].path]] IN
               /\ th'[t].st.mtime <= f.mtime
               /\ th'[t].st.mtime = f.mtime => th'[t].st.size = f.size
    <3>1. CASE th[t].path = p
      BY <1>a, <2>1, <2>5, <2>9, <3>1 DEF Exists, File
    <3>2. CASE th[t].path # p
      <4>1. File(th[t].path)' = File(th[t].path) /\ Exists(th[t].path) /\ th[t].pc = "load"
        BY <2>1, <2>2, <2>9, <3>2 DEF Exists, File
      <4> QED BY <2>1, <4>1 DEF Times, File
    <3> QED BY <3>1, <3>2
  <2>10. ASSUME NEW t \in Threads, th'[t].pc \in {"free", "swap"}, disk'[th'[t].path] # NULL
        PROVE  LET f == inode'[disk'[th'[t].path]] IN
               /\ th'[t].st.mtime <= f.mtime
               /\ th'[t].st.mtime = f.mtime => /\ heap'[th'[t].buf].version = f.version
                                              /\ heap'[th'[t].buf].length = f.size
    <3>1. CASE th[t].path = p
      BY <1>a, <2>1, <2>5, <2>10, <3>1 DEF Exists, File
    <3>2. CASE th[t].path # p
      <4>1. File(th[t].path)' = File(th[t].path) /\ Exists(th[t].path) /\ th[t].pc \in {"free", "swap"}
        BY <2>1, <2>2, <2>10, <3>2 DEF Exists, File
      <4> QED BY <2>1, <4>1 DEF Times, File
    <3> QED BY <3>1, <3>2
  <2> QED BY <2>4, <2>7, <2>8, <2>9, <2>10 DEF Times, Exists, File
<1>19. ASSUME NEW w \in Workers, ReloadFree(w) PROVE Times'
  BY <1>0, <1>19, ReloadFreeMoves, ReloadFreeKept DEF Moved, Times, Content, File, Exists
<1>20. ASSUME NEW t \in Threads, LoadSwap(t) PROVE Times'
  <2>1. th[t].pc \in Loading /\ th[t].pc = "swap" /\ th[t].path \in Paths
    BY <1>0, <1>20, LoadSwapMoves DEF Loading
  <2>2. \A u \in Threads : th'[u].pc \notin Loading
    BY <1>0, <1>20, <2>1, SoleLoader, LoadSwapMoves DEF Moved, Loading
  <2>3. UNCHANGED <<disk, inode, clock, heap>>
    BY <1>0, <1>20, LoadSwapMoves
  <2> QED BY <1>0, <1>20, <2>1, <2>2, <2>3, LoadSwapKept, LoadSwapStores
          DEF Loading, Times, Content, File, Exists
<1>21. CASE DestroyFree
  BY <1>21 DEF DestroyFree, Destroyed
<1> QED
  BY <1>0, <1>1, <1>2, <1>3, <1>4, <1>5, <1>6, <1>7, <1>8, <1>9, <1>10, <1>11, <1>12, <1>13,
     <1>14, <1>15, <1>16, <1>17, <1>18, <1>19, <1>20, <1>21, StepKinds DEF FileStep

\* Where the version that a request's freshness check saw has got to.
Seen ==
    /\ \A w \in Workers : th[w].pc \in {"upgrade", "open"} =>
          /\ th[w].seen <= updates
          /\ Exists(th[w].path) => th[w].seen <= File(th[w].path).version
    /\ \A w \in Workers : th[w].pc \in {"restat", "load"} => th[w].seen <= inode[th[w].fh].version
    /\ \A w \in Workers : th[w].pc \in {"free", "swap"} => th[w].seen <= heap[th[w].buf].version
    /\ \A w \in Workers : th[w].pc \in {"relock", "header", "body"} /\ Kept(th[w].path) =>
          th[w].seen <= Content(th[w].path).version
    /\ \A w, u \in Workers :
          th[w].pc = "relock" /\ th[u].pc = "swap" /\ th[u].path = th[w].path =>
             th[w].seen <= heap[th[u].buf].version

\* At the start no request has seen anything.
LEMMA InitSeen == Init => Seen
<1> SUFFICES ASSUME Init PROVE Seen
  OBVIOUS
<1>1. \A w \in Workers : th[w].pc = "idle"
  BY ServingAssumption DEF Init, Threads, Local, Idle
<1> QED BY <1>1 DEF Seen

\* Every step keeps what a request saw below what it will be answered with.
LEMMA SeenStep ==
    ASSUME ServingInv, Entries, Owners, OpenFiles, Versions, Times, Seen, ~Destroyed, ~Destroyed',
           [Next]_vars
    PROVE  Seen'
<1> USE DEF fsVars, lockVars, cacheVars, restVars, vars
<1>0. /\ Main \in Threads /\ Workers \subseteq Threads /\ Threads = Workers \cup {Main}
      /\ Main \notin Workers /\ NULL \notin Buffers /\ TypeOK /\ Locals /\ LockFollowsCode
  BY ServingAssumption DEF Threads, ServingInv
<1>a. /\ updates \in Nat
      /\ \A i \in Inodes : inode[i].version \in Nat /\ inode[i].mtime \in Nat
      /\ \A p \in Paths : entry[p].mtime \in Nat /\ (Exists(p) => disk[p] \in Inodes)
      /\ \A p \in Paths : Kept(p) => Content(p).version \in Nat
      /\ \A t \in Threads : th[t].seen \in Nat
      /\ \A t \in Threads : th[t].pc \in {"free", "swap"} => heap[th[t].buf].version \in Nat
  <2>1. \A p \in Paths : Kept(p) => entry[p].content \in Buffers
    BY <1>0 DEF TypeOK, EntryType, Kept, Entries
  <2>2. \A t \in Threads : th[t].seen \in Nat /\ (th[t].pc \in {"free", "swap"} => th[t].buf \in Buffers)
    BY <1>0 DEF TypeOK, LocalType, Locals
  <2> QED BY <1>0, <2>1, <2>2 DEF TypeOK, Stats, EntryType, Exists, Content
<1>b. \A w \in Workers : th[w].pc \in {"relock", "header", "body"} => th[w].path \in Paths
  BY <1>0 DEF Locals
<1>1. ASSUME KeepsEntries, Still PROVE Seen'
  BY <1>0, <1>b, <1>1 DEF Still, Outside, KeepsEntries, Seen, Content, File, Exists
<1>2. ASSUME KeepsEntries, BootAdd PROVE Seen'
  BY <1>0, <1>b, <1>2, BootAddMoves DEF Moved, KeepsEntries, Seen, Content, File, Exists
<1>3. ASSUME NEW t \in Threads, KeepsEntries, LoadOpen(t) PROVE Seen'
  <2>1. th[t].pc = "open" /\ Exists(th[t].path)
    BY <1>0, <1>3, LoadOpenMoves DEF LoadOpen
  <2>2. t \in Workers => th[t].seen <= inode[disk[th[t].path]].version
    BY <2>1 DEF Seen, File
  <2> QED BY <1>0, <1>b, <1>3, <2>2, LoadOpenMoves DEF Moved, KeepsEntries, Seen, Content, File,
          Exists
<1>4. ASSUME NEW t \in Threads, NEW b \in Buffers, KeepsEntries, LoadStat(t, b) PROVE Seen'
  BY <1>0, <1>b, <1>4, LoadStatMoves DEF Moved, KeepsEntries, Seen, Content, File, Exists
<1>5. ASSUME NEW t \in Threads, KeepsEntries, LoadRead(t) PROVE Seen'
  <2>1. \A p \in Paths : Kept(p) => heap'[entry[p].content] = heap[entry[p].content]
    BY <1>0, <1>5, LoadReadFills, FilledElsewhere
  <2>2. th[t].pc = "load" /\ heap'[th[t].buf].version = inode[th[t].fh].version
    BY <1>0, <1>5, LoadReadMoves, LoadReadFills
  <2>3. /\ \A u \in Threads : u # t => th'[u] = th[u] /\ th[u].pc \notin Loading
        /\ th'[t].pc \in {"free", "swap"} /\ (t \in Workers => th'[t].pc = "free")
        /\ th'[t].path = th[t].path /\ th'[t].buf = th[t].buf /\ th'[t].seen = th[t].seen
        /\ UNCHANGED <<disk, inode, updates>>
    BY <1>0, <1>5, <2>2, LoadReadMoves, SoleLoader DEF Moved, Loading
  <2>5. \A u \in Workers : u # t => th'[u].pc \notin Loading
    BY <1>0, <2>3
  <2> QED BY <1>0, <1>5, <2>1, <2>2, <2>3, <2>5, <1>b DEF Loading, KeepsEntries, Seen, Content,
          File, Exists
<1>6. ASSUME NEW w \in Workers, KeepsEntries, LoadFail(w) PROVE Seen'
  <2>1. /\ th[w].path \in Paths /\ th'[w].pc = "relock" /\ th'[w].path = th[w].path /\ th'[w].seen = 0
        /\ UNCHANGED <<disk, inode, updates, heap>> /\ \A u \in Threads : u # w => th'[u] = th[u]
    BY <1>0, <1>6, LoadFailMoves DEF Moved
  <2>2. \A u \in Threads : th[u].pc = "swap" => heap[th[u].buf].version \in Nat
    BY <1>a
  <2>3. Kept(th[w].path) => 0 <= Content(th[w].path).version
    BY <1>a, <2>1
  <2> QED BY <1>0, <1>6, <2>1, <2>2, <2>3, <1>b DEF KeepsEntries, Seen, Content, File, Exists
<1>7. ASSUME NEW w \in Workers, KeepsEntries, LookupHit(w) PROVE Seen'
  BY <1>0, <1>b, <1>7, LookupHitMoves DEF Moved, KeepsEntries, Seen, Content, File, Exists
<1>8. ASSUME NEW w \in Workers, KeepsEntries, StatCurrent(w) PROVE Seen'
  <2>1. /\ th[w].pc = "stat" /\ th[w].path \in Paths /\ ~Newer(th[w].path)
        /\ th'[w].pc = "header" /\ th'[w].path = th[w].path
        /\ th'[w].seen = IF Exists(th[w].path) THEN File(th[w].path).version ELSE 0
        /\ UNCHANGED <<disk, inode, updates, heap>> /\ \A u \in Threads : u # w => th'[u] = th[u]
    BY <1>0, <1>8, StatCurrentMoves DEF Moved
  <2>2. Kept(th[w].path)
    BY <2>1, InUseIsKept DEF Reading
  <2>3. Exists(th[w].path) => Content(th[w].path).version = File(th[w].path).version
    BY <1>a, <2>1, <2>2 DEF Times, Newer, File
  <2>4. th'[w].seen <= Content(th[w].path).version
    BY <1>a, <2>1, <2>2, <2>3
  <2> QED BY <1>0, <1>b, <1>8, <2>1, <2>4 DEF KeepsEntries, Seen, Content, File, Exists
<1>9. ASSUME NEW w \in Workers, KeepsEntries, StatStale(w) PROVE Seen'
  <2>1. /\ th[w].path \in Paths /\ disk[th[w].path] \in Inodes
        /\ th'[w].pc = "upgrade" /\ th'[w].path = th[w].path /\ th'[w].seen = File(th[w].path).version
        /\ UNCHANGED <<disk, inode, updates, heap>> /\ \A u \in Threads : u # w => th'[u] = th[u]
    BY <1>0, <1>9, StatStaleMoves DEF Moved
  <2>2. File(th[w].path).version <= updates /\ File(th[w].path).version <= File(th[w].path).version
    BY <1>a, <2>1 DEF Versions, File
  <2> QED BY <1>0, <1>b, <1>9, <2>1, <2>2 DEF KeepsEntries, Seen, Content, File, Exists
<1>10. ASSUME NEW w \in Workers, KeepsEntries, Upgrade(w) PROVE Seen'
  BY <1>0, <1>b, <1>10, UpgradeMoves DEF Moved, KeepsEntries, Seen, Content, File, Exists
<1>11. ASSUME NEW w \in Workers, KeepsEntries, Relock(w) PROVE Seen'
  BY <1>0, <1>b, <1>11, RelockMoves DEF Moved, KeepsEntries, Seen, Content, File, Exists
<1>12. ASSUME NEW w \in Workers, KeepsEntries, CacheHeader(w) PROVE Seen'
  BY <1>0, <1>b, <1>12, CacheHeaderMoves DEF Moved, KeepsEntries, Seen, Content, File, Exists
<1>13. ASSUME NEW w \in Workers, KeepsEntries, DiskOpen(w) PROVE Seen'
  BY <1>0, <1>b, <1>13, DiskOpenMoves DEF Moved, KeepsEntries, Seen, Content, File, Exists
<1>14. ASSUME NEW w \in Workers, NEW b \in Buffers, KeepsEntries, DiskSize(w, b) PROVE Seen'
  BY <1>0, <1>b, <1>14, DiskSizeMoves DEF Moved, KeepsEntries, Seen, Content, File, Exists
<1>15. ASSUME NEW w \in Workers, KeepsEntries, DiskRead(w) PROVE Seen'
  <2>1. \A p \in Paths : Kept(p) => heap'[entry[p].content] = heap[entry[p].content]
    BY <1>0, <1>15, DiskReadFills, FilledElsewhere
  <2>2. \A u \in Threads : th[u].pc \in {"free", "swap"} => heap'[th[u].buf] = heap[th[u].buf]
    BY <1>15, LoadedElsewhere
  <2>3. /\ \A u \in Threads : u # w => th'[u] = th[u]
        /\ th'[w].pc = "send" /\ UNCHANGED <<disk, inode, updates>>
    BY <1>0, <1>15, DiskReadMoves DEF Moved
  <2> QED BY <1>0, <1>15, <2>1, <2>2, <2>3, <1>b DEF KeepsEntries, Seen, Content, File, Exists
<1>16. ASSUME NEW w \in Workers, KeepsEntries, DiskSend(w) PROVE Seen'
  BY <1>0, <1>b, <1>16, DiskSendMoves DEF Moved, KeepsEntries, Seen, Content, File, Exists
<1>17. ASSUME NEW p \in Paths, KeepsEntries, Remove(p) PROVE Seen'
  <2>1. /\ inode' = inode /\ heap' = heap /\ th' = th /\ updates' = updates + 1
        /\ disk'[p] = NULL /\ \A q \in Paths : q # p => disk'[q] = disk[q]
    BY <1>0, <1>17 DEF Remove, Tick, TypeOK
  <2>2. \A u \in Workers : th[u].pc \in {"upgrade", "open"} => th[u].path \in Paths
    BY <1>0 DEF Locals
  <2> QED BY <1>0, <1>a, <1>17, <2>1, <2>2, <1>b DEF KeepsEntries, Seen, Content, File, Exists
<1>18. ASSUME NEW p \in Paths, NEW s \in Sizes, KeepsEntries, Publish(p, s) PROVE Seen'
  <2>1. /\ updates' = updates + 1 /\ th' = th /\ heap' = heap
    BY <1>0, <1>18, PublishEffect
  <2>2. PICK i \in Inodes :
           /\ disk' = [disk EXCEPT ![p] = i] /\ inode' = [inode EXCEPT ![i] = Written(s)]
           /\ \A q \in Paths : q # p => disk[q] # i
    BY <1>0, <1>18, PublishEffect
  <2>3. /\ disk'[p] = i /\ \A q \in Paths : q # p => disk'[q] = disk[q]
        /\ inode'[i].version = updates + 1 /\ \A j \in Inodes : j # i => inode'[j] = inode[j]
    BY <1>0, <2>1, <2>2 DEF TypeOK, Written
  <2>4. \A j \in Inodes : inode[j].version <= inode'[j].version /\ inode'[j].version \in Nat
    BY <1>a, <2>3 DEF Versions
  <2>5. \A q \in Paths : /\ q # p /\ Exists(q)' => Exists(q) /\ File(q)' = File(q)
                         /\ q = p => File(q)'.version = updates + 1
    BY <1>0, <2>2, <2>3 DEF Exists, File, TypeOK
  <2>6. ASSUME NEW w \in Workers, th'[w].pc \in {"upgrade", "open"}
        PROVE  /\ th'[w].seen <= updates'
               /\ disk'[th'[w].path] # NULL => th'[w].seen <= inode'[disk'[th'[w].path]].version
    <3>1. th[w].path \in Paths /\ th[w].seen <= updates /\ th[w].seen \in Nat
      BY <1>0, <1>a, <2>1, <2>6 DEF Locals, Seen
    <3>2. CASE th[w].path = p
      BY <1>a, <2>1, <2>5, <3>1, <3>2 DEF File
    <3>3. CASE th[w].path # p
      BY <1>a, <2>1, <2>5, <2>6, <3>1, <3>3 DEF Seen, Exists, File
    <3> QED BY <3>2, <3>3
  <2>7. ASSUME NEW w \in Workers, th'[w].pc \in {"restat", "load"}
        PROVE  th'[w].seen <= inode'[th'[w].fh].version
    <3>1. th[w].fh \in Inodes /\ th[w].seen \in Nat /\ th[w].seen <= inode[th[w].fh].version
      BY <1>0, <1>a, <2>1, <2>7 DEF Locals, Seen
    <3> QED BY <1>a, <2>1, <2>4, <3>1
  <2> QED BY <1>b, <1>18, <2>1, <2>6, <2>7 DEF KeepsEntries, Seen, Exists, File, Content
<1>19. ASSUME NEW w \in Workers, ReloadFree(w) PROVE Seen'
  <2>1. /\ th[w].pc = "free" /\ th[w].path \in Paths /\ th'[w].pc = "swap" /\ th'[w].path = th[w].path
        /\ th'[w].buf = th[w].buf /\ th'[w].seen = th[w].seen
        /\ UNCHANGED <<disk, inode, updates, heap>> /\ \A u \in Threads : u # w => th'[u] = th[u]
    BY <1>0, <1>19, ReloadFreeMoves DEF Moved
  <2>2. /\ Kept(th[w].path) /\ entry' = entry
        /\ \A p \in Paths : Kept(p)' => Kept(p)
    BY <1>19, ReloadFreeKept
  <2>4. \A x \in Workers : th[x].pc = "relock" /\ th[x].path = th[w].path =>
          th[x].seen <= heap[th[w].buf].version
    <3> TAKE x \in Workers
    <3> HAVE th[x].pc = "relock" /\ th[x].path = th[w].path
    <3>1. th[x].seen <= Content(th[w].path).version
      BY <2>2 DEF Seen
    <3>2. Content(th[w].path).version <= heap[th[w].buf].version
      BY <2>1 DEF Versions
    <3>3. th[x].seen \in Nat /\ Content(th[w].path).version \in Nat /\ heap[th[w].buf].version \in Nat
      BY <1>0, <1>a, <2>1, <2>2
    <3> QED BY <3>1, <3>2, <3>3
  <2>5. \A x \in Workers : th'[x].pc = "relock" => x # w /\ th'[x] = th[x]
    BY <1>0, <2>1
  <2> QED BY <1>0, <1>b, <2>1, <2>2, <2>4, <2>5 DEF Seen, Content, File, Exists
<1>20. ASSUME NEW t \in Threads, LoadSwap(t) PROVE Seen'
  <2>1. th[t].pc \in Loading /\ th[t].pc = "swap" /\ th[t].path \in Paths
    BY <1>0, <1>20, LoadSwapMoves DEF Loading
  <2>2. /\ \A u \in Threads : th'[u].pc \notin Loading
        /\ \A u \in Workers : th[u].pc \notin Reading
    BY <1>0, <1>20, <2>1, SoleLoader, LoadSwapMoves DEF Moved, Loading, LockFollowsCode
  <2>3. /\ UNCHANGED <<disk, inode, updates, heap>> /\ \A u \in Threads : u # t => th'[u] = th[u]
        /\ th'[t].seen = th[t].seen
        /\ (t \in Workers => th'[t].pc = "relock" /\ th'[t].path = th[t].path)
    BY <1>0, <1>20, LoadSwapMoves DEF Moved
  <2>4. /\ \A p \in Paths : Kept(p)' <=> Kept(p) \/ p = th[t].path
        /\ entry'[th[t].path].content = th[t].buf
        /\ \A p \in Paths : p # th[t].path => entry'[p] = entry[p]
    BY <1>0, <1>20, LoadSwapKept, LoadSwapStores
  <2>5. ASSUME NEW x \in Workers, th'[x].pc \in {"relock", "header", "body"}, Kept(th[x].path)', x # t
        PROVE  th'[x].seen <= heap'[entry'[th'[x].path].content].version
    <3>1. th'[x] = th[x] /\ th[x].pc = "relock" /\ th[x].path \in Paths /\ th[x].path \in Cached
      BY <1>0, <2>2, <2>3, <2>5 DEF Reading, Locals, Entries, FromCache
    <3>2. CASE th[x].path = th[t].path
      <4>1. t \in Workers
        BY <1>0, <2>1, <3>1, <3>2 DEF Entries
      <4> QED BY <2>1, <2>3, <2>4, <3>1, <3>2, <4>1 DEF Seen
    <3>3. CASE th[x].path # th[t].path
      <4>1. Kept(th[x].path)
        BY <1>20, <3>1, <3>3, LoadSwapKept
      <4> QED BY <2>3, <2>4, <3>1, <3>3, <4>1 DEF Seen, Content
    <3> QED BY <3>2, <3>3
  <2>6. t \in Workers => th'[t].seen <= heap'[entry'[th'[t].path].content].version
    BY <2>1, <2>3, <2>4 DEF Seen
  <2>7. ASSUME NEW x \in Workers, th'[x].pc = "upgrade" PROVE th'[x] = th[x]
    BY <1>0, <2>3, <2>7
  <2> QED BY <1>0, <2>2, <2>3, <2>5, <2>6, <2>7 DEF Loading, Seen, Content, File, Exists
<1>21. CASE DestroyFree
  BY <1>21 DEF DestroyFree, Destroyed
<1> QED
  BY <1>0, <1>1, <1>2, <1>3, <1>4, <1>5, <1>6, <1>7, <1>8, <1>9, <1>10, <1>11, <1>12, <1>13,
     <1>14, <1>15, <1>16, <1>17, <1>18, <1>19, <1>20, <1>21, StepKinds DEF FileStep

\* As long as nobody has the cache locked for writing, an entry is kept.
LEMMA UnlockedIsKept ==
    ASSUME ServingInv, writer = NULL, NEW p \in Cached
    PROVE  p \in Paths /\ Kept(p)
<1>1. NULL \notin Threads /\ Workers \subseteq Threads
  BY ServingAssumption DEF Threads
<1>2. \A t \in Threads : th[t].pc \notin Loading
  BY <1>1 DEF ServingInv, LockFollowsCode
<1>3. ~Destroyed
  BY DEF ServingInv, LockFollowsCode, Locals, Destroyed, Held
<1> QED BY <1>1, <1>2, <1>3 DEF Kept, Swapping, Loading, Cached

\* Under the conditions of Rewriting the freshness check is right, as long as
\* the cache exists.
THEOREM RewritingInvariant ==
    ASSUME Rewriting
    PROVE  Spec => [](CacheInv /\ (Destroyed \/ (Times /\ Seen)))
<1>1. Init => Times /\ Seen
  BY InitTimes, InitSeen
<1>2. ASSUME CacheInv, Destroyed \/ (Times /\ Seen), [Next]_vars
      PROVE  (Destroyed \/ (Times /\ Seen))'
  <2>0. ServingInv /\ TypeOK /\ Locals /\ Entries /\ OpenFiles
    BY <1>2 DEF CacheInv, ServingInv
  <2>1. Destroyed => Destroyed'
    <3>1. Destroyed => closer # NULL
      BY <2>0 DEF Locals, Destroyed
    <3> QED BY <1>2, <2>0, <3>1, Interrupted
  <2>2. ~Destroyed => Owners /\ Versions
    BY <1>2 DEF CacheInv, Lost
  <2> QED BY <1>2, <2>0, <2>1, <2>2, TimesStep, SeenStep
<1>3. CacheInv /\ (Destroyed \/ (Times /\ Seen)) /\ [Next]_vars => (Destroyed \/ (Times /\ Seen))'
  BY <1>2
<1> QED BY <1>1, <1>3, CacheInvariant, PTL DEF Spec

\* If files are rewritten in place or removed, with a new second for each
\* change, then an entry that the freshness check accepts is the whole file on
\* disk.  The condition is needed: the replacement of a file between fopen and
\* stat, or a second change within the same second, leaves a stale entry that
\* is accepted for good.
THEOREM AcceptedEntriesAreCurrent ==
    ASSUME Rewriting
    PROVE  Spec => []AcceptedIsCurrent
<1>1. ASSUME CacheInv, Destroyed \/ (Times /\ Seen) PROVE AcceptedIsCurrent
  <2> SUFFICES ASSUME NEW p \in Cached, Exists(p), ~Newer(p), writer = NULL
               PROVE  Content(p).version = File(p).version /\ entry[p].size = File(p).size
    BY DEF AcceptedIsCurrent
  <2>1. p \in Paths /\ Kept(p)
    BY <1>1, UnlockedIsKept DEF CacheInv
  <2>2. entry[p].mtime \in Nat /\ File(p).mtime \in Nat
    BY <1>1, <2>1 DEF CacheInv, ServingInv, TypeOK, EntryType, Stats, File, Exists
  <2> QED BY <1>1, <2>1, <2>2 DEF Times, Newer, Kept
<1>2. CacheInv /\ (Destroyed \/ (Times /\ Seen)) => AcceptedIsCurrent
  BY <1>1
<1> QED BY <1>2, RewritingInvariant, PTL

\* Under the same conditions an answer from the cache is at least as recent as
\* the file the request's own freshness check saw, although the check is acted
\* upon only after the read lock was given up and others may have reloaded.
THEOREM HitsAreFresh ==
    ASSUME Rewriting
    PROVE  Spec => []FreshHit
<1>1. ASSUME CacheInv, Destroyed \/ (Times /\ Seen) PROVE FreshHit
  <2> SUFFICES ASSUME NEW w \in Workers, th[w].pc \in {"header", "body"}
               PROVE  Content(th[w].path).version >= th[w].seen
    BY DEF FreshHit
  <2>1. Kept(th[w].path)
    BY <1>1, InUseIsKept DEF CacheInv, Reading
  <2>2. th[w].seen <= Content(th[w].path).version
    BY <1>1, <2>1 DEF Seen, Kept
  <2> QED BY <2>2
<1>2. CacheInv /\ (Destroyed \/ (Times /\ Seen)) => FreshHit
  BY <1>1
<1> QED BY <1>2, RewritingInvariant, PTL

=============================================================================

-------------------------- MODULE ThreadPoolProofs --------------------------
(***************************************************************************)
(* Proofs about module ThreadPool, for any number of workers, descriptors  *)
(* and list nodes, and with the signal handler on any set of threads.      *)
(*                                                                         *)
(* None of the safety invariants is inductive alone: that the list is      *)
(* intact needs the pointer a pushing or popping thread holds to be outside*)
(* the list (NodesAccounted, PointerDiscipline), which needs the two list  *)
(* operations to exclude each other (ListGuarded), which needs to know who *)
(* owns the mutex and that the shutdown flag goes up before the mutex is   *)
(* destroyed (LockDiscipline).  PoolInv is the conjunction.                *)
(***************************************************************************)
EXTENDS ThreadPool, FiniteSetTheorems, SequenceTheorems, TLAPS

PoolInv ==
    /\ TypeOK /\ LockDiscipline /\ PointerDiscipline /\ ListGuarded
    /\ ListIntact /\ NodesAccounted

\* thread_pool_init establishes the invariant.
LEMMA InitInv == Init => PoolInv
<1> SUFFICES ASSUME Init PROVE PoolInv
  OBVIOUS
<1> USE PoolAssumption DEF Init, Threads
<1>0. shutdown \in BOOLEAN /\ destroyed \in BOOLEAN /\ listening \in BOOLEAN
  BY Zenon
<1>1. TypeOK
  <2>1. chain \in Seq(Nodes) /\ size \in Nat
    OBVIOUS
  <2>2. pc \in [Threads -> MainPc \cup WorkerPc]
        /\ pc[Main] \in MainPc /\ \A w \in Workers : pc[w] \in WorkerPc
    BY DEF MainPc, WorkerPc
  <2>3. hpc \in HandlerPc
    BY DEF HandlerPc
  <2> QED
    BY <1>0, <2>1, <2>2, <2>3 DEF TypeOK
<1>2. LockDiscipline /\ PointerDiscipline /\ ListGuarded
  BY DEF LockDiscipline, PointerDiscipline, ListGuarded, Protected, Touching,
     Waiting
<1>3. LinkedNodes = {} /\ InHand = {}
  BY DEF LinkedNodes, InHand
<1>4. ListIntact /\ NodesAccounted
  BY <1>3 DEF ListIntact, NodesAccounted
<1> QED
  BY <1>1, <1>2, <1>4 DEF PoolInv

\* Every step keeps the types.
LEMMA TypeStep == PoolInv /\ [Next]_vars => TypeOK'
<1> SUFFICES ASSUME PoolInv, [Next]_vars PROVE TypeOK'
  OBVIOUS
<1> USE PoolAssumption DEF PoolInv, Runs, Goto, Acquire, Unlock, listVars, lockVars, kernVars,
                           hndlVars, vars
<1>1. ASSUME NEW w \in Workers, Spawn(w) PROVE TypeOK'
  BY <1>1 DEF Spawn, TypeOK, MainPc, WorkerPc, HandlerPc, Threads
<1>2. CASE InitServer
  BY <1>2 DEF InitServer, TypeOK, MainPc, WorkerPc, HandlerPc, Threads
<1>3. CASE InitServerFail
  BY <1>3 DEF InitServerFail, TypeOK, MainPc, WorkerPc, HandlerPc, Threads
<1>4. CASE AcceptRetry
  BY <1>4 DEF AcceptRetry, TypeOK, MainPc, WorkerPc, HandlerPc, Threads
<1>5. CASE AcceptBreak
  BY <1>5 DEF AcceptBreak, TypeOK, MainPc, WorkerPc, HandlerPc, Threads
<1>5a. CASE AcceptCall
  BY <1>5a DEF AcceptCall, TypeOK, MainPc, WorkerPc, HandlerPc, Threads
<1>6. CASE MainReturn
  BY <1>6 DEF MainReturn, TypeOK, MainPc, WorkerPc, HandlerPc, Threads
<1>7. ASSUME NEW n \in Nodes, PushAlloc(n) PROVE TypeOK'
  BY <1>7 DEF PushAlloc, TypeOK, MainPc, WorkerPc, HandlerPc, Threads
<1>8. CASE PushAllocFail
  BY <1>8 DEF PushAllocFail, TypeOK, MainPc, WorkerPc, HandlerPc, Threads
<1>9. CASE PushLock
  BY <1>9 DEF PushLock, TypeOK, MainPc, WorkerPc, HandlerPc, Threads
<1>10. CASE PushRefuse
  BY <1>10 DEF PushRefuse, TypeOK, MainPc, WorkerPc, HandlerPc, Threads,
     PointerDiscipline
<1>11. CASE PushLink
  BY <1>11 DEF PushLink, TypeOK, MainPc, WorkerPc, HandlerPc, Threads,
     ListIntact, PointerDiscipline
<1>12. CASE PushSignal
  BY <1>12 DEF PushSignal, TypeOK, MainPc, WorkerPc, HandlerPc, Threads,
     WakeOne, Waiting
<1>13. ASSUME NEW w \in Workers, PopLock(w) PROVE TypeOK'
  BY <1>13 DEF PopLock, TypeOK, MainPc, WorkerPc, HandlerPc, Threads
<1>14. ASSUME NEW w \in Workers, PopWait(w) PROVE TypeOK'
  BY <1>14 DEF PopWait, TypeOK, MainPc, WorkerPc, HandlerPc, Threads
<1>15. ASSUME NEW w \in Workers, PopQuit(w) PROVE TypeOK'
  BY <1>15 DEF PopQuit, TypeOK, MainPc, WorkerPc, HandlerPc, Threads
<1>16. ASSUME NEW w \in Workers, PopCheck(w) PROVE TypeOK'
  BY <1>16 DEF PopCheck, TypeOK, MainPc, WorkerPc, HandlerPc, Threads
<1>17. ASSUME NEW w \in Workers, PopTake(w) PROVE TypeOK'
  BY <1>17 DEF PopTake, TypeOK, MainPc, WorkerPc, HandlerPc, Threads,
     ListGuarded, Touching, ListIntact
<1>18. ASSUME NEW w \in Workers, PopFree(w) PROVE TypeOK'
  BY <1>18 DEF PopFree, TypeOK, MainPc, WorkerPc, HandlerPc, Threads,
     PointerDiscipline
<1>19. ASSUME NEW w \in Workers, HandlerBreak(w) PROVE TypeOK'
  BY <1>19 DEF HandlerBreak, TypeOK, MainPc, WorkerPc, HandlerPc, Threads
<1>20. ASSUME NEW w \in Workers, HandlerServe(w) PROVE TypeOK'
  BY <1>20 DEF HandlerServe, TypeOK, MainPc, WorkerPc, HandlerPc, Threads
<1>21. CASE ShutdownLock
  BY <1>21 DEF ShutdownLock, TypeOK, MainPc, WorkerPc, HandlerPc, Threads
<1>22. CASE ShutdownSet
  BY <1>22 DEF ShutdownSet, TypeOK, MainPc, WorkerPc, HandlerPc, Threads
<1>23. CASE ShutdownMutexDestroy
  <2>1. destroyed' \in BOOLEAN
    BY <1>23, Zenon DEF ShutdownMutexDestroy, TypeOK
  <2> QED
    BY <1>23, <2>1 DEF ShutdownMutexDestroy, TypeOK, HandlerPc
<1>24. CASE ShutdownCondDestroy
  BY <1>24 DEF ShutdownCondDestroy, TypeOK, MainPc, WorkerPc, HandlerPc,
     Threads
<1>25. CASE Exit
  BY <1>25 DEF Exit, TypeOK, MainPc, WorkerPc, HandlerPc, Threads
<1>26. ASSUME NEW s \in Sockets, Accept(s) PROVE TypeOK'
  BY <1>26 DEF Accept, TypeOK, MainPc, WorkerPc, HandlerPc, Threads
<1>26a. CASE AcceptError
  BY <1>26a DEF AcceptError, TypeOK, MainPc, WorkerPc, HandlerPc, Threads
<1>27. ASSUME NEW w \in Workers, HandlerDone(w) PROVE TypeOK'
  BY <1>27 DEF HandlerDone, TypeOK, MainPc, WorkerPc, HandlerPc, Threads
<1>28. ASSUME NEW w \in Workers, SpuriousWakeup(w) PROVE TypeOK'
  BY <1>28 DEF SpuriousWakeup, TypeOK, MainPc, WorkerPc, HandlerPc, Threads
<1>29. ASSUME NEW t \in Threads, Signal(t) PROVE TypeOK'
  BY <1>29 DEF Signal, TypeOK, MainPc, WorkerPc, HandlerPc, Threads
<1>30. CASE Gone
  BY <1>30 DEF Gone, TypeOK, MainPc, WorkerPc, HandlerPc, Threads
<1>31. CASE UNCHANGED vars
  BY <1>31 DEF TypeOK, MainPc, WorkerPc, HandlerPc, Threads
<1> QED
  BY <1>1, <1>2, <1>3, <1>4, <1>5, <1>6, <1>7, <1>8, <1>9, <1>10, <1>11,
     <1>12, <1>13, <1>14, <1>15, <1>16, <1>17, <1>18, <1>19, <1>20, <1>21,
     <1>22, <1>23, <1>24, <1>25, <1>26, <1>27, <1>28, <1>29, <1>30, <1>31,
     <1>5a, <1>26a
  DEF Next, MainStep, WorkerStep, ShutdownStep, Environment

\* Every step keeps the locking discipline.
LEMMA LockStep == PoolInv /\ [Next]_vars => LockDiscipline'
<1> SUFFICES ASSUME PoolInv, [Next]_vars PROVE LockDiscipline'
  OBVIOUS
<1> USE PoolAssumption DEF PoolInv, Runs, Goto, Acquire, Unlock, listVars, lockVars, kernVars,
                           hndlVars, vars
<1>1. ASSUME NEW w \in Workers, Spawn(w) PROVE LockDiscipline'
  BY <1>1 DEF Spawn, TypeOK, MainPc, WorkerPc, HandlerPc, Threads,
     LockDiscipline, Protected, Waiting
<1>2. CASE InitServer
  BY <1>2 DEF InitServer, TypeOK, MainPc, WorkerPc, HandlerPc, Threads,
     LockDiscipline, Protected, Waiting
<1>3. CASE InitServerFail
  BY <1>3 DEF InitServerFail, TypeOK, MainPc, WorkerPc, HandlerPc, Threads,
     LockDiscipline, Protected, Waiting
<1>4. CASE AcceptRetry
  BY <1>4 DEF AcceptRetry, TypeOK, MainPc, WorkerPc, HandlerPc, Threads,
     LockDiscipline, Protected, Waiting
<1>5. CASE AcceptBreak
  BY <1>5 DEF AcceptBreak, TypeOK, MainPc, WorkerPc, HandlerPc, Threads,
     LockDiscipline, Protected, Waiting
<1>5a. CASE AcceptCall
  BY <1>5a DEF AcceptCall, TypeOK, MainPc, WorkerPc, HandlerPc, Threads,
     LockDiscipline, Protected, Waiting
<1>6. CASE MainReturn
  BY <1>6 DEF MainReturn, TypeOK, MainPc, WorkerPc, HandlerPc, Threads,
     LockDiscipline, Protected, Waiting
<1>7. ASSUME NEW n \in Nodes, PushAlloc(n) PROVE LockDiscipline'
  BY <1>7 DEF PushAlloc, TypeOK, MainPc, WorkerPc, HandlerPc, Threads,
     LockDiscipline, Protected, Waiting
<1>8. CASE PushAllocFail
  BY <1>8 DEF PushAllocFail, TypeOK, MainPc, WorkerPc, HandlerPc, Threads,
     LockDiscipline, Protected, Waiting
<1>9. CASE PushLock
  BY <1>9 DEF PushLock, TypeOK, MainPc, WorkerPc, HandlerPc, Threads,
     LockDiscipline, Protected, Waiting
<1>10. CASE PushRefuse
  BY <1>10 DEF PushRefuse, TypeOK, MainPc, WorkerPc, HandlerPc, Threads,
     LockDiscipline, Protected, Waiting
<1>11. CASE PushLink
  BY <1>11 DEF PushLink, TypeOK, MainPc, WorkerPc, HandlerPc, Threads,
     LockDiscipline, Protected, Waiting
<1>12. CASE PushSignal
  BY <1>12 DEF PushSignal, TypeOK, MainPc, WorkerPc, HandlerPc, Threads,
     LockDiscipline, Protected, Waiting, WakeOne
<1>13. ASSUME NEW w \in Workers, PopLock(w) PROVE LockDiscipline'
  BY <1>13 DEF PopLock, TypeOK, MainPc, WorkerPc, HandlerPc, Threads,
     LockDiscipline, Protected, Waiting
<1>14. ASSUME NEW w \in Workers, PopWait(w) PROVE LockDiscipline'
  BY <1>14 DEF PopWait, TypeOK, MainPc, WorkerPc, HandlerPc, Threads,
     LockDiscipline, Protected, Waiting
<1>15. ASSUME NEW w \in Workers, PopQuit(w) PROVE LockDiscipline'
  BY <1>15 DEF PopQuit, TypeOK, MainPc, WorkerPc, HandlerPc, Threads,
     LockDiscipline, Protected, Waiting
<1>16. ASSUME NEW w \in Workers, PopCheck(w) PROVE LockDiscipline'
  BY <1>16 DEF PopCheck, TypeOK, MainPc, WorkerPc, HandlerPc, Threads,
     LockDiscipline, Protected, Waiting
<1>17. ASSUME NEW w \in Workers, PopTake(w) PROVE LockDiscipline'
  BY <1>17 DEF PopTake, TypeOK, MainPc, WorkerPc, HandlerPc, Threads,
     LockDiscipline, Protected, Waiting
<1>18. ASSUME NEW w \in Workers, PopFree(w) PROVE LockDiscipline'
  BY <1>18 DEF PopFree, TypeOK, MainPc, WorkerPc, HandlerPc, Threads,
     LockDiscipline, Protected, Waiting
<1>19. ASSUME NEW w \in Workers, HandlerBreak(w) PROVE LockDiscipline'
  BY <1>19 DEF HandlerBreak, TypeOK, MainPc, WorkerPc, HandlerPc, Threads,
     LockDiscipline, Protected, Waiting
<1>20. ASSUME NEW w \in Workers, HandlerServe(w) PROVE LockDiscipline'
  BY <1>20 DEF HandlerServe, TypeOK, MainPc, WorkerPc, HandlerPc, Threads,
     LockDiscipline, Protected, Waiting
<1>21. CASE ShutdownLock
  BY <1>21 DEF ShutdownLock, TypeOK, MainPc, WorkerPc, HandlerPc, Threads,
     LockDiscipline, Protected, Waiting
<1>22. CASE ShutdownSet
  BY <1>22 DEF ShutdownSet, TypeOK, MainPc, WorkerPc, HandlerPc, Threads,
     LockDiscipline, Protected, Waiting
<1>23. CASE ShutdownMutexDestroy
  BY <1>23 DEF ShutdownMutexDestroy, TypeOK, MainPc, WorkerPc, HandlerPc,
     Threads, LockDiscipline, Protected, Waiting, InCondWait
<1>24. CASE ShutdownCondDestroy
  BY <1>24 DEF ShutdownCondDestroy, TypeOK, MainPc, WorkerPc, HandlerPc,
     Threads, LockDiscipline, Protected, Waiting
<1>25. CASE Exit
  BY <1>25 DEF Exit, TypeOK, MainPc, WorkerPc, HandlerPc, Threads,
     LockDiscipline, Protected, Waiting
<1>26. ASSUME NEW s \in Sockets, Accept(s) PROVE LockDiscipline'
  BY <1>26 DEF Accept, TypeOK, MainPc, WorkerPc, HandlerPc, Threads,
     LockDiscipline, Protected, Waiting
<1>26a. CASE AcceptError
  BY <1>26a DEF AcceptError, TypeOK, MainPc, WorkerPc, HandlerPc, Threads,
     LockDiscipline, Protected, Waiting
<1>27. ASSUME NEW w \in Workers, HandlerDone(w) PROVE LockDiscipline'
  BY <1>27 DEF HandlerDone, TypeOK, MainPc, WorkerPc, HandlerPc, Threads,
     LockDiscipline, Protected, Waiting
<1>28. ASSUME NEW w \in Workers, SpuriousWakeup(w) PROVE LockDiscipline'
  BY <1>28 DEF SpuriousWakeup, TypeOK, MainPc, WorkerPc, HandlerPc, Threads,
     LockDiscipline, Protected, Waiting
<1>29. ASSUME NEW t \in Threads, Signal(t) PROVE LockDiscipline'
  BY <1>29 DEF Signal, TypeOK, MainPc, WorkerPc, HandlerPc, Threads,
     LockDiscipline, Protected, Waiting
<1>30. CASE Gone
  BY <1>30 DEF Gone, TypeOK, MainPc, WorkerPc, HandlerPc, Threads,
     LockDiscipline, Protected, Waiting
<1>31. CASE UNCHANGED vars
  BY <1>31 DEF TypeOK, MainPc, WorkerPc, HandlerPc, Threads, LockDiscipline,
     Protected, Waiting
<1> QED
  BY <1>1, <1>2, <1>3, <1>4, <1>5, <1>6, <1>7, <1>8, <1>9, <1>10, <1>11,
     <1>12, <1>13, <1>14, <1>15, <1>16, <1>17, <1>18, <1>19, <1>20, <1>21,
     <1>22, <1>23, <1>24, <1>25, <1>26, <1>27, <1>28, <1>29, <1>30, <1>31,
     <1>5a, <1>26a
  DEF Next, MainStep, WorkerStep, ShutdownStep, Environment

\* Every step keeps the pointer discipline.
LEMMA PointerStep == PoolInv /\ [Next]_vars => PointerDiscipline'
<1> SUFFICES ASSUME PoolInv, [Next]_vars PROVE PointerDiscipline'
  OBVIOUS
<1> USE PoolAssumption DEF PoolInv, Runs, Goto, Acquire, Unlock, listVars, lockVars, kernVars,
                           hndlVars, vars
<1>1. ASSUME NEW w \in Workers, Spawn(w) PROVE PointerDiscipline'
  BY <1>1 DEF Spawn, TypeOK, MainPc, WorkerPc, HandlerPc, Threads,
     PointerDiscipline
<1>2. CASE InitServer
  BY <1>2 DEF InitServer, TypeOK, MainPc, WorkerPc, HandlerPc, Threads,
     PointerDiscipline
<1>3. CASE InitServerFail
  BY <1>3 DEF InitServerFail, TypeOK, MainPc, WorkerPc, HandlerPc, Threads,
     PointerDiscipline
<1>4. CASE AcceptRetry
  BY <1>4 DEF AcceptRetry, TypeOK, MainPc, WorkerPc, HandlerPc, Threads,
     PointerDiscipline
<1>5. CASE AcceptBreak
  BY <1>5 DEF AcceptBreak, TypeOK, MainPc, WorkerPc, HandlerPc, Threads,
     PointerDiscipline
<1>5a. CASE AcceptCall
  BY <1>5a DEF AcceptCall, TypeOK, MainPc, WorkerPc, HandlerPc, Threads,
     PointerDiscipline
<1>6. CASE MainReturn
  BY <1>6 DEF MainReturn, TypeOK, MainPc, WorkerPc, HandlerPc, Threads,
     PointerDiscipline
<1>7. ASSUME NEW n \in Nodes, PushAlloc(n) PROVE PointerDiscipline'
  BY <1>7 DEF PushAlloc, TypeOK, MainPc, WorkerPc, HandlerPc, Threads,
     PointerDiscipline
<1>8. CASE PushAllocFail
  BY <1>8 DEF PushAllocFail, TypeOK, MainPc, WorkerPc, HandlerPc, Threads,
     PointerDiscipline
<1>9. CASE PushLock
  BY <1>9 DEF PushLock, TypeOK, MainPc, WorkerPc, HandlerPc, Threads,
     PointerDiscipline
<1>10. CASE PushRefuse
  BY <1>10 DEF PushRefuse, TypeOK, MainPc, WorkerPc, HandlerPc, Threads,
     PointerDiscipline
<1>11. CASE PushLink
  BY <1>11 DEF PushLink, TypeOK, MainPc, WorkerPc, HandlerPc, Threads,
     PointerDiscipline, ListIntact, LinkedNodes, NodesAccounted
<1>12. CASE PushSignal
  BY <1>12 DEF PushSignal, TypeOK, MainPc, WorkerPc, HandlerPc, Threads,
     PointerDiscipline, WakeOne, Waiting
<1>13. ASSUME NEW w \in Workers, PopLock(w) PROVE PointerDiscipline'
  BY <1>13 DEF PopLock, TypeOK, MainPc, WorkerPc, HandlerPc, Threads,
     PointerDiscipline
<1>14. ASSUME NEW w \in Workers, PopWait(w) PROVE PointerDiscipline'
  BY <1>14 DEF PopWait, TypeOK, MainPc, WorkerPc, HandlerPc, Threads,
     PointerDiscipline
<1>15. ASSUME NEW w \in Workers, PopQuit(w) PROVE PointerDiscipline'
  BY <1>15 DEF PopQuit, TypeOK, MainPc, WorkerPc, HandlerPc, Threads,
     PointerDiscipline
<1>16. ASSUME NEW w \in Workers, PopCheck(w) PROVE PointerDiscipline'
  BY <1>16 DEF PopCheck, TypeOK, MainPc, WorkerPc, HandlerPc, Threads,
     PointerDiscipline
<1>17. ASSUME NEW w \in Workers, PopTake(w) PROVE PointerDiscipline'
  BY <1>17 DEF PopTake, TypeOK, MainPc, WorkerPc, HandlerPc, Threads,
     PointerDiscipline, ListGuarded, Touching
<1>18. ASSUME NEW w \in Workers, PopFree(w) PROVE PointerDiscipline'
  BY <1>18 DEF PopFree, TypeOK, MainPc, WorkerPc, HandlerPc, Threads,
     PointerDiscipline
<1>19. ASSUME NEW w \in Workers, HandlerBreak(w) PROVE PointerDiscipline'
  BY <1>19 DEF HandlerBreak, TypeOK, MainPc, WorkerPc, HandlerPc, Threads,
     PointerDiscipline
<1>20. ASSUME NEW w \in Workers, HandlerServe(w) PROVE PointerDiscipline'
  BY <1>20 DEF HandlerServe, TypeOK, MainPc, WorkerPc, HandlerPc, Threads,
     PointerDiscipline
<1>21. CASE ShutdownLock
  BY <1>21 DEF ShutdownLock, TypeOK, MainPc, WorkerPc, HandlerPc, Threads,
     PointerDiscipline
<1>22. CASE ShutdownSet
  BY <1>22 DEF ShutdownSet, TypeOK, MainPc, WorkerPc, HandlerPc, Threads,
     PointerDiscipline
<1>23. CASE ShutdownMutexDestroy
  BY <1>23 DEF ShutdownMutexDestroy, TypeOK, MainPc, WorkerPc, HandlerPc,
     Threads, PointerDiscipline
<1>24. CASE ShutdownCondDestroy
  BY <1>24 DEF ShutdownCondDestroy, TypeOK, MainPc, WorkerPc, HandlerPc,
     Threads, PointerDiscipline
<1>25. CASE Exit
  BY <1>25 DEF Exit, TypeOK, MainPc, WorkerPc, HandlerPc, Threads,
     PointerDiscipline
<1>26. ASSUME NEW s \in Sockets, Accept(s) PROVE PointerDiscipline'
  BY <1>26 DEF Accept, TypeOK, MainPc, WorkerPc, HandlerPc, Threads,
     PointerDiscipline
<1>26a. CASE AcceptError
  BY <1>26a DEF AcceptError, TypeOK, MainPc, WorkerPc, HandlerPc, Threads,
     PointerDiscipline
<1>27. ASSUME NEW w \in Workers, HandlerDone(w) PROVE PointerDiscipline'
  BY <1>27 DEF HandlerDone, TypeOK, MainPc, WorkerPc, HandlerPc, Threads,
     PointerDiscipline
<1>28. ASSUME NEW w \in Workers, SpuriousWakeup(w) PROVE PointerDiscipline'
  BY <1>28 DEF SpuriousWakeup, TypeOK, MainPc, WorkerPc, HandlerPc, Threads,
     PointerDiscipline
<1>29. ASSUME NEW t \in Threads, Signal(t) PROVE PointerDiscipline'
  BY <1>29 DEF Signal, TypeOK, MainPc, WorkerPc, HandlerPc, Threads,
     PointerDiscipline
<1>30. CASE Gone
  BY <1>30 DEF Gone, TypeOK, MainPc, WorkerPc, HandlerPc, Threads,
     PointerDiscipline
<1>31. CASE UNCHANGED vars
  BY <1>31 DEF TypeOK, MainPc, WorkerPc, HandlerPc, Threads, PointerDiscipline
<1> QED
  BY <1>1, <1>2, <1>3, <1>4, <1>5, <1>6, <1>7, <1>8, <1>9, <1>10, <1>11,
     <1>12, <1>13, <1>14, <1>15, <1>16, <1>17, <1>18, <1>19, <1>20, <1>21,
     <1>22, <1>23, <1>24, <1>25, <1>26, <1>27, <1>28, <1>29, <1>30, <1>31,
     <1>5a, <1>26a
  DEF Next, MainStep, WorkerStep, ShutdownStep, Environment

\* Every step keeps the list guarded.
LEMMA GuardStep == PoolInv /\ [Next]_vars => ListGuarded'
<1> SUFFICES ASSUME PoolInv, [Next]_vars PROVE ListGuarded'
  OBVIOUS
<1> USE PoolAssumption DEF PoolInv, Runs, Goto, Acquire, Unlock, listVars, lockVars, kernVars,
                           hndlVars, vars
<1>1. ASSUME NEW w \in Workers, Spawn(w) PROVE ListGuarded'
  BY <1>1 DEF Spawn, TypeOK, MainPc, WorkerPc, HandlerPc, Threads,
     LockDiscipline, Protected, ListGuarded, Touching
<1>2. CASE InitServer
  BY <1>2 DEF InitServer, TypeOK, MainPc, WorkerPc, HandlerPc, Threads,
     LockDiscipline, Protected, ListGuarded, Touching
<1>3. CASE InitServerFail
  BY <1>3 DEF InitServerFail, TypeOK, MainPc, WorkerPc, HandlerPc, Threads,
     LockDiscipline, Protected, ListGuarded, Touching
<1>4. CASE AcceptRetry
  BY <1>4 DEF AcceptRetry, TypeOK, MainPc, WorkerPc, HandlerPc, Threads,
     LockDiscipline, Protected, ListGuarded, Touching
<1>5. CASE AcceptBreak
  BY <1>5 DEF AcceptBreak, TypeOK, MainPc, WorkerPc, HandlerPc, Threads,
     LockDiscipline, Protected, ListGuarded, Touching
<1>5a. CASE AcceptCall
  BY <1>5a DEF AcceptCall, TypeOK, MainPc, WorkerPc, HandlerPc, Threads,
     LockDiscipline, Protected, ListGuarded, Touching
<1>6. CASE MainReturn
  BY <1>6 DEF MainReturn, TypeOK, MainPc, WorkerPc, HandlerPc, Threads,
     LockDiscipline, Protected, ListGuarded, Touching
<1>7. ASSUME NEW n \in Nodes, PushAlloc(n) PROVE ListGuarded'
  BY <1>7 DEF PushAlloc, TypeOK, MainPc, WorkerPc, HandlerPc, Threads,
     LockDiscipline, Protected, ListGuarded, Touching
<1>8. CASE PushAllocFail
  BY <1>8 DEF PushAllocFail, TypeOK, MainPc, WorkerPc, HandlerPc, Threads,
     LockDiscipline, Protected, ListGuarded, Touching
<1>9. CASE PushLock
  BY <1>9 DEF PushLock, TypeOK, MainPc, WorkerPc, HandlerPc, Threads,
     LockDiscipline, Protected, ListGuarded, Touching
<1>10. CASE PushRefuse
  BY <1>10 DEF PushRefuse, TypeOK, MainPc, WorkerPc, HandlerPc, Threads,
     LockDiscipline, Protected, ListGuarded, Touching
<1>11. CASE PushLink
  BY <1>11 DEF PushLink, TypeOK, MainPc, WorkerPc, HandlerPc, Threads,
     LockDiscipline, Protected, ListGuarded, Touching, PointerDiscipline,
     ListIntact
<1>12. CASE PushSignal
  BY <1>12 DEF PushSignal, TypeOK, MainPc, WorkerPc, HandlerPc, Threads,
     LockDiscipline, Protected, ListGuarded, Touching, WakeOne, Waiting
<1>13. ASSUME NEW w \in Workers, PopLock(w) PROVE ListGuarded'
  BY <1>13 DEF PopLock, TypeOK, MainPc, WorkerPc, HandlerPc, Threads,
     LockDiscipline, Protected, ListGuarded, Touching
<1>14. ASSUME NEW w \in Workers, PopWait(w) PROVE ListGuarded'
  BY <1>14 DEF PopWait, TypeOK, MainPc, WorkerPc, HandlerPc, Threads,
     LockDiscipline, Protected, ListGuarded, Touching
<1>15. ASSUME NEW w \in Workers, PopQuit(w) PROVE ListGuarded'
  BY <1>15 DEF PopQuit, TypeOK, MainPc, WorkerPc, HandlerPc, Threads,
     LockDiscipline, Protected, ListGuarded, Touching
<1>16. ASSUME NEW w \in Workers, PopCheck(w) PROVE ListGuarded'
  BY <1>16 DEF PopCheck, TypeOK, MainPc, WorkerPc, HandlerPc, Threads,
     LockDiscipline, Protected, ListGuarded, Touching
<1>17. ASSUME NEW w \in Workers, PopTake(w) PROVE ListGuarded'
  BY <1>17 DEF PopTake, TypeOK, MainPc, WorkerPc, HandlerPc, Threads,
     LockDiscipline, Protected, ListGuarded, Touching, ListIntact
<1>18. ASSUME NEW w \in Workers, PopFree(w) PROVE ListGuarded'
  BY <1>18 DEF PopFree, TypeOK, MainPc, WorkerPc, HandlerPc, Threads,
     LockDiscipline, Protected, ListGuarded, Touching
<1>19. ASSUME NEW w \in Workers, HandlerBreak(w) PROVE ListGuarded'
  BY <1>19 DEF HandlerBreak, TypeOK, MainPc, WorkerPc, HandlerPc, Threads,
     LockDiscipline, Protected, ListGuarded, Touching
<1>20. ASSUME NEW w \in Workers, HandlerServe(w) PROVE ListGuarded'
  BY <1>20 DEF HandlerServe, TypeOK, MainPc, WorkerPc, HandlerPc, Threads,
     LockDiscipline, Protected, ListGuarded, Touching
<1>21. CASE ShutdownLock
  BY <1>21 DEF ShutdownLock, TypeOK, MainPc, WorkerPc, HandlerPc, Threads,
     LockDiscipline, Protected, ListGuarded, Touching
<1>22. CASE ShutdownSet
  BY <1>22 DEF ShutdownSet, TypeOK, MainPc, WorkerPc, HandlerPc, Threads,
     LockDiscipline, Protected, ListGuarded, Touching
<1>23. CASE ShutdownMutexDestroy
  BY <1>23 DEF ShutdownMutexDestroy, TypeOK, MainPc, WorkerPc, HandlerPc,
     Threads, LockDiscipline, Protected, ListGuarded, Touching
<1>24. CASE ShutdownCondDestroy
  BY <1>24 DEF ShutdownCondDestroy, TypeOK, MainPc, WorkerPc, HandlerPc,
     Threads, LockDiscipline, Protected, ListGuarded, Touching
<1>25. CASE Exit
  BY <1>25 DEF Exit, TypeOK, MainPc, WorkerPc, HandlerPc, Threads,
     LockDiscipline, Protected, ListGuarded, Touching
<1>26. ASSUME NEW s \in Sockets, Accept(s) PROVE ListGuarded'
  BY <1>26 DEF Accept, TypeOK, MainPc, WorkerPc, HandlerPc, Threads,
     LockDiscipline, Protected, ListGuarded, Touching
<1>26a. CASE AcceptError
  BY <1>26a DEF AcceptError, TypeOK, MainPc, WorkerPc, HandlerPc, Threads,
     LockDiscipline, Protected, ListGuarded, Touching
<1>27. ASSUME NEW w \in Workers, HandlerDone(w) PROVE ListGuarded'
  BY <1>27 DEF HandlerDone, TypeOK, MainPc, WorkerPc, HandlerPc, Threads,
     LockDiscipline, Protected, ListGuarded, Touching
<1>28. ASSUME NEW w \in Workers, SpuriousWakeup(w) PROVE ListGuarded'
  BY <1>28 DEF SpuriousWakeup, TypeOK, MainPc, WorkerPc, HandlerPc, Threads,
     LockDiscipline, Protected, ListGuarded, Touching
<1>29. ASSUME NEW t \in Threads, Signal(t) PROVE ListGuarded'
  BY <1>29 DEF Signal, TypeOK, MainPc, WorkerPc, HandlerPc, Threads,
     LockDiscipline, Protected, ListGuarded, Touching
<1>30. CASE Gone
  BY <1>30 DEF Gone, TypeOK, MainPc, WorkerPc, HandlerPc, Threads,
     LockDiscipline, Protected, ListGuarded, Touching
<1>31. CASE UNCHANGED vars
  BY <1>31 DEF TypeOK, MainPc, WorkerPc, HandlerPc, Threads, LockDiscipline,
     Protected, ListGuarded, Touching
<1> QED
  BY <1>1, <1>2, <1>3, <1>4, <1>5, <1>6, <1>7, <1>8, <1>9, <1>10, <1>11,
     <1>12, <1>13, <1>14, <1>15, <1>16, <1>17, <1>18, <1>19, <1>20, <1>21,
     <1>22, <1>23, <1>24, <1>25, <1>26, <1>27, <1>28, <1>29, <1>30, <1>31,
     <1>5a, <1>26a
  DEF Next, MainStep, WorkerStep, ShutdownStep, Environment

ListStep ==
    \/ \E n \in Nodes : PushAlloc(n)
    \/ PushRefuse \/ PushLink \/ PushSignal
    \/ \E w \in Workers : PopTake(w) \/ PopFree(w)

\* Every other step leaves the list and the threads' node pointers alone.
LEMMA ListFrame ==
    ASSUME PoolInv, [Next]_vars, ~ListStep
    PROVE  /\ UNCHANGED <<listVars, ptr>>
           /\ pc'[Main] = "signal" <=> pc[Main] = "signal"
<1> USE PoolAssumption DEF ListStep, listVars
<1>1. CASE MainStep
  BY <1>1 DEF MainStep, Spawn, InitServer, InitServerFail, AcceptCall,
     AcceptRetry, AcceptBreak, MainReturn, PushAllocFail, PushLock, Goto,
     PoolInv, TypeOK, Threads, vars
<1>2. ASSUME NEW w \in Workers, WorkerStep(w)
      PROVE  /\ UNCHANGED <<listVars, ptr>>
             /\ pc'[Main] = "signal" <=> pc[Main] = "signal"
  BY <1>2 DEF WorkerStep, PopLock, PopWait, PopQuit, PopCheck, HandlerBreak,
     HandlerServe, Goto, PoolInv, TypeOK, Threads
<1>3. CASE ShutdownStep
  BY <1>3 DEF ShutdownStep, ShutdownLock, ShutdownSet, ShutdownMutexDestroy,
     ShutdownCondDestroy, Exit, PoolInv, TypeOK, Threads
<1>4. CASE Environment
  BY <1>4 DEF Environment, Accept, AcceptError, HandlerDone,
     SpuriousWakeup, Signal, Goto, PoolInv, TypeOK, Threads
<1>5. CASE Gone \/ UNCHANGED vars
  BY <1>5 DEF Gone, vars
<1> QED BY <1>1, <1>2, <1>3, <1>4, <1>5 DEF Next

\* Every step keeps the list intact.
LEMMA ListIntactStep == PoolInv /\ [Next]_vars => ListIntact'
<1> SUFFICES ASSUME PoolInv, [Next]_vars PROVE ListIntact'
  OBVIOUS
<1> USE PoolAssumption DEF PoolInv
<1>0. chain \in Seq(Nodes) /\ pc \in [Threads -> MainPc \cup WorkerPc] /\ Main \in Threads
  BY DEF TypeOK, Threads
<1>1. ASSUME NEW n \in Nodes, PushAlloc(n) PROVE ListIntact'
  <2>1. n \notin LinkedNodes /\ chain' = chain /\ head' = head /\ tail' = tail /\ size' = size
     BY <1>1 DEF PushAlloc, ListIntact
  <2>2. pc[Main] # "signal" /\ pc'[Main] # "signal"
     BY <1>0, <1>1 DEF PushAlloc, Goto
  <2>3. \A i \in 1..Len(chain) : nextOf'[chain[i]] = nextOf[chain[i]]
     BY <1>0, <1>1, <2>1 DEF PushAlloc, LinkedNodes, TypeOK
  <2>4. LinkedNodes' \subseteq allocated'
     BY <1>1, <2>1 DEF PushAlloc, LinkedNodes, ListIntact
  <2> QED
     BY <2>1, <2>2, <2>3, <2>4 DEF ListIntact
<1>2. CASE PushRefuse
  <2>1. /\ UNCHANGED <<chain, head, tail, size, nextOf>> /\ ptr[Main] \notin LinkedNodes
        /\ allocated' = allocated \ {ptr[Main]}
     BY <1>0, <1>2 DEF PushRefuse, PointerDiscipline, NodesAccounted, InHand
  <2>2. pc[Main] # "signal" /\ pc'[Main] # "signal"
     BY <1>0, <1>2 DEF PushRefuse, Goto
  <2> QED BY <2>1, <2>2 DEF ListIntact, LinkedNodes
<1>3. CASE PushLink
  <2> DEFINE n == ptr[Main]
  <2>1. /\ n \in Nodes /\ n \in allocated /\ n \notin LinkedNodes /\ nextOf[n] = NULL
     BY <1>0, <1>3 DEF PushLink, PointerDiscipline, NodesAccounted, InHand,
     TypeOK
  <2>2. chain' = Append(chain, n) /\ tail' = n /\ size' = size /\ allocated' = allocated
     BY <1>3 DEF PushLink
  <2>3. /\ Len(chain') = Len(chain) + 1
        /\ Len(chain) \in Nat
        /\ \A i \in 1..Len(chain) : chain'[i] = chain[i] /\ chain[i] \in Nodes
        /\ chain'[Len(chain) + 1] = n
     BY <1>0, <2>1, <2>2
  <2>4. pc[Main] # "signal" /\ pc'[Main] = "signal"
     BY <1>0, <1>3 DEF PushLink, Goto
  <2>5. \A i \in 1..Len(chain'), j \in 1..Len(chain') : chain'[i] = chain'[j] => i = j
     BY <2>1, <2>3 DEF ListIntact, LinkedNodes
  <2>6. CASE chain = <<>>
     <3>1. head' = n /\ nextOf' = nextOf
       BY <1>3, <2>6 DEF PushLink, ListIntact
     <3> QED BY <3>1, <2>1, <2>2, <2>3, <2>4, <2>5, <2>6 DEF ListIntact, LinkedNodes
  <2>7. CASE chain # <<>>
     <3>1. tail = chain[Len(chain)] /\ tail \in Nodes /\ Len(chain) # 0
       BY <1>0, <2>3, <2>7 DEF ListIntact
     <3>2. head' = head /\ nextOf' = [nextOf EXCEPT ![tail] = n]
       BY <1>3, <3>1 DEF PushLink
     <3>3. nextOf'[n] = NULL /\ nextOf'[chain[Len(chain)]] = n
       BY <2>1, <2>3, <3>1, <3>2 DEF TypeOK, LinkedNodes
     <3>4. \A i \in 1..(Len(chain) - 1) : nextOf'[chain'[i]] = chain'[i + 1]
       BY <2>3, <3>1, <3>2 DEF TypeOK, ListIntact
     <3>5. LinkedNodes' \subseteq allocated'
       BY <2>1, <2>2, <2>3 DEF ListIntact, LinkedNodes
     <3>6. head' = chain'[1] /\ tail' = chain'[Len(chain')] /\ chain' # <<>>
       BY <3>1, <3>2, <2>2, <2>3, <2>7 DEF ListIntact
     <3>7. \A i \in 1..Len(chain') : nextOf'[chain'[i]] = IF i = Len(chain') THEN NULL ELSE chain'[i + 1]
       BY <3>1, <3>3, <3>4, <2>3
     <3>8. size' = Len(chain') - 1
       BY <2>2, <2>3, <2>4 DEF ListIntact
     <3> QED BY <3>5, <3>6, <3>7, <3>8, <2>4, <2>5 DEF ListIntact
  <2> QED BY <2>6, <2>7
<1>4. CASE PushSignal
  <2>1. UNCHANGED <<chain, head, tail, nextOf, allocated>> /\ size' = size + 1
     BY <1>4 DEF PushSignal
  <2>2. pc[Main] = "signal" /\ pc'[Main] = "accept"
     BY <1>0, <1>4 DEF PushSignal, WakeOne, Waiting, Threads
  <2> QED BY <1>0, <2>1, <2>2 DEF ListIntact, LinkedNodes
<1>5. ASSUME NEW w \in Workers, PopTake(w) PROVE ListIntact'
  <2>1. head # NULL /\ chain # <<>> /\ pc[Main] # "signal" /\ pc'[Main] # "signal"
     BY <1>0, <1>5 DEF PopTake, ListGuarded, Touching, ListIntact, Goto,
     Threads
  <2>2. chain' = Tail(chain) /\ head' = nextOf[head] /\ size' = size - 1
        /\ tail' = (IF nextOf[head] = NULL THEN NULL ELSE tail) /\ UNCHANGED <<nextOf, allocated>>
     BY <1>5 DEF PopTake
  <2>3. /\ Len(chain) \in Nat \ {0}
        /\ Len(chain') = Len(chain) - 1
        /\ \A i \in 1..Len(chain') : chain'[i] = chain[i + 1]
        /\ \A i \in 1..Len(chain) : chain[i] \in Nodes
     BY <1>0, <2>1, <2>2
  <2>4. CASE Len(chain) = 1
     <3>1. chain' = <<>>
       BY <1>0, <2>2, <2>3, <2>4
     <3> QED BY <3>1, <2>1, <2>2, <2>3, <2>4 DEF ListIntact, LinkedNodes
  <2>5. CASE Len(chain) # 1
     <3>1. chain' # <<>>
       BY <2>3, <2>5
     <3>2. head' = chain'[1] /\ tail' = chain'[Len(chain')]
       BY <2>1, <2>2, <2>3, <2>5 DEF ListIntact
     <3>0. ASSUME NEW i \in 1..Len(chain')
           PROVE  i \in Int /\ i + 1 \in 1..Len(chain) /\ chain'[i] = chain[i + 1]
       BY <2>3
     <3>3. ASSUME NEW i \in 1..Len(chain')
           PROVE  nextOf'[chain'[i]] = IF i = Len(chain') THEN NULL ELSE chain'[i + 1]
       <4>1. nextOf[chain[i + 1]] = IF i + 1 = Len(chain) THEN NULL ELSE chain[i + 2]
         BY <3>0 DEF ListIntact
       <4>2. i # Len(chain') => chain'[i + 1] = chain[i + 2]
         BY <3>0, <2>3
       <4>3. chain'[i] = chain[i + 1] /\ nextOf' = nextOf /\ i \in Int
         BY <3>0, <2>2
       <4>4. i = Len(chain') <=> i + 1 = Len(chain)
         BY <4>3, <2>3
       <4> QED BY <4>1, <4>2, <4>3, <4>4
     <3>4. ASSUME NEW i \in 1..Len(chain'), NEW j \in 1..Len(chain'), chain'[i] = chain'[j]
           PROVE  i = j
       <4>1. i + 1 = j + 1
         BY <3>0, <3>4 DEF ListIntact
       <4> QED BY <4>1, <3>0
     <3>5. LinkedNodes' \subseteq allocated'
       BY <3>0, <2>2 DEF ListIntact, LinkedNodes
     <3>6. size' = Len(chain')
       BY <2>1, <2>2, <2>3 DEF ListIntact
     <3> QED BY <3>1, <3>2, <3>3, <3>4, <3>5, <3>6, <2>1 DEF ListIntact
  <2> QED BY <2>4, <2>5
<1>6. ASSUME NEW w \in Workers, PopFree(w) PROVE ListIntact'
  <2>1. /\ UNCHANGED <<chain, head, tail, size, nextOf>> /\ ptr[w] \notin LinkedNodes
        /\ allocated' = allocated \ {ptr[w]}
     BY <1>0, <1>6 DEF PopFree, PointerDiscipline, NodesAccounted, InHand,
     Threads
  <2>2. pc'[Main] = pc[Main]
     BY <1>0, <1>6 DEF PopFree, Goto, Threads
  <2> QED BY <2>1, <2>2 DEF ListIntact, LinkedNodes
<1>7. CASE ~ListStep
  BY <1>7, ListFrame DEF listVars, ListIntact, LinkedNodes
<1> QED
  BY <1>1, <1>2, <1>3, <1>4, <1>5, <1>6, <1>7 DEF ListStep

\* A thread takes a node nobody has in hand.
LEMMA HandTakes ==
    ASSUME PoolInv, NEW t \in Threads, NEW v \in Nodes, v \notin InHand,
           ptr[t] = NULL, ptr' = [ptr EXCEPT ![t] = v]
    PROVE  /\ InHand' = InHand \cup {v}
           /\ \A x, y \in Threads : ptr'[x] = ptr'[y] /\ ptr'[x] # NULL => x = y
<1>1. /\ ptr \in [Threads -> Nodes \cup {NULL}] /\ ptr'[t] = v /\ v # NULL
      /\ \A u \in Threads : u # t => ptr'[u] = ptr[u] /\ ptr[u] # v
  BY PoolAssumption DEF PoolInv, TypeOK, InHand
<1>2. ASSUME NEW m \in InHand' PROVE m \in InHand \cup {v}
  <2>1. PICK u \in Threads : ptr'[u] = m /\ m # NULL
    BY <1>2 DEF InHand
  <2> QED BY <1>1, <2>1 DEF InHand
<1>3. ASSUME NEW m \in InHand PROVE m \in InHand'
  <2>1. PICK u \in Threads : ptr[u] = m /\ m # NULL
    BY <1>3 DEF InHand
  <2> QED BY <1>1, <2>1 DEF InHand
<1>4. v \in InHand'
  BY <1>1 DEF InHand
<1>5. \A x, y \in Threads : ptr'[x] = ptr'[y] /\ ptr'[x] # NULL => x = y
  BY <1>1 DEF PoolInv, NodesAccounted
<1> QED BY <1>2, <1>3, <1>4, <1>5

\* A thread gives up the node it has in hand.
LEMMA HandGives ==
    ASSUME PoolInv, NEW t \in Threads, ptr[t] # NULL, ptr' = [ptr EXCEPT ![t] = NULL]
    PROVE  /\ InHand' = InHand \ {ptr[t]} /\ ptr[t] \in InHand
           /\ \A x, y \in Threads : ptr'[x] = ptr'[y] /\ ptr'[x] # NULL => x = y
<1>1. /\ ptr \in [Threads -> Nodes \cup {NULL}] /\ ptr'[t] = NULL
      /\ \A u \in Threads : u # t => ptr'[u] = ptr[u] /\ ptr[u] # ptr[t]
  BY DEF PoolInv, TypeOK, NodesAccounted
<1>2. ASSUME NEW m \in InHand' PROVE m \in InHand \ {ptr[t]}
  <2>1. PICK u \in Threads : ptr'[u] = m /\ m # NULL
    BY <1>2 DEF InHand
  <2> QED BY <1>1, <2>1 DEF InHand
<1>3. ASSUME NEW m \in InHand, m # ptr[t] PROVE m \in InHand'
  <2>1. PICK u \in Threads : ptr[u] = m /\ m # NULL
    BY <1>3 DEF InHand
  <2> QED BY <1>1, <1>3, <2>1 DEF InHand
<1>4. ptr[t] \in InHand
  BY DEF InHand
<1>5. \A x, y \in Threads : ptr'[x] = ptr'[y] /\ ptr'[x] # NULL => x = y
  BY <1>1 DEF PoolInv, NodesAccounted
<1> QED BY <1>2, <1>3, <1>4, <1>5

\* Every step keeps the nodes accounted for.
LEMMA NodesAccountedStep == PoolInv /\ [Next]_vars => NodesAccounted'
<1> SUFFICES ASSUME PoolInv, [Next]_vars PROVE NodesAccounted'
  OBVIOUS
<1> USE PoolAssumption
<1>0. /\ chain \in Seq(Nodes) /\ ptr \in [Threads -> Nodes \cup {NULL}]
      /\ Main \in Threads /\ Workers \subseteq Threads
      /\ allocated = LinkedNodes \cup InHand /\ LinkedNodes \cap InHand = {}
  BY DEF PoolInv, TypeOK, Threads, NodesAccounted
<1>1. ASSUME NEW n \in Nodes, PushAlloc(n) PROVE NodesAccounted'
  <2>1. /\ UNCHANGED chain /\ allocated' = allocated \cup {n} /\ n \notin allocated
        /\ ptr' = [ptr EXCEPT ![Main] = n] /\ ptr[Main] = NULL
    BY <1>0, <1>1 DEF PushAlloc, PoolInv, PointerDiscipline
  <2>2. LinkedNodes' = LinkedNodes
    BY <2>1 DEF LinkedNodes
  <2>4. /\ InHand' = InHand \cup {n}
        /\ \A x, y \in Threads : ptr'[x] = ptr'[y] /\ ptr'[x] # NULL => x = y
    BY <1>0, <2>1, HandTakes
  <2> QED BY <1>0, <2>1, <2>2, <2>4 DEF NodesAccounted
<1>2. CASE PushRefuse
  <2>1. /\ UNCHANGED chain /\ allocated' = allocated \ {ptr[Main]}
        /\ ptr' = [ptr EXCEPT ![Main] = NULL] /\ ptr[Main] # NULL
    BY <1>0, <1>2 DEF PushRefuse, PoolInv, PointerDiscipline
  <2>2. LinkedNodes' = LinkedNodes
    BY <2>1 DEF LinkedNodes
  <2>3. /\ InHand' = InHand \ {ptr[Main]} /\ ptr[Main] \in InHand
        /\ \A x, y \in Threads : ptr'[x] = ptr'[y] /\ ptr'[x] # NULL => x = y
    BY <1>0, <2>1, HandGives
  <2> QED BY <1>0, <2>1, <2>2, <2>3 DEF NodesAccounted
<1>3. CASE PushLink
  <2>1. /\ chain' = Append(chain, ptr[Main]) /\ allocated' = allocated
        /\ ptr' = [ptr EXCEPT ![Main] = NULL] /\ ptr[Main] # NULL
    BY <1>0, <1>3 DEF PushLink, PoolInv, PointerDiscipline
  <2>2. LinkedNodes' = LinkedNodes \cup {ptr[Main]}
    <3>1. /\ Len(chain') = Len(chain) + 1 /\ Len(chain) \in Nat
          /\ \A i \in 1..Len(chain) : chain'[i] = chain[i]
          /\ chain'[Len(chain) + 1] = ptr[Main]
      BY <1>0, <2>1
    <3> QED BY <3>1 DEF LinkedNodes
  <2>3. /\ InHand' = InHand \ {ptr[Main]} /\ ptr[Main] \in InHand
        /\ \A x, y \in Threads : ptr'[x] = ptr'[y] /\ ptr'[x] # NULL => x = y
    BY <1>0, <2>1, HandGives
  <2> QED BY <1>0, <2>1, <2>2, <2>3 DEF NodesAccounted
<1>4. CASE PushSignal
  BY <1>4 DEF PushSignal, PoolInv, NodesAccounted, LinkedNodes, InHand
<1>5. ASSUME NEW w \in Workers, PopTake(w) PROVE NodesAccounted'
  <2>1. /\ chain' = Tail(chain) /\ allocated' = allocated /\ ptr' = [ptr EXCEPT ![w] = head]
        /\ ptr[w] = NULL /\ chain # <<>> /\ head = chain[1] /\ head \in Nodes /\ w \in Threads
    BY <1>0, <1>5 DEF PopTake, PoolInv, TypeOK, PointerDiscipline,
     ListGuarded, Touching, ListIntact
  <2>2. LinkedNodes' = LinkedNodes \ {head} /\ head \in LinkedNodes
    <3>1. /\ Len(chain') = Len(chain) - 1 /\ Len(chain) \in Nat \ {0}
          /\ \A i \in 1..Len(chain') : chain'[i] = chain[i + 1]
      BY <1>0, <2>1
    <3>2. \A i \in 1..Len(chain) :
             i # 1 => chain[i] # chain[1] /\ i - 1 \in 1..Len(chain') /\ chain'[i - 1] = chain[i]
      BY <3>1 DEF PoolInv, ListIntact
    <3>3. \A i \in 1..Len(chain') : i + 1 \in 1..Len(chain) /\ i + 1 # 1
      BY <3>1
    <3>4. ASSUME NEW m \in LinkedNodes' PROVE m \in LinkedNodes \ {head}
      <4>1. PICK i \in 1..Len(chain') : m = chain'[i]
        BY <3>4 DEF LinkedNodes
      <4> QED BY <4>1, <3>1, <3>2, <3>3, <2>1 DEF LinkedNodes
    <3>5. ASSUME NEW m \in LinkedNodes, m # head PROVE m \in LinkedNodes'
      <4>1. PICK i \in 1..Len(chain) : m = chain[i]
        BY <3>5 DEF LinkedNodes
      <4> QED BY <4>1, <3>2, <3>5, <2>1 DEF LinkedNodes
    <3>6. head \in LinkedNodes
      BY <3>1, <2>1 DEF LinkedNodes
    <3> QED BY <3>4, <3>5, <3>6
  <2>3. head \notin InHand
    BY <1>0, <2>2
  <2>4. /\ InHand' = InHand \cup {head}
        /\ \A x, y \in Threads : ptr'[x] = ptr'[y] /\ ptr'[x] # NULL => x = y
    BY <1>0, <2>1, <2>3, HandTakes
  <2> QED BY <1>0, <2>1, <2>2, <2>4 DEF NodesAccounted
<1>6. ASSUME NEW w \in Workers, PopFree(w) PROVE NodesAccounted'
  <2>1. /\ UNCHANGED chain /\ allocated' = allocated \ {ptr[w]}
        /\ ptr' = [ptr EXCEPT ![w] = NULL] /\ w \in Threads /\ ptr[w] # NULL
    BY <1>0, <1>6 DEF PopFree, PoolInv, PointerDiscipline
  <2>2. LinkedNodes' = LinkedNodes
    BY <2>1 DEF LinkedNodes
  <2>3. /\ InHand' = InHand \ {ptr[w]} /\ ptr[w] \in InHand
        /\ \A x, y \in Threads : ptr'[x] = ptr'[y] /\ ptr'[x] # NULL => x = y
    BY <1>0, <2>1, HandGives
  <2> QED BY <1>0, <2>1, <2>2, <2>3 DEF NodesAccounted
<1>7. CASE ~ListStep
  <2>1. UNCHANGED <<listVars, ptr>>
    BY <1>7, ListFrame
  <2>2. NodesAccounted
    BY DEF PoolInv
  <2> QED BY <2>1, <2>2 DEF listVars, NodesAccounted, LinkedNodes, InHand
<1> QED
  BY <1>1, <1>2, <1>3, <1>4, <1>5, <1>6, <1>7 DEF ListStep

\* PoolInv is an inductive invariant of the pool.
THEOREM PoolInvariant == Spec => []PoolInv
<1>1. Init => PoolInv
  BY InitInv
<1>2. PoolInv /\ [Next]_vars => PoolInv'
  BY TypeStep, LockStep, PointerStep, GuardStep, ListIntactStep,
     NodesAccountedStep DEF PoolInv
<1> QED
  BY <1>1, <1>2, PTL DEF Spec

\* The fields of the pool and of every thread keep their types; in particular
\* pool->size never goes below zero.
THEOREM TypeCorrect == Spec => []TypeOK
<1>1. PoolInv => TypeOK
  BY DEF PoolInv
<1> QED
  BY <1>1, PoolInvariant, PTL

\* The linked list of thread_pool_push and thread_pool_pop is never corrupted,
\* not even by workers that run through a destroyed mutex.
THEOREM ListIsIntact == Spec => []ListIntact
<1>1. PoolInv => ListIntact
  BY DEF PoolInv
<1> QED
  BY <1>1, PoolInvariant, PTL

\* No node of the list is leaked, and none is freed twice or while linked.
THEOREM NodesAreAccounted == Spec => []NodesAccounted
<1>1. PoolInv => NodesAccounted
  BY DEF PoolInv
<1> QED
  BY <1>1, PoolInvariant, PTL

\* Every access that changes the list is made by the owner of a mutex that
\* still exists, before the shutdown flag is raised.
THEOREM ListIsGuarded == Spec => []ListGuarded
<1>1. PoolInv => ListGuarded
  BY DEF PoolInv
<1> QED
  BY <1>1, PoolInvariant, PTL

\* Once thread_pool_shutdown has destroyed the mutex, no thread changes the
\* list: the flag raised before turns every push and pop away.
THEOREM DestroyedIsQuiet == Spec => QuietAfterDestroy
<1> DEFINE Quiet == destroyed => UNCHANGED <<head, tail, size, chain>>
<1>1. PoolInv /\ [Next]_vars => [Quiet]_vars
  <2> SUFFICES ASSUME PoolInv, [Next]_vars, destroyed PROVE Quiet
    OBVIOUS
  <2>1. shutdown /\ \A t \in Threads : pc[t] \notin Touching
    BY DEF PoolInv, LockDiscipline, ListGuarded
  <2>2. CASE ListStep
    BY <2>1, <2>2 DEF ListStep, PushAlloc, PushRefuse, PushLink, PushSignal,
       PopTake, PopFree, Touching, Threads
  <2>3. CASE ~ListStep
    BY <2>3, ListFrame DEF listVars
  <2> QED
    BY <2>2, <2>3
<1> QED
  BY <1>1, PoolInvariant, PTL DEF Spec, QuietAfterDestroy

-----------------------------------------------------------------------------
(* What the pool does with connections, on top of PoolInv: every open      *)
(* descriptor has one owner, a sleeping worker is never forgotten, and the *)
(* pool implements the FIFO hand-off of module ConnectionHandoff.          *)


\* The descriptor each thread answers for, as a function.
carry == [t \in Threads |-> Carried(t)]

InCharge == {carry[t] : t \in Threads} \ {NULL}
Queued   == {socketOf[chain[i]] : i \in 1 .. Len(chain)}

\* Where client_socket and new_node->client_socket are set: the accept loop has
\* a descriptor from accept() until it is linked, closed or refused; a worker
\* from the free() in pop until it closes it, or for good when it leaves; and
\* a node carries one from its malloc on.
SocketDiscipline ==
    /\ sock[Main] # NULL <=> pc[Main] \in {"alloc", "lock", "push"}
    /\ pc[Main] \in {"lock", "push"} => socketOf[ptr[Main]] = sock[Main]
    /\ \A w \in Workers : pc[w] \in {"taken", "busy"} => sock[w] # NULL
    /\ \A w \in Workers : sock[w] # NULL => pc[w] \in {"taken", "busy", "exited"}
    /\ \A n \in allocated : socketOf[n] # NULL

\* The same for descriptors as NodesAccounted for nodes: the open ones are
\* those queued and those in charge, and no two owners share one.
SocketsAccounted ==
    /\ open = Queued \cup InCharge
    /\ Queued \cap InCharge = {}
    /\ \A t, u \in Threads : carry[t] = carry[u] /\ carry[t] # NULL => t = u
    /\ \A i, j \in 1 .. Len(chain) : socketOf[chain[i]] = socketOf[chain[j]] => i = j

SocketInv == PoolInv /\ SocketDiscipline /\ SocketsAccounted

\* The steps that move a descriptor from one owner to another, or open or
\* close it.
SocketStep ==
    \/ \E s \in Sockets : Accept(s)
    \/ \E n \in Nodes : PushAlloc(n)
    \/ PushAllocFail \/ PushRefuse \/ PushLink
    \/ \E w \in Workers : PopTake(w) \/ PopFree(w) \/ HandlerDone(w)

\* Every other step leaves descriptors, nodes and pointers alone, and the
\* positions that decide who answers for what.
LEMMA SocketFrame ==
    ASSUME PoolInv, SocketDiscipline, [Next]_vars, ~SocketStep
    PROVE  /\ UNCHANGED <<socketOf, allocated, chain, sock, ptr, open>>
           /\ \A t \in Threads : pc'[t] = "unlinked" <=> pc[t] = "unlinked"
           /\ SocketDiscipline'
<1> DEFINE Framed ==
             /\ UNCHANGED <<socketOf, allocated, chain, sock, ptr, open>>
             /\ \A t \in Threads : pc'[t] = "unlinked" <=> pc[t] = "unlinked"
             /\ SocketDiscipline'
<1> SUFFICES Framed
  OBVIOUS
<1> USE PoolAssumption DEF SocketStep, listVars, lockVars, kernVars, hndlVars
<1>1. CASE MainStep
  <2>1. CASE PushLock
    BY <2>1 DEF PushLock, Goto, PoolInv, TypeOK, Threads, SocketDiscipline
  <2>2. CASE PushSignal
    <3>1. UNCHANGED <<socketOf, allocated, chain, sock, ptr, open>>
      BY <2>2 DEF PushSignal
    <3>2. /\ pc[Main] = "signal" /\ pc'[Main] = "accept"
          /\ \A w \in Workers : pc'[w] = pc[w] \/ (pc[w] = "wait" /\ pc'[w] = "relock")
      <4>1. pc \in [Threads -> MainPc \cup WorkerPc] /\ Main \in Threads /\ Main \notin Workers
        BY DEF PoolInv, TypeOK, Threads
      <4>2. pc[Main] = "signal" /\ pc' \in WakeOne([pc EXCEPT ![Main] = "accept"])
        BY <2>2 DEF PushSignal
      <4>3. CASE Waiting = {}
        BY <4>1, <4>2, <4>3 DEF WakeOne, Threads
      <4>4. CASE Waiting # {}
        <5>1. PICK v \in Waiting : pc' = [[pc EXCEPT ![Main] = "accept"] EXCEPT ![v] = "relock"]
          BY <4>2, <4>4 DEF WakeOne
        <5> QED BY <4>1, <4>2, <5>1 DEF Waiting, Threads
      <4> QED BY <4>3, <4>4
    <3> QED BY <3>1, <3>2 DEF SocketDiscipline, Threads
  <2> QED
    BY <1>1, <2>1, <2>2 DEF MainStep, Spawn, InitServer, InitServerFail, AcceptCall,
       AcceptRetry, AcceptBreak, MainReturn, Goto, PoolInv, TypeOK, Threads, SocketDiscipline
<1>2. ASSUME NEW w \in Workers, WorkerStep(w) PROVE Framed
  <2>1. PICK l \in {"check", "wait", "take", "exited", "busy"} :
          /\ UNCHANGED <<socketOf, allocated, chain, sock, ptr, open>>
          /\ pc' = [pc EXCEPT ![w] = l] /\ pc[w] \in {"pop", "relock", "check", "taken"}
          /\ l \in {"exited", "busy"} \/ pc[w] # "taken"
          /\ l = "busy" => pc[w] = "taken"
    BY <1>2 DEF WorkerStep, PopLock, PopWait, PopQuit, PopCheck, HandlerBreak,
       HandlerServe, Goto
  <2> QED BY <2>1 DEF PoolInv, TypeOK, Threads, SocketDiscipline
<1>3. CASE ShutdownStep
  BY <1>3 DEF ShutdownStep, ShutdownLock, ShutdownSet, ShutdownMutexDestroy,
     ShutdownCondDestroy, Exit, PoolInv, TypeOK, Threads, SocketDiscipline
<1>4. CASE Environment
  BY <1>4 DEF Environment, AcceptError, SpuriousWakeup, Signal, Goto, PoolInv,
     TypeOK, Threads, SocketDiscipline
<1>5. CASE Gone \/ UNCHANGED vars
  BY <1>5 DEF Gone, vars, SocketDiscipline
<1> QED BY <1>1, <1>2, <1>3, <1>4, <1>5 DEF Next

\* Every step keeps the discipline.
LEMMA SocketDisciplineStep == PoolInv /\ SocketDiscipline /\ [Next]_vars => SocketDiscipline'
<1> SUFFICES ASSUME PoolInv, SocketDiscipline, [Next]_vars PROVE SocketDiscipline'
  OBVIOUS
<1> USE PoolAssumption DEF Goto, SocketDiscipline
<1>0. /\ pc \in [Threads -> MainPc \cup WorkerPc] /\ sock \in [Threads -> Sockets \cup {NULL}]
      /\ ptr \in [Threads -> Nodes \cup {NULL}] /\ socketOf \in [Nodes -> Sockets \cup {NULL}]
      /\ Main \in Threads /\ Workers \subseteq Threads /\ allocated \subseteq Nodes
  BY DEF PoolInv, TypeOK, Threads
<1>1. ASSUME NEW s \in Sockets, Accept(s) PROVE SocketDiscipline'
  BY <1>0, <1>1 DEF Accept, listVars
<1>2. ASSUME NEW n \in Nodes, PushAlloc(n) PROVE SocketDiscipline'
  BY <1>0, <1>2 DEF PushAlloc
<1>3. CASE PushAllocFail
  BY <1>0, <1>3 DEF PushAllocFail, listVars
<1>4. CASE PushRefuse
  BY <1>0, <1>4 DEF PushRefuse
<1>5. CASE PushLink
  BY <1>0, <1>5 DEF PushLink
<1>6. ASSUME NEW w \in Workers, PopTake(w) PROVE SocketDiscipline'
  BY <1>0, <1>6 DEF PopTake
<1>7. ASSUME NEW w \in Workers, PopFree(w) PROVE SocketDiscipline'
  <2>1. ptr[w] \in allocated
    BY <1>0, <1>7 DEF PopFree, PoolInv, PointerDiscipline, NodesAccounted, InHand
  <2> QED BY <1>0, <1>7, <2>1 DEF PopFree
<1>8. ASSUME NEW w \in Workers, HandlerDone(w) PROVE SocketDiscipline'
  BY <1>0, <1>8 DEF HandlerDone, listVars
<1>9. CASE ~SocketStep
  BY <1>9, SocketFrame
<1> QED
  BY <1>1, <1>2, <1>3, <1>4, <1>5, <1>6, <1>7, <1>8, <1>9 DEF SocketStep

\* A thread becomes answerable for a descriptor nobody was in charge of.
LEMMA ChargeTakes ==
    ASSUME SocketsAccounted, NEW t \in Threads, NEW s \in Sockets, s \notin InCharge,
           carry[t] = NULL, carry' = [carry EXCEPT ![t] = s]
    PROVE  /\ InCharge' = InCharge \cup {s}
           /\ \A x, y \in Threads : carry'[x] = carry'[y] /\ carry'[x] # NULL => x = y
<1>1. /\ carry'[t] = s /\ s # NULL
      /\ \A u \in Threads : u # t => carry'[u] = carry[u] /\ carry[u] # s
  BY PoolAssumption DEF carry, InCharge
<1>2. ASSUME NEW m \in InCharge' PROVE m \in InCharge \cup {s}
  <2>1. PICK u \in Threads : carry'[u] = m /\ m # NULL
    BY <1>2 DEF InCharge
  <2> QED BY <1>1, <2>1 DEF InCharge
<1>3. ASSUME NEW m \in InCharge PROVE m \in InCharge'
  <2>1. PICK u \in Threads : carry[u] = m /\ m # NULL
    BY <1>3 DEF InCharge
  <2> QED BY <1>1, <2>1 DEF InCharge
<1>4. s \in InCharge'
  BY <1>1 DEF InCharge
<1>5. \A x, y \in Threads : carry'[x] = carry'[y] /\ carry'[x] # NULL => x = y
  BY <1>1 DEF SocketsAccounted
<1> QED BY <1>2, <1>3, <1>4, <1>5

\* A thread is no longer answerable for its descriptor.
LEMMA ChargeGives ==
    ASSUME SocketsAccounted, NEW t \in Threads, carry[t] # NULL, carry' = [carry EXCEPT ![t] = NULL]
    PROVE  /\ InCharge' = InCharge \ {carry[t]} /\ carry[t] \in InCharge
           /\ \A x, y \in Threads : carry'[x] = carry'[y] /\ carry'[x] # NULL => x = y
<1>1. /\ carry'[t] = NULL
      /\ \A u \in Threads : u # t => carry'[u] = carry[u] /\ carry[u] # carry[t]
  BY DEF carry, SocketsAccounted
<1>2. ASSUME NEW m \in InCharge' PROVE m \in InCharge \ {carry[t]}
  <2>1. PICK u \in Threads : carry'[u] = m /\ m # NULL
    BY <1>2 DEF InCharge
  <2> QED BY <1>1, <2>1 DEF InCharge
<1>3. ASSUME NEW m \in InCharge, m # carry[t] PROVE m \in InCharge'
  <2>1. PICK u \in Threads : carry[u] = m /\ m # NULL
    BY <1>3 DEF InCharge
  <2> QED BY <1>1, <1>3, <2>1 DEF InCharge
<1>4. carry[t] \in InCharge
  BY DEF InCharge
<1>5. \A x, y \in Threads : carry'[x] = carry'[y] /\ carry'[x] # NULL => x = y
  BY <1>1 DEF SocketsAccounted
<1> QED BY <1>2, <1>3, <1>4, <1>5

\* What each step of SocketStep does to the threads' charges; every other step
\* leaves them alone.
LEMMA CarryStep ==
    ASSUME PoolInv, SocketDiscipline, [Next]_vars
    PROVE  /\ \A s \in Sockets : Accept(s) => carry[Main] = NULL /\ carry' = [carry EXCEPT ![Main] = s]
           /\ PushAllocFail \/ PushRefuse \/ PushLink =>
                 /\ carry[Main] = sock[Main] /\ sock[Main] # NULL
                 /\ carry' = [carry EXCEPT ![Main] = NULL]
           /\ \A w \in Workers : PopTake(w) =>
                 carry[w] = NULL /\ carry' = [carry EXCEPT ![w] = socketOf[head]]
           /\ \A w \in Workers : HandlerDone(w) =>
                 /\ carry[w] = sock[w] /\ sock[w] # NULL
                 /\ carry' = [carry EXCEPT ![w] = NULL]
           /\ (\E n \in Nodes : PushAlloc(n)) \/ (\E w \in Workers : PopFree(w)) => carry' = carry
           /\ ~SocketStep => carry' = carry
<1> DEFINE Gives ==
             /\ carry[Main] = sock[Main] /\ sock[Main] # NULL
             /\ carry' = [carry EXCEPT ![Main] = NULL]
<1> USE PoolAssumption DEF Goto, carry, Carried
<1>0. /\ pc \in [Threads -> MainPc \cup WorkerPc] /\ sock \in [Threads -> Sockets \cup {NULL}]
      /\ ptr \in [Threads -> Nodes \cup {NULL}] /\ socketOf \in [Nodes -> Sockets \cup {NULL}]
      /\ Main \in Threads /\ Workers \subseteq Threads /\ allocated \subseteq Nodes
      /\ pc[Main] # "unlinked"
  BY DEF PoolInv, TypeOK, MainPc, Threads
<1>1. ASSUME NEW s \in Sockets, Accept(s)
      PROVE  carry[Main] = NULL /\ carry' = [carry EXCEPT ![Main] = s]
  BY <1>0, <1>1 DEF Accept, listVars, SocketDiscipline
<1>2. ASSUME PushAllocFail PROVE Gives
  BY <1>0, <1>2 DEF PushAllocFail, listVars, SocketDiscipline
<1>3. ASSUME PushRefuse PROVE Gives
  BY <1>0, <1>3 DEF PushRefuse, SocketDiscipline
<1>4. ASSUME PushLink PROVE Gives
  BY <1>0, <1>4 DEF PushLink, SocketDiscipline
<1>5. ASSUME NEW w \in Workers, PopTake(w)
      PROVE  carry[w] = NULL /\ carry' = [carry EXCEPT ![w] = socketOf[head]]
  BY <1>0, <1>5 DEF PopTake, SocketDiscipline
<1>6. ASSUME NEW w \in Workers, HandlerDone(w)
      PROVE  /\ carry[w] = sock[w] /\ sock[w] # NULL
             /\ carry' = [carry EXCEPT ![w] = NULL]
  BY <1>0, <1>6 DEF HandlerDone, listVars, SocketDiscipline
<1>7. ASSUME NEW n \in Nodes, PushAlloc(n) PROVE carry' = carry
  <2>1. \A t \in Threads : pc[t] = "unlinked" => ptr[t] # n /\ t # Main
    BY <1>0, <1>7 DEF PushAlloc, PoolInv, PointerDiscipline, NodesAccounted, InHand
  <2> QED BY <1>0, <1>7, <2>1 DEF PushAlloc
<1>8. ASSUME NEW w \in Workers, PopFree(w) PROVE carry' = carry
  BY <1>0, <1>8 DEF PopFree
<1>9. ASSUME ~SocketStep PROVE carry' = carry
  BY <1>9, SocketFrame
<1> QED BY <1>1, <1>2, <1>3, <1>4, <1>5, <1>6, <1>7, <1>8, <1>9

\* Every step keeps the descriptors accounted for.
LEMMA SocketsAccountedStep ==
    ASSUME SocketInv, [Next]_vars
    PROVE  SocketsAccounted'
<1> USE PoolAssumption DEF SocketInv
<1>0. /\ chain \in Seq(Nodes) /\ socketOf \in [Nodes -> Sockets \cup {NULL}]
      /\ sock \in [Threads -> Sockets \cup {NULL}] /\ ptr \in [Threads -> Nodes \cup {NULL}]
      /\ Main \in Threads /\ Workers \subseteq Threads
      /\ Len(chain) \in Nat /\ \A i \in 1 .. Len(chain) : chain[i] \in Nodes /\ chain[i] \in allocated
      /\ open = Queued \cup InCharge /\ Queued \cap InCharge = {}
  BY DEF PoolInv, TypeOK, Threads, SocketsAccounted, ListIntact, LinkedNodes
<1>1. ASSUME NEW s \in Sockets, Accept(s) PROVE SocketsAccounted'
  <2>1. UNCHANGED <<chain, socketOf>> /\ open' = open \cup {s} /\ s \notin open
    BY <1>1 DEF Accept, listVars
  <2>2. Queued' = Queued
    BY <2>1 DEF Queued
  <2>3. /\ InCharge' = InCharge \cup {s}
        /\ \A x, y \in Threads : carry'[x] = carry'[y] /\ carry'[x] # NULL => x = y
    BY <1>0, <1>1, <2>1, CarryStep, ChargeTakes
  <2> QED BY <1>0, <2>1, <2>2, <2>3 DEF SocketsAccounted
<1>2. ASSUME NEW n \in Nodes, PushAlloc(n) PROVE SocketsAccounted'
  <2>1. carry' = carry
    BY <1>2, CarryStep
  <2>2. /\ UNCHANGED <<chain, open>>
        /\ \A i \in 1 .. Len(chain) : socketOf'[chain[i]] = socketOf[chain[i]]
    BY <1>0, <1>2 DEF PushAlloc, kernVars
  <2>3. Queued' = Queued /\ InCharge' = InCharge
    BY <2>1, <2>2 DEF Queued, InCharge
  <2> QED BY <1>0, <2>1, <2>2, <2>3 DEF SocketsAccounted
<1>3. ASSUME PushAllocFail \/ PushRefuse PROVE SocketsAccounted'
  <2>1. UNCHANGED <<chain, socketOf>> /\ open' = open \ {sock[Main]}
    BY <1>3 DEF PushAllocFail, PushRefuse, listVars
  <2>2. Queued' = Queued
    BY <2>1 DEF Queued
  <2>3. /\ InCharge' = InCharge \ {sock[Main]} /\ sock[Main] \in InCharge
        /\ \A x, y \in Threads : carry'[x] = carry'[y] /\ carry'[x] # NULL => x = y
    BY <1>0, <1>3, CarryStep, ChargeGives
  <2> QED BY <1>0, <2>1, <2>2, <2>3 DEF SocketsAccounted
<1>4. ASSUME PushLink PROVE SocketsAccounted'
  <2>1. /\ chain' = Append(chain, ptr[Main]) /\ UNCHANGED <<socketOf, open>>
        /\ ptr[Main] \in Nodes /\ socketOf[ptr[Main]] = sock[Main]
    BY <1>0, <1>4 DEF PushLink, kernVars, PoolInv, PointerDiscipline, SocketDiscipline
  <2>2. /\ InCharge' = InCharge \ {sock[Main]} /\ sock[Main] \in InCharge
        /\ \A x, y \in Threads : carry'[x] = carry'[y] /\ carry'[x] # NULL => x = y
    BY <1>0, <1>4, CarryStep, ChargeGives
  <2>3. /\ Len(chain') = Len(chain) + 1
        /\ \A i \in 1 .. Len(chain) : chain'[i] = chain[i]
        /\ chain'[Len(chain) + 1] = ptr[Main]
    BY <1>0, <2>1
  <2>4. Queued' = Queued \cup {sock[Main]}
    BY <1>0, <2>1, <2>3 DEF Queued
  <2>5. \A i \in 1 .. Len(chain) : socketOf[chain[i]] # sock[Main]
    BY <1>0, <2>2 DEF Queued
  <2>6. \A i, j \in 1 .. Len(chain') : socketOf'[chain'[i]] = socketOf'[chain'[j]] => i = j
    BY <1>0, <2>1, <2>3, <2>5 DEF SocketsAccounted
  <2> QED BY <1>0, <2>1, <2>2, <2>4, <2>6 DEF SocketsAccounted
<1>5. ASSUME NEW w \in Workers, PopTake(w) PROVE SocketsAccounted'
  <2>1. /\ chain' = Tail(chain) /\ UNCHANGED <<socketOf, open>>
        /\ chain # <<>> /\ head = chain[1] /\ w \in Threads
    BY <1>0, <1>5 DEF PopTake, kernVars, PoolInv, ListGuarded, Touching, ListIntact
  <2>2. /\ Len(chain') = Len(chain) - 1 /\ Len(chain) # 0
        /\ \A i \in 1 .. Len(chain') : i + 1 \in 1 .. Len(chain) /\ i \in Int /\ chain'[i] = chain[i + 1]
        /\ \A i \in 1 .. Len(chain) : i # 1 => i - 1 \in 1 .. Len(chain') /\ chain'[i - 1] = chain[i]
    BY <1>0, <2>1
  <2>3. /\ socketOf[head] \in Queued /\ socketOf[head] \in Sockets
        /\ \A i \in 1 .. Len(chain) : i # 1 => socketOf[chain[i]] # socketOf[head]
    BY <1>0, <2>1, <2>2 DEF SocketsAccounted, Queued, SocketDiscipline
  <2>4. Queued' = Queued \ {socketOf[head]}
    <3>1. ASSUME NEW s \in Queued' PROVE s \in Queued \ {socketOf[head]}
      <4>1. PICK i \in 1 .. Len(chain') : s = socketOf[chain'[i]]
        BY <2>1, <3>1 DEF Queued
      <4> DEFINE k == i + 1
      <4>2. k \in 1 .. Len(chain) /\ k # 1 /\ s = socketOf[chain[k]]
        BY <2>2, <4>1
      <4> HIDE DEF k
      <4> QED BY <4>2, <2>3 DEF Queued
    <3>2. ASSUME NEW s \in Queued, s # socketOf[head] PROVE s \in Queued'
      <4>1. PICK i \in 1 .. Len(chain) : s = socketOf[chain[i]]
        BY <3>2 DEF Queued
      <4> QED BY <3>2, <4>1, <2>1, <2>2 DEF Queued
    <3> QED BY <3>1, <3>2
  <2>5. /\ InCharge' = InCharge \cup {socketOf[head]}
        /\ \A x, y \in Threads : carry'[x] = carry'[y] /\ carry'[x] # NULL => x = y
    BY <1>0, <1>5, <2>1, <2>3, CarryStep, ChargeTakes
  <2>6. ASSUME NEW i \in 1 .. Len(chain'), NEW j \in 1 .. Len(chain'),
               socketOf'[chain'[i]] = socketOf'[chain'[j]]
        PROVE  i = j
    <3>1. i + 1 = j + 1
      BY <2>1, <2>2, <2>6 DEF SocketsAccounted
    <3> QED BY <2>2, <3>1
  <2> QED BY <1>0, <2>1, <2>3, <2>4, <2>5, <2>6 DEF SocketsAccounted
<1>6. ASSUME NEW w \in Workers, PopFree(w) PROVE SocketsAccounted'
  <2>1. UNCHANGED <<chain, socketOf, open>> /\ carry' = carry
    BY <1>6, CarryStep DEF PopFree, kernVars
  <2> QED BY <2>1 DEF SocketsAccounted, Queued, InCharge
<1>7. ASSUME NEW w \in Workers, HandlerDone(w) PROVE SocketsAccounted'
  <2>1. UNCHANGED <<chain, socketOf>> /\ open' = open \ {sock[w]}
    BY <1>7 DEF HandlerDone, listVars
  <2>2. Queued' = Queued
    BY <2>1 DEF Queued
  <2>3. /\ InCharge' = InCharge \ {sock[w]} /\ sock[w] \in InCharge
        /\ \A x, y \in Threads : carry'[x] = carry'[y] /\ carry'[x] # NULL => x = y
    BY <1>0, <1>7, CarryStep, ChargeGives
  <2> QED BY <1>0, <2>1, <2>2, <2>3 DEF SocketsAccounted
<1>8. ASSUME ~SocketStep PROVE SocketsAccounted'
  <2>1. UNCHANGED <<chain, socketOf, open>> /\ carry' = carry
    BY <1>8, CarryStep, SocketFrame
  <2> QED BY <2>1 DEF SocketsAccounted, Queued, InCharge
<1> QED
  BY <1>1, <1>2, <1>3, <1>4, <1>5, <1>6, <1>7, <1>8 DEF SocketStep

\* The accept loop starts with no descriptor, and no descriptor is open.
LEMMA SocketInit == Init => SocketInv
<1> SUFFICES ASSUME Init PROVE SocketInv
  OBVIOUS
<1> USE PoolAssumption DEF Init
<1>1. PoolInv
  BY InitInv
<1>2. SocketDiscipline
  BY DEF SocketDiscipline, Threads
<1>3. \A t \in Threads : carry[t] = NULL
  BY DEF carry, Carried, Threads
<1>4. Queued = {} /\ InCharge = {}
  BY <1>3 DEF Queued, InCharge
<1> QED
  BY <1>1, <1>2, <1>3, <1>4 DEF SocketInv, SocketsAccounted

\* SocketInv is an inductive invariant of the pool.
THEOREM SocketInvariant == Spec => []SocketInv
<1>1. SocketInv /\ [Next]_vars => SocketInv'
  BY TypeStep, LockStep, PointerStep, GuardStep, ListIntactStep, NodesAccountedStep,
     SocketDisciplineStep, SocketsAccountedStep DEF SocketInv, PoolInv
<1> QED
  BY <1>1, SocketInit, PTL DEF Spec

\* Every open client descriptor has exactly one owner and a closed one has
\* none: no connection is served twice, closed twice or forgotten.
THEOREM EveryConnectionHasOneOwner == Spec => []OneOwner
<1>1. SocketInv => OneOwner
  <2> SUFFICES ASSUME SocketInv, NEW s \in Sockets
               PROVE  Cardinality(Owners(s)) = IF s \in open THEN 1 ELSE 0
    BY DEF OneOwner
  <2> USE PoolAssumption DEF SocketInv, SocketsAccounted
  <2>0. Owners(s) = {t \in Threads : carry[t] = s} \cup {i \in 1 .. Len(chain) : socketOf[chain[i]] = s}
    BY DEF Owners, carry
  <2>1. CASE s \in Queued
    <3>1. PICK i \in 1 .. Len(chain) : socketOf[chain[i]] = s
      BY <2>1 DEF Queued
    <3>2. \A t \in Threads : carry[t] # s
      BY <2>1 DEF InCharge
    <3>3. Owners(s) = {i}
      BY <2>0, <3>1, <3>2
    <3> QED BY <2>1, <3>3, FS_Singleton
  <2>2. CASE s \in InCharge
    <3>1. PICK t \in Threads : carry[t] = s /\ s # NULL
      BY <2>2 DEF InCharge
    <3>2. \A i \in 1 .. Len(chain) : socketOf[chain[i]] # s
      BY <2>2 DEF Queued
    <3>3. Owners(s) = {t}
      BY <2>0, <3>1, <3>2
    <3> QED BY <2>2, <3>3, FS_Singleton
  <2>3. CASE s \notin open
    <3>1. Owners(s) = {}
      BY <2>0, <2>3 DEF Queued, InCharge
    <3> QED BY <2>3, <3>1, FS_EmptySet
  <2> QED BY <2>1, <2>2, <2>3
<1> QED
  BY <1>1, SocketInvariant, PTL

\* No step but a push, a take, a wait and those of the shutdown changes the
\* count, puts a worker to sleep or keeps one from the queue.
LEMMA WakeFrame ==
    ASSUME PoolInv, [Next]_vars, ~shutdown', ~PushSignal,
           \A w \in Workers : ~PopTake(w) /\ ~PopWait(w)
    PROVE  size' = size /\ Waiting' \subseteq Waiting /\ Contending \subseteq Contending'
<1> DEFINE Framed == size' = size /\ Waiting' \subseteq Waiting /\ Contending \subseteq Contending'
<1> USE PoolAssumption DEF Waiting, Contending, Goto, listVars
<1>0. pc \in [Threads -> MainPc \cup WorkerPc] /\ Main \notin Workers /\ Threads = Workers \cup {Main}
  BY DEF PoolInv, TypeOK, Threads
<1>1. CASE MainStep
  BY <1>0, <1>1 DEF MainStep, Spawn, InitServer, InitServerFail, AcceptCall, AcceptRetry,
     AcceptBreak, MainReturn, PushAlloc, PushAllocFail, PushLock, PushRefuse, PushLink
<1>2. ASSUME NEW w \in Workers, WorkerStep(w) PROVE Framed
  <2>1. CASE PopLock(w)
    BY <1>0, <2>1 DEF PopLock
  <2>2. CASE PopCheck(w)
    BY <1>0, <2>2 DEF PopCheck
  <2>3. CASE PopFree(w) \/ HandlerBreak(w) \/ HandlerServe(w)
    BY <1>0, <2>3 DEF PopFree, HandlerBreak, HandlerServe
  <2>4. CASE PopQuit(w)
    BY <2>4 DEF PopQuit
  <2> QED BY <1>2, <2>1, <2>2, <2>3, <2>4 DEF WorkerStep
<1>3. CASE ShutdownStep
  BY <1>3 DEF ShutdownStep, ShutdownLock, ShutdownSet, ShutdownMutexDestroy,
     ShutdownCondDestroy, Exit
<1>4. CASE Environment
  BY <1>0, <1>4 DEF Environment, Accept, AcceptError, HandlerDone, SpuriousWakeup, Signal
<1>5. CASE Gone \/ UNCHANGED vars
  BY <1>5 DEF Gone, vars
<1> QED BY <1>1, <1>2, <1>3, <1>4, <1>5 DEF Next

\* Every step keeps enough workers on their way to the queue.
LEMMA NoLostWakeupStep == PoolInv /\ NoLostWakeup /\ [Next]_vars => NoLostWakeup'
<1> SUFFICES ASSUME PoolInv, NoLostWakeup, [Next]_vars, Waiting' # {}
             PROVE  size' <= Cardinality(Contending')
  BY DEF NoLostWakeup
<1> USE PoolAssumption
<1>0. /\ pc \in [Threads -> MainPc \cup WorkerPc] /\ Main \notin Workers
      /\ Threads = Workers \cup {Main} /\ size \in Nat /\ size' \in Nat
  BY TypeStep DEF PoolInv, TypeOK, Threads
<1>1. /\ IsFiniteSet(Contending) /\ Cardinality(Contending) \in Nat
      /\ IsFiniteSet(Contending') /\ Cardinality(Contending') \in Nat
  BY FS_Subset, FS_CardinalityType DEF Contending
<1>2. ~shutdown'
  BY LockStep DEF PoolInv, LockDiscipline
<1>3. CASE PushSignal
  <2>1. size' = size + 1 /\ pc[Main] = "signal" /\ pc' \in WakeOne([pc EXCEPT ![Main] = "accept"])
    BY <1>3 DEF PushSignal
  <2>2. Waiting # {}
    BY <1>0, <2>1 DEF WakeOne, Waiting
  <2>3. PICK v \in Waiting : pc' = [[pc EXCEPT ![Main] = "accept"] EXCEPT ![v] = "relock"]
    BY <2>1, <2>2 DEF WakeOne
  <2>4. Contending' = Contending \cup {v} /\ v \notin Contending
    BY <1>0, <2>1, <2>3 DEF Contending, Waiting
  <2> QED BY <1>0, <1>1, <2>1, <2>2, <2>4, FS_AddElement DEF NoLostWakeup
<1>4. ASSUME NEW w \in Workers, PopTake(w) PROVE size' <= Cardinality(Contending')
  <2>1. size' = size - 1 /\ pc[w] = "take" /\ pc' = [pc EXCEPT ![w] = "unlinked"]
    BY <1>4 DEF PopTake, Goto
  <2>2. Waiting # {} /\ Contending' = Contending \ {w} /\ w \in Contending
    BY <1>0, <2>1 DEF Waiting, Contending
  <2> QED BY <1>0, <1>1, <2>1, <2>2, FS_RemoveElement DEF NoLostWakeup
<1>5. ASSUME NEW w \in Workers, PopWait(w) PROVE size' <= Cardinality(Contending')
  <2>1. head = NULL /\ size' = size
    BY <1>5 DEF PopWait, listVars
  <2>2. chain = <<>> /\ size = 0
    <3>1. chain \in Seq(Nodes) /\ (chain # <<>> => chain[1] = NULL) /\ size <= Len(chain)
      BY <1>0, <2>1 DEF PoolInv, TypeOK, ListIntact
    <3>2. chain = <<>>
      BY <3>1
    <3> QED BY <1>0, <3>1, <3>2
  <2> QED BY <1>1, <2>1, <2>2
<1>6. CASE ~PushSignal /\ \A w \in Workers : ~PopTake(w) /\ ~PopWait(w)
  <2>1. size' = size /\ Waiting # {} /\ Contending \subseteq Contending'
    BY <1>2, <1>6, WakeFrame
  <2>2. Cardinality(Contending) <= Cardinality(Contending')
    BY <1>1, <2>1, FS_Subset
  <2> QED BY <1>0, <1>1, <2>1, <2>2 DEF NoLostWakeup
<1> QED BY <1>3, <1>4, <1>5, <1>6

\* pthread_cond_signal is never wasted: as long as a worker sleeps, every
\* connection that thread_pool_push has counted has a worker on its way to it,
\* although one push signals once and workers wake up for nothing.
THEOREM NoWakeupIsLost == Spec => []NoLostWakeup
<1>1. Init => NoLostWakeup
  <2> SUFFICES ASSUME Init PROVE Waiting = {}
    BY DEF NoLostWakeup
  <2> QED BY PoolAssumption DEF Init, Waiting, Threads
<1> QED
  BY <1>1, NoLostWakeupStep, PoolInvariant, PTL DEF Spec

\* The abstract queue and the abstract hands, as the refinement mapping of
\* Handoff has them.
queueOf == [i \in 1 .. Len(chain) |-> socketOf[chain[i]]]
heldOf  == [w \in Workers |-> Carried(w)]

\* Every step of the pool is a step of the hand-off or leaves it alone: linking
\* a node enqueues, unlinking the first delivers, closing releases.
LEMMA HandoffStep ==
    ASSUME SocketInv, [Next]_vars
    PROVE  [Handoff!HandoffNext]_(Handoff!handoffVars)
<1> USE PoolAssumption DEF SocketInv
<1>0. /\ chain \in Seq(Nodes) /\ socketOf \in [Nodes -> Sockets \cup {NULL}]
      /\ sock \in [Threads -> Sockets \cup {NULL}] /\ ptr \in [Threads -> Nodes \cup {NULL}]
      /\ Main \in Threads /\ Workers \subseteq Threads /\ Main \notin Workers
      /\ Len(chain) \in Nat /\ \A i \in 1 .. Len(chain) : chain[i] \in Nodes /\ chain[i] \in allocated
  BY DEF PoolInv, TypeOK, Threads, ListIntact, LinkedNodes
<1>1. /\ heldOf = [w \in Workers |-> carry[w]] /\ heldOf' = [w \in Workers |-> carry'[w]]
      /\ DOMAIN carry = Threads
  BY <1>0 DEF heldOf, carry
<1>2. queueOf \in Seq(Sockets \cup {NULL}) /\ Len(queueOf) = Len(chain)
      /\ \A i \in 1 .. Len(chain) : queueOf[i] = socketOf[chain[i]]
  BY <1>0, IsASeq DEF queueOf
<1>3. ASSUME PushLink PROVE Handoff!HandoffNext
  <2>1. /\ chain' = Append(chain, ptr[Main]) /\ UNCHANGED socketOf
        /\ ptr[Main] \in Nodes /\ socketOf[ptr[Main]] = sock[Main] /\ sock[Main] \in Sockets
    BY <1>0, <1>3 DEF PushLink, PoolInv, PointerDiscipline, SocketDiscipline
  <2>2. carry[Main] = sock[Main] /\ carry' = [carry EXCEPT ![Main] = NULL]
    BY <1>3, CarryStep
  <2>3. heldOf' = heldOf
    BY <1>0, <1>1, <2>2
  <2>4. sock[Main] \notin Queued /\ \A w \in Workers : heldOf[w] # sock[Main]
    BY <1>0, <1>1, <2>1, <2>2 DEF SocketsAccounted, InCharge
  <2>5. /\ Len(chain') = Len(chain) + 1
        /\ \A i \in 1 .. Len(chain) : chain'[i] = chain[i]
        /\ chain'[Len(chain) + 1] = ptr[Main]
    BY <1>0, <2>1
  <2>6. queueOf' = Append(queueOf, sock[Main])
    BY <1>0, <1>2, <2>1, <2>5 DEF queueOf
  <2>7. PICK s \in Sockets : s = sock[Main]
    BY <2>1
  <2>8. Handoff!Enqueue(s)
    BY <1>0, <2>3, <2>4, <2>6, <2>7 DEF Handoff!Enqueue, Handoff!Queued, Handoff!InHand,
       queueOf, heldOf, Queued
  <2> QED BY <2>8 DEF Handoff!HandoffNext
<1>4. ASSUME NEW w \in Workers, PopTake(w) PROVE Handoff!HandoffNext
  <2>1. /\ chain' = Tail(chain) /\ UNCHANGED socketOf
        /\ chain # <<>> /\ head = chain[1]
    BY <1>0, <1>4 DEF PopTake, PoolInv, ListGuarded, Touching, ListIntact
  <2>2. carry[w] = NULL /\ carry' = [carry EXCEPT ![w] = socketOf[head]]
    BY <1>4, CarryStep
  <2>3. heldOf[w] = NULL /\ heldOf' = [heldOf EXCEPT ![w] = socketOf[head]]
    BY <1>0, <1>1, <2>2
  <2>4. /\ Len(chain') = Len(chain) - 1 /\ Len(chain) # 0
        /\ \A i \in 1 .. Len(chain') : chain'[i] = chain[i + 1]
    BY <1>0, <2>1
  <2>5. queueOf # <<>> /\ Head(queueOf) = socketOf[head] /\ queueOf' = Tail(queueOf)
    BY <1>0, <1>2, <2>1, <2>4 DEF queueOf
  <2>6. Handoff!Deliver(w)
    BY <2>3, <2>5 DEF Handoff!Deliver, queueOf, heldOf
  <2> QED BY <2>6 DEF Handoff!HandoffNext
<1>5. ASSUME NEW w \in Workers, HandlerDone(w) PROVE Handoff!HandoffNext
  <2>1. UNCHANGED <<chain, socketOf>>
    BY <1>5 DEF HandlerDone, listVars
  <2>2. carry[w] # NULL /\ carry' = [carry EXCEPT ![w] = NULL]
    BY <1>5, CarryStep
  <2>3. heldOf[w] # NULL /\ heldOf' = [heldOf EXCEPT ![w] = NULL]
    BY <1>0, <1>1, <2>2
  <2>4. queueOf' = queueOf
    BY <2>1 DEF queueOf
  <2>5. Handoff!Release(w)
    BY <2>3, <2>4 DEF Handoff!Release, queueOf, heldOf
  <2> QED BY <2>5 DEF Handoff!HandoffNext
<1>6. ASSUME ~PushLink, \A w \in Workers : ~PopTake(w) /\ ~HandlerDone(w)
      PROVE  UNCHANGED Handoff!handoffVars
  <2>1. chain' = chain /\ \A i \in 1 .. Len(chain) : socketOf'[chain[i]] = socketOf[chain[i]]
    <3>1. CASE \E n \in Nodes : PushAlloc(n)
      BY <1>0, <3>1 DEF PushAlloc
    <3>2. CASE SocketStep /\ ~\E n \in Nodes : PushAlloc(n)
      BY <1>6, <3>2 DEF SocketStep, Accept, PushAllocFail, PushRefuse, PopFree, listVars
    <3>3. CASE ~SocketStep
      BY <3>3, SocketFrame
    <3> QED BY <3>1, <3>2, <3>3
  <2>2. \A w \in Workers : carry'[w] = carry[w]
    <3>1. CASE (\E s \in Sockets : Accept(s)) \/ PushAllocFail \/ PushRefuse
      BY <1>0, <1>1, <3>1, CarryStep
    <3>2. CASE (\E n \in Nodes : PushAlloc(n)) \/ (\E w \in Workers : PopFree(w)) \/ ~SocketStep
      BY <3>2, CarryStep
    <3> QED BY <1>6, <3>1, <3>2 DEF SocketStep
  <2>3. queueOf' = queueOf /\ heldOf' = heldOf
    BY <1>1, <2>1, <2>2 DEF queueOf
  <2> QED BY <2>3 DEF Handoff!handoffVars, queueOf, heldOf
<1> QED
  BY <1>3, <1>4, <1>5, <1>6

\* The pool implements the FIFO hand-off: a descriptor that is pushed is
\* delivered to one worker, in push order, and not pushed again while it is
\* queued or held.
THEOREM PoolImplementsHandoff == Spec => HandoffSpec
<1>1. Init => Handoff!HandoffInit
  <2> SUFFICES ASSUME Init PROVE Handoff!HandoffInit
    OBVIOUS
  <2>1. chain = <<>> /\ \A w \in Workers : Carried(w) = NULL
    BY PoolAssumption DEF Init, Carried, Threads
  <2> QED BY <2>1 DEF Handoff!HandoffInit
<1>2. SocketInv /\ [Next]_vars => [Handoff!HandoffNext]_(Handoff!handoffVars)
  BY HandoffStep
<1> QED
  BY <1>1, <1>2, SocketInvariant, PTL DEF Spec, HandoffSpec, Handoff!HandoffSpec

\* A mutex that pushes and pops go through is theirs or destroyed, and it is
\* destroyed only after the shutdown flag went up.
THEOREM LocksAreDisciplined == Spec => []LockDiscipline
<1>1. PoolInv => LockDiscipline
  BY DEF PoolInv
<1> QED
  BY <1>1, PoolInvariant, PTL

\* A thread points to a node exactly while it owns one.
THEOREM PointersAreDisciplined == Spec => []PointerDiscipline
<1>1. PoolInv => PointerDiscipline
  BY DEF PoolInv
<1> QED
  BY <1>1, PoolInvariant, PTL

=============================================================================

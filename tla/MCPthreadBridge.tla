-------------------------- MODULE MCPthreadBridge --------------------------
(* The parts of loader/pthread_bridge.c that wait for nothing but the kernel:
   mutexes and conditions with room for a mutex to be destroyed and created
   again, semaphores, and thread creation.  They share bridge_lock only, and
   no effect under it; so a behaviour is about one of them, and the others keep
   their initial state: the state spaces add up instead of multiplying. *)
EXTENDS PthreadBridge, TLC

CONSTANTS
    Sems, NoSem, First, MaxHandles, MaxCount, MaxFails, MaxNow,   \* of the semaphores
    NanosPerMicro, MicrosPerSec, Forever,
    Creators, Attrs, NoAttr, Uids, Asked, Small, Default, Big, Largest,   \* of thread creation
    BigFirst, BigLast, MainPrio, Places, Lines, MaxCreated

VARIABLES
    part,          \* which part the behaviour is about
    semSlot, semLock, kernel, created, fails, clock, semCall, outcome,
    main_prio, threads_created, attr, createCall, threads, registry, starts, fresh

Sem == INSTANCE PthreadSem WITH slot <- semSlot, bridge_lock <- semLock, call <- semCall
ASSUME SemBounds == Sem!SemAssumption

Creation == INSTANCE PthreadThreads WITH call <- createCall
ASSUME CreationBounds == Creation!ThreadsAssumption

semVars == <<semSlot, semLock, kernel, created, fails, clock, semCall, outcome>>
createVars == <<main_prio, threads_created, attr, createCall, threads, registry, starts, fresh>>
allVars == <<part, vars, semVars, createVars>>

AllInit ==
    /\ part \in {"slots", "semaphores", "threads"}
    /\ Init /\ Sem!Init /\ Creation!Init
    /\ part # "slots" => \A s \in Slots : slot[s].init = 0
    /\ part # "semaphores" => \A s \in Sems : semSlot[s] = 0

AllNext ==
    \/ part = "slots" /\ Next /\ UNCHANGED <<part, semVars, createVars>>
    \/ part = "semaphores" /\ Sem!Next /\ UNCHANGED <<part, vars, createVars>>
    \/ part = "threads" /\ Creation!Next /\ UNCHANGED <<part, vars, semVars>>

AllSpec == AllInit /\ [][AllNext]_allVars

Symmetry == Permutations(Threads) \cup Permutations(Uids)

(* The slots are counting semaphores, also where the kernel refuses to create
   one, none has two kernel objects, and a timed wait does not give up early
   (pthread_bridge.c:172-206). *)
ImplementsSemaphore ==
    [](Sem!TypeOK /\ Sem!NoStray) /\ Sem!ImplementsSemaphore /\ Sem!NotEarly

(* Whatever order threads are created, named and ended in: the AssetStream
   threads have the big stack and the others what the game asked for, none that
   runs starves the main thread, and the watchdog knows each once and by its name
   (pthread_bridge.c:122-156, main.c:217-230). *)
ThreadsAsMeant ==
    /\ Creation!TypeOK
    /\ Creation!BigStacks /\ Creation!BelowMain /\ Creation!KnownOnce /\ Creation!Reported
=============================================================================

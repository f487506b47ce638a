------------------------------- MODULE Monitor -------------------------------
(***************************************************************************)
(* What the game may rely on from pthread_mutex_* and pthread_cond_* on    *)
(* its 4-byte Bionic slots, whoever creates the real objects and when:     *)
(* each mutex slot is one lock of the kind it was initialised with, each   *)
(* condition slot is one queue of waiting threads.                         *)
(***************************************************************************)
EXTENDS Integers

CONSTANTS Threads, Mutexes, Conds, NoThread, NoMutex, Kinds

VARIABLES
    kind,      \* kind of each mutex
    resetting, \* the mutexes some thread is initialising or destroying
    owner,     \* its owner
    depth,     \* how often the owner locked it
    waiting,   \* threads waiting on each condition
    woken,     \* threads woken, that still have to take their mutex back
    parked     \* the mutex each waiting or woken thread gave up

vars == <<kind, resetting, owner, depth, waiting, woken, parked>>

Init ==
    /\ kind \in [Mutexes -> Kinds]
    /\ resetting = {}
    /\ owner = [m \in Mutexes |-> NoThread]
    /\ depth = [m \in Mutexes |-> 0]
    /\ waiting = [c \in Conds |-> {}]
    /\ woken = [c \in Conds |-> {}]
    /\ parked = [t \in Threads |-> NoMutex]

\* A free mutex of any kind, or a recursive one the thread already has.
Lock(t, m) ==
    /\ m \notin resetting
    /\ \/ owner[m] = NoThread
       \/ owner[m] = t /\ kind[m] = "recursive"
    /\ owner' = [owner EXCEPT ![m] = t]
    /\ depth' = [depth EXCEPT ![m] = @ + 1]
    /\ UNCHANGED <<kind, resetting, waiting, woken, parked>>

Unlock(t, m) ==
    /\ owner[m] = t
    /\ depth' = [depth EXCEPT ![m] = @ - 1]
    /\ owner' = [owner EXCEPT ![m] = IF depth[m] = 1 THEN NoThread ELSE t]
    /\ UNCHANGED <<kind, resetting, waiting, woken, parked>>

\* Giving up the mutex and joining the queue is one step.
Wait(t, c, m) ==
    /\ owner[m] = t /\ depth[m] = 1
    /\ owner' = [owner EXCEPT ![m] = NoThread]
    /\ depth' = [depth EXCEPT ![m] = 0]
    /\ waiting' = [waiting EXCEPT ![c] = @ \cup {t}]
    /\ parked' = [parked EXCEPT ![t] = m]
    /\ UNCHANGED <<kind, resetting, woken>>

\* A signal, a broadcast or a timeout moves waiters to the woken ones.
Wake(c, S) ==
    /\ waiting' = [waiting EXCEPT ![c] = @ \ S]
    /\ woken' = [woken EXCEPT ![c] = @ \cup S]
    /\ UNCHANGED <<kind, resetting, owner, depth, parked>>

Resume(t, c) ==
    /\ t \in woken[c]
    /\ owner[parked[t]] = NoThread
    /\ owner' = [owner EXCEPT ![parked[t]] = t]
    /\ depth' = [depth EXCEPT ![parked[t]] = 1]
    /\ woken' = [woken EXCEPT ![c] = @ \ {t}]
    /\ parked' = [parked EXCEPT ![t] = NoMutex]
    /\ UNCHANGED <<kind, resetting, waiting>>

\* pthread_mutex_init and pthread_mutex_destroy, from the call to the return,
\* of a mutex nobody has: the only steps that change its kind.
Reset(m, k) ==
    /\ owner[m] = NoThread
    /\ kind' = [kind EXCEPT ![m] = k]
    /\ resetting' = IF m \in resetting THEN resetting \ {m} ELSE resetting \cup {m}
    /\ UNCHANGED <<owner, depth, waiting, woken, parked>>

Next ==
    \/ \E t \in Threads, m \in Mutexes : Lock(t, m) \/ Unlock(t, m)
    \/ \E t \in Threads, m \in Mutexes, c \in Conds : Wait(t, c, m)
    \/ \E c \in Conds : \E S \in SUBSET waiting[c] : S # {} /\ Wake(c, S)
    \/ \E t \in Threads, c \in Conds : Resume(t, c)
    \/ \E m \in Mutexes, k \in Kinds : Reset(m, k)

Spec == Init /\ [][Next]_vars
=============================================================================

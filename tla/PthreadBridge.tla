---------------------------- MODULE PthreadBridge ----------------------------
(***************************************************************************)
(* Mutexes and condition variables of loader/pthread_bridge.c.  The game's *)
(* 4-byte slot holds either a Bionic static initialiser or a pointer to an *)
(* object of vitasdk's.  mutex_get and cond_get turn the first into the    *)
(* second on first use: an unlocked look at the slot, and, when it is not  *)
(* bridged yet, a second look and the creation under bridge_lock.          *)
(*                                                                         *)
(* The objects themselves are vitasdk's (external): a lock or a wait is    *)
(* one step on the object.  The game keeps POSIX's rules (the Legal        *)
(* operator): it unlocks and waits with what it holds, and initialises or  *)
(* destroys only what no thread is using.                                  *)
(***************************************************************************)
EXTENDS Integers, Sequences, FiniteSets

CONSTANTS
    Threads, Mutexes, Conds,
    NoThread, NoMutex, NoSlot,
    MaxObjects,    \* bound: objects created in a run
    MaxDepth       \* bound: nesting of a recursive mutex

ASSUME ModelAssumption ==
    /\ NoThread \notin Threads
    /\ NoMutex \notin Mutexes
    /\ NoSlot \notin Mutexes \cup Conds
    /\ Mutexes \cap Conds = {}
    /\ MaxObjects \in Nat /\ MaxDepth \in Nat

VARIABLES
    slot,      \* the 4-byte slots: init, the static initialiser, and obj,
               \* the object it points to, 0 while it is not bridged
    lock,      \* owner of bridge_lock
    heap,      \* the objects created, in order
    pc,        \* where each thread is
    call,      \* the call it is in
    todo,      \* the slots of the call still to be resolved
    cur,       \* the slot being resolved
    got        \* the objects resolved, per slot

vars == <<slot, lock, heap, pc, call, todo, cur, got>>
threadVars == <<pc, call, todo, cur, got>>

Kinds == {"normal", "recursive", "errorcheck"}
Slots == Mutexes \cup Conds

\* Bionic's static initialisers, and the one pthread_mutex_init_bridge stores
\* for each type of a mutexattr.
Words == {0, 16384, 32768}
WordOf(type) == IF type = 1 THEN 16384 ELSE IF type = 2 THEN 32768 ELSE 0
KindOf(word) == IF (word \div 16384) % 2 = 1 THEN "recursive"
                ELSE IF (word \div 32768) % 2 = 1 THEN "errorcheck" ELSE "normal"

NoCall == [op |-> "none"]
MutexOps == {"lock", "trylock", "unlock"}
ResetOps == {"init", "destroy"}
CondOps == {"signal", "broadcast"}
\* pthread_cond_wait, and pthread_cond_timedwait with a deadline within the
\* hour; any other deadline is an untimed wait (deadline_is_far).
WaitOps == {"wait", "timedwait"}
Calls ==
    [op : MutexOps, m : Mutexes]
    \cup [op : {"init"}, m : Mutexes, type : 0..2]
    \cup [op : {"init"}, m : Conds, type : {0}]
    \cup [op : {"destroy"}, m : Slots]
    \cup [op : CondOps, c : Conds]
    \cup [op : WaitOps, c : Conds, m : Mutexes]

SlotsOf(k) == IF k.op = "none" THEN {}
              ELSE IF k.op \in WaitOps THEN {k.c, k.m}
              ELSE IF k.op \in CondOps THEN {k.c} ELSE {k.m}

Object(s, k) == [mutex |-> s \in Mutexes, kind |-> k, live |-> TRUE,
                 owner |-> NoThread, depth |-> 0, waiting |-> {}, woken |-> {}]

Bridged(s) == slot[s].obj # 0
\* The object behind a slot; one that nobody has when there is none yet.
Behind(s) == IF Bridged(s) THEN heap[slot[s].obj] ELSE Object(s, KindOf(slot[s].init))

Init ==
    /\ slot \in [Slots -> [init : Words, obj : {0}]]
    /\ \A c \in Conds : slot[c].init = 0
    /\ lock = NoThread
    /\ heap = <<>>
    /\ pc = [t \in Threads |-> "idle"]
    /\ call = [t \in Threads |-> NoCall]
    /\ todo = [t \in Threads |-> {}]
    /\ cur = [t \in Threads |-> NoSlot]
    /\ got = [t \in Threads |-> [s \in Slots |-> 0]]

----------------------------------------------------------------------------
(* The game's side.                                                        *)

InUse(s) == \/ \E u \in Threads : s \in SlotsOf(call[u])
            \/ Behind(s).owner # NoThread
            \/ Behind(s).waiting \cup Behind(s).woken # {}

BeingReset(s) == \E u \in Threads : call[u].op \in ResetOps /\ s \in SlotsOf(call[u])

\* The bound: an object is destroyed only if every slot can be bridged again.
Spare == Len(heap) + Cardinality({s \in Slots : ~Bridged(s) \/ BeingReset(s)}) < MaxObjects

Legal(t, k) ==
    /\ \A s \in SlotsOf(k) : ~BeingReset(s)
    /\ k.op \in {"unlock"} \cup WaitOps => Behind(k.m).owner = t
    /\ k.op \in WaitOps => Behind(k.m).depth = 1
    /\ k.op = "lock" =>
        /\ Behind(k.m).depth < MaxDepth
        /\ Behind(k.m).owner = t => Behind(k.m).kind # "normal"
    /\ k.op = "trylock" => Behind(k.m).depth < MaxDepth
    /\ k.op = "init" => ~InUse(k.m) /\ ~Bridged(k.m)
    /\ k.op = "destroy" => ~InUse(k.m) /\ Spare

\* Entry of a *_bridge function.  pthread_mutex_init_bridge stores the static
\* initialiser of the wanted kind, pthread_cond_init_bridge 0; both then resolve
\* the slot like any other call.
Call(t, k) ==
    /\ pc[t] = "idle"
    /\ Legal(t, k)
    /\ pc' = [pc EXCEPT ![t] = "resolve"]
    /\ call' = [call EXCEPT ![t] = k]
    /\ todo' = [todo EXCEPT ![t] = IF k.op = "destroy" THEN {} ELSE SlotsOf(k)]
    /\ slot' = IF k.op = "init" THEN [slot EXCEPT ![k.m].init = WordOf(k.type)] ELSE slot
    /\ UNCHANGED <<lock, heap, cur, got>>

Return(t) ==
    /\ pc' = [pc EXCEPT ![t] = "idle"]
    /\ call' = [call EXCEPT ![t] = NoCall]
    /\ got' = [got EXCEPT ![t] = [s \in Slots |-> 0]]
    /\ UNCHANGED <<slot, lock, todo, cur>>

----------------------------------------------------------------------------
(* mutex_get and cond_get.  C leaves the order of the two in a wait open.  *)

Resolved(t, s) ==
    /\ got' = [got EXCEPT ![t][s] = slot[s].obj]
    /\ todo' = [todo EXCEPT ![t] = @ \ {s}]

\* `if (!IS_UNINIT(*slot)) return *slot`
FastPath(t, s) ==
    /\ pc[t] = "resolve" /\ s \in todo[t]
    /\ Bridged(s)
    /\ Resolved(t, s)
    /\ UNCHANGED <<slot, lock, heap, pc, call, cur>>

SlowPath(t, s) ==
    /\ pc[t] = "resolve" /\ s \in todo[t]
    /\ ~Bridged(s)
    /\ pc' = [pc EXCEPT ![t] = "acquire"]
    /\ cur' = [cur EXCEPT ![t] = s]
    /\ UNCHANGED <<slot, lock, heap, call, todo, got>>

\* Taking bridge_lock, and the second look at the slot.
AcquireThen(t, next) ==
    /\ pc[t] = "acquire"
    /\ lock = NoThread
    /\ lock' = t
    /\ pc' = [pc EXCEPT ![t] = next]
    /\ UNCHANGED <<slot, heap, call, todo, cur, got>>

AcquireOneLook(t) == AcquireThen(t, "create")                    \* mutant
Acquire(t) == AcquireThen(t, IF Bridged(cur[t]) THEN "release" ELSE "create")

\* calloc and pthread_*_init, private until the slot is stored.
CreateAs(t, kind) ==
    /\ pc[t] = "create"
    /\ heap' = Append(heap, Object(cur[t], kind))
    /\ got' = [got EXCEPT ![t][cur[t]] = Len(heap) + 1]
    /\ pc' = [pc EXCEPT ![t] = "publish"]
    /\ UNCHANGED <<slot, lock, call, todo, cur>>

CreateNormal(t) == CreateAs(t, "normal")                         \* mutant
Create(t) == CreateAs(t, KindOf(slot[cur[t]].init))

\* `*slot = m`: the static initialiser is gone.
Publish(t) ==
    /\ pc[t] = "publish"
    /\ slot' = [slot EXCEPT ![cur[t]] = [init |-> 0, obj |-> got[t][cur[t]]]]
    /\ pc' = [pc EXCEPT ![t] = "release"]
    /\ UNCHANGED <<lock, heap, call, todo, cur, got>>

Release(t) ==
    /\ pc[t] = "release"
    /\ lock' = NoThread
    /\ pc' = [pc EXCEPT ![t] = "reread"]
    /\ UNCHANGED <<slot, heap, call, todo, cur, got>>

\* `return *slot`, read after bridge_lock was released.
Reread(t) ==
    /\ pc[t] = "reread"
    /\ Resolved(t, cur[t])
    /\ pc' = [pc EXCEPT ![t] = "resolve"]
    /\ cur' = [cur EXCEPT ![t] = NoSlot]
    /\ UNCHANGED <<slot, lock, heap, call>>

----------------------------------------------------------------------------
(* The calls into vitasdk, on the objects the slots resolved to.           *)

Ready(t, ops) == pc[t] = "resolve" /\ todo[t] = {} /\ call[t].op \in ops

Mutex(t) == got[t][call[t].m]
Cond(t) == got[t][call[t].c]

LockMutex(t) ==
    /\ Ready(t, {"lock", "trylock"})
    /\ LET o == heap[Mutex(t)] IN
        \/ o.owner = NoThread
        \/ o.owner = t /\ o.kind = "recursive"
    /\ heap' = [heap EXCEPT ![Mutex(t)].owner = t, ![Mutex(t)].depth = @ + 1]
    /\ Return(t)

\* EBUSY of a trylock, EDEADLK of a second lock by the owner.
LockRefused(t) ==
    /\ Ready(t, {"lock", "trylock"})
    /\ LET o == heap[Mutex(t)] IN
        \/ call[t].op = "trylock" /\ o.owner # NoThread /\ (o.owner = t => o.kind # "recursive")
        \/ call[t].op = "lock" /\ o.owner = t /\ o.kind = "errorcheck"
    /\ Return(t)
    /\ UNCHANGED heap

UnlockMutex(t) ==
    /\ Ready(t, {"unlock"})
    /\ heap' = [heap EXCEPT ![Mutex(t)].depth = @ - 1,
                            ![Mutex(t)].owner = IF heap[Mutex(t)].depth = 1 THEN NoThread ELSE @]
    /\ Return(t)

\* An init returns once the object is there.
InitDone(t) ==
    /\ Ready(t, {"init"})
    /\ Return(t)
    /\ UNCHANGED heap

\* pthread_mutex_destroy_bridge and pthread_cond_destroy_bridge: destroy and free, then the slot is 0 again.
DestroyLeaving(t, left) ==
    /\ Ready(t, {"destroy"})
    /\ LET s == call[t].m IN
        IF Bridged(s)
        THEN /\ heap' = [heap EXCEPT ![slot[s].obj].live = FALSE]
             /\ slot' = [slot EXCEPT ![s].obj = left]
        ELSE UNCHANGED <<heap, slot>>
    /\ pc' = [pc EXCEPT ![t] = "idle"]
    /\ call' = [call EXCEPT ![t] = NoCall]
    /\ UNCHANGED <<lock, todo, cur, got>>

DestroyDangling(t) == DestroyLeaving(t, slot[call[t].m].obj)       \* mutant
DestroyObject(t) == DestroyLeaving(t, 0)

Wake(o, S) == heap' = [heap EXCEPT ![o].waiting = @ \ S, ![o].woken = @ \cup S]

Signal(t) ==
    /\ Ready(t, {"signal"})
    /\ IF heap[Cond(t)].waiting = {} THEN UNCHANGED heap
       ELSE \E u \in heap[Cond(t)].waiting : Wake(Cond(t), {u})
    /\ Return(t)

BroadcastTo(t, S) ==
    /\ Ready(t, {"broadcast"})
    /\ Wake(Cond(t), S)
    /\ Return(t)

BroadcastOne(t) ==                                               \* mutant
    /\ Ready(t, {"broadcast"})
    /\ \E S \in SUBSET heap[Cond(t)].waiting : Cardinality(S) <= 1 /\ BroadcastTo(t, S)
Broadcast(t) == BroadcastTo(t, heap[Cond(t)].waiting)

\* pthread_cond_(timed)wait gives up the mutex and queues in one step ...
Wait(t) ==
    /\ Ready(t, WaitOps)
    /\ heap' = [heap EXCEPT ![Mutex(t)].owner = NoThread, ![Mutex(t)].depth = 0,
                            ![Cond(t)].waiting = @ \cup {t}]
    /\ pc' = [pc EXCEPT ![t] = "asleep"]
    /\ UNCHANGED <<slot, lock, call, todo, cur, got>>

\* ... may stop waiting when the deadline passes ...
Timeout(t) ==
    /\ pc[t] = "asleep" /\ call[t].op = "timedwait"
    /\ t \in heap[Cond(t)].waiting
    /\ Wake(Cond(t), {t})
    /\ UNCHANGED <<slot, lock, threadVars>>

\* ... and takes the mutex back before it returns.
Resume(t) ==
    /\ pc[t] = "asleep"
    /\ t \in heap[Cond(t)].woken
    /\ heap[Mutex(t)].owner = NoThread
    /\ heap' = [heap EXCEPT ![Mutex(t)].owner = t, ![Mutex(t)].depth = 1,
                            ![Cond(t)].woken = @ \ {t}]
    /\ Return(t)

----------------------------------------------------------------------------

GetSlot(t) ==
    \/ \E s \in Slots : FastPath(t, s) \/ SlowPath(t, s)
    \/ Acquire(t) \/ Create(t) \/ Publish(t) \/ Release(t) \/ Reread(t)

UseObject(t) ==
    \/ LockMutex(t) \/ LockRefused(t) \/ UnlockMutex(t)
    \/ InitDone(t) \/ DestroyObject(t)
    \/ Signal(t) \/ Broadcast(t) \/ Wait(t) \/ Resume(t)

Step(t) == GetSlot(t) \/ UseObject(t)

Next == \E t \in Threads :
    \/ \E k \in Calls : Call(t, k)
    \/ Step(t)
    \/ Timeout(t)

Spec == Init /\ [][Next]_vars

----------------------------------------------------------------------------
(* Properties.                                                             *)

TypeOK ==
    /\ slot \in [Slots -> [init : Words, obj : 0..Len(heap)]]
    /\ lock \in Threads \cup {NoThread}
    /\ pc \in [Threads -> {"idle", "resolve", "acquire", "create", "publish",
                           "release", "reread", "asleep"}]
    /\ \A t \in Threads : call[t] \in Calls \cup {NoCall}
    /\ todo \in [Threads -> SUBSET Slots]
    /\ cur \in [Threads -> Slots \cup {NoSlot}]
    /\ got \in [Threads -> [Slots -> 0..Len(heap)]]

\* However many threads meet on a slot for the first time, exactly one object
\* is made for it: every live object is the one its slot points to, or is about
\* to be stored there by the thread in mutex_get (pthread_bridge.c:24-38).
NoOrphan ==
    \A o \in 1..Len(heap) : heap[o].live =>
        \/ \E s \in Slots : slot[s].obj = o
        \/ \E t \in Threads : pc[t] = "publish" /\ got[t][cur[t]] = o

\* A thread acts on the live object its slot points to now, although the
\* pointer it returned was read without bridge_lock (pthread_bridge.c:25,37,60,64).
UsesCurrentObject ==
    \A t \in Threads : \A s \in Slots :
        (got[t][s] # 0 /\ pc[t] \in {"resolve", "asleep"}) =>
            got[t][s] = slot[s].obj /\ heap[got[t][s]].live

\* A slot never has two kernel objects, and a thread acts on the one its slot
\* has now: however many threads meet on it first, and although the fast path
\* reads it unlocked (pthread_bridge.c:24-38,59-66).
OneObjectPerSlot == TypeOK /\ NoOrphan /\ UsesCurrentObject

\* The bridged slots behave as mutexes and condition variables of the kind the
\* game initialised them with, whoever creates the objects behind them and
\* when (pthread_bridge.c:1-84).
Game == INSTANCE Monitor WITH
    resetting <- {m \in Mutexes : BeingReset(m)},
    kind    <- [m \in Mutexes |-> Behind(m).kind],
    owner   <- [m \in Mutexes |-> Behind(m).owner],
    depth   <- [m \in Mutexes |-> Behind(m).depth],
    waiting <- [c \in Conds |-> Behind(c).waiting],
    woken   <- [c \in Conds |-> Behind(c).woken],
    parked  <- [t \in Threads |-> IF pc[t] = "asleep" THEN call[t].m ELSE NoMutex]

ImplementsMonitor == Game!Spec
=============================================================================

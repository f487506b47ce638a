----------------------------- MODULE PthreadSem -----------------------------
(***************************************************************************)
(* The semaphores of loader/pthread_bridge.c:172-206.  The game's 4-byte   *)
(* slot holds an initial count, below First, or the handle of a kernel     *)
(* semaphore.  ksem_get turns the first into the second on first use, with *)
(* an unlocked look and a second one under bridge_lock; the kernel may     *)
(* refuse.  A timed wait turns the deadline into microseconds from now.    *)
(*                                                                         *)
(* The game keeps POSIX's rules (Legal): it initialises and destroys only  *)
(* what no thread uses, and initialises no live semaphore.                 *)
(***************************************************************************)
EXTENDS Integers, FiniteSets

CONSTANTS
    Threads, Sems, NoThread, NoSem,
    First,         \* 0x10000
    MaxHandles,    \* bound: kernel semaphores created
    MaxCount,      \* bound: the count of a semaphore
    MaxFails,      \* bound: refusals of the kernel
    MaxNow,        \* bound: the clock, in nanoseconds
    NanosPerMicro, MicrosPerSec,
    Forever        \* microseconds beyond which a wait is not timed

SemAssumption ==
    /\ NoThread \notin Threads /\ NoSem \notin Sems
    /\ {First, MaxHandles, MaxCount, MaxFails, MaxNow} \subseteq Nat /\ MaxCount < First
    /\ {NanosPerMicro, MicrosPerSec, Forever} \subseteq Nat \ {0}

VARIABLES
    slot,          \* *slot
    bridge_lock,
    kernel,        \* the kernel's semaphores: their counts, -1 when deleted
    created, fails,
    clock,
    call,          \* per thread, the call it is in
    outcome        \* how its last call ended (history)

vars == <<slot, bridge_lock, kernel, created, fails, clock, call, outcome>>

Ids == First..(First + MaxHandles - 1)
Alive(id) == id \in Ids /\ kernel[id] >= 0
Idle == [pc |-> "idle"]
In(t, p) == call[t].pc = p
Goto(t, p) == call' = [call EXCEPT ![t].pc = p]
Uses(t, s) == call[t] # Idle /\ call[t].sem = s

Init ==
    /\ slot \in [Sems -> 0..MaxCount]
    /\ bridge_lock = NoThread
    /\ kernel = [id \in Ids |-> -1]
    /\ created = 0 /\ fails = 0 /\ clock = 0
    /\ call = [t \in Threads |-> Idle]
    /\ outcome = [t \in Threads |-> "none"]

Return(t, how) ==
    /\ call' = [call EXCEPT ![t] = Idle]
    /\ outcome' = [outcome EXCEPT ![t] = how]

Count(s) == IF slot[s] < First THEN slot[s] ELSE kernel[slot[s]]
Legal(op, s) ==
    /\ op \in {"init", "destroy"} => \A t \in Threads : ~Uses(t, s)
    /\ op = "init" => slot[s] < First
    /\ \A t \in Threads : Uses(t, s) => call[t].op \notin {"init", "destroy"}
    /\ op = "post" =>
          Cardinality({t \in Threads : Uses(t, s) /\ call[t].op = "post"}) + Count(s) < MaxCount

\* A call that begins with ksem_get; sem_init stores the count before it.
Enter(t, r) == call' = [call EXCEPT ![t] = r] /\ outcome' = [outcome EXCEPT ![t] = "none"]

Call(t, op, s) ==
    /\ call[t] = Idle /\ Legal(op, s)
    /\ op \in {"post", "wait", "trywait"}
    /\ Enter(t, [pc |-> "look", op |-> op, sem |-> s, until |-> 0])
    /\ UNCHANGED <<slot, bridge_lock, kernel, created, fails, clock>>

sem_timedwait(t, s, deadline) ==
    /\ call[t] = Idle /\ Legal("wait", s)
    /\ Enter(t, [pc |-> "look", op |-> "timedwait", sem |-> s, until |-> deadline])
    /\ UNCHANGED <<slot, bridge_lock, kernel, created, fails, clock>>

sem_init(t, s, v) ==
    /\ call[t] = Idle /\ Legal("init", s)
    /\ slot' = [slot EXCEPT ![s] = v]
    /\ Enter(t, [pc |-> "look", op |-> "init", sem |-> s, until |-> 0])
    /\ UNCHANGED <<bridge_lock, kernel, created, fails, clock>>

sem_destroy(t, s) ==
    /\ call[t] = Idle /\ Legal("destroy", s)
    /\ slot[s] >= First
    /\ kernel' = [kernel EXCEPT ![slot[s]] = -1]
    /\ slot' = [slot EXCEPT ![s] = 0]
    /\ UNCHANGED <<bridge_lock, created, fails, clock, call, outcome>>

\* ksem_get: the look without the lock ...
Look(t) ==
    /\ In(t, "look")
    /\ Goto(t, IF slot[call[t].sem] >= First THEN "got" ELSE "lock")
    /\ UNCHANGED <<slot, bridge_lock, kernel, created, fails, clock, outcome>>

Lock(t) ==
    /\ In(t, "lock") /\ bridge_lock = NoThread
    /\ bridge_lock' = t
    /\ Goto(t, "again")
    /\ UNCHANGED <<slot, kernel, created, fails, clock, outcome>>

\* ... the second look and the creation, which starts at the count in the slot.
CreateIf(t, unbridged, count) ==
    /\ In(t, "again")
    /\ IF unbridged
       THEN \/ /\ created < MaxHandles
               /\ kernel' = [kernel EXCEPT ![First + created] = count]
               /\ slot' = [slot EXCEPT ![call[t].sem] = First + created]
               /\ created' = created + 1
               /\ UNCHANGED fails
            \/ /\ fails < MaxFails \/ created = MaxHandles
               /\ fails' = IF fails < MaxFails THEN fails + 1 ELSE fails
               /\ UNCHANGED <<slot, kernel, created>>
       ELSE UNCHANGED <<slot, kernel, created, fails>>
    /\ bridge_lock' = NoThread
    /\ Goto(t, "got")
    /\ UNCHANGED <<clock, outcome>>

SlotOf(t) == slot[call[t].sem]
CreateAnyway(t) ==                                                   \* mutant
    In(t, "again") /\ CreateIf(t, TRUE, IF SlotOf(t) < First THEN SlotOf(t) ELSE 0)
CreateEmpty(t) == In(t, "again") /\ CreateIf(t, SlotOf(t) < First, 0)   \* mutant
Create(t) == In(t, "again") /\ CreateIf(t, SlotOf(t) < First, SlotOf(t))

\* Deadlines: the difference in seconds and, towards zero, in nanoseconds.
Quot(a, b) == IF a >= 0 THEN a \div b ELSE -((-a) \div b)
Sec(n) == n \div (NanosPerMicro * MicrosPerSec)
Nsec(n) == n % (NanosPerMicro * MicrosPerSec)
NanosOnly(until, now) == Quot(Nsec(until) - Nsec(now), NanosPerMicro)    \* mutant
MicrosUntil(until, now) ==
    (Sec(until) - Sec(now)) * MicrosPerSec + Quot(Nsec(until) - Nsec(now), NanosPerMicro)
TimeoutOf(us) == IF us < 0 THEN 0 ELSE us

\* The slot is read again, and then the kernel is called with what was read.
Got(t) ==
    /\ In(t, "got")
    /\ LET c == call[t]
           id == slot[c.sem]
           us == MicrosUntil(c.until, clock)
           timed == c.op = "timedwait" /\ us <= Forever
       IN  \/ c.op = "init" /\ Return(t, "done")
           \/ c.op # "init" /\ ~Alive(id) /\ Return(t, "failed")
           \/ /\ c.op # "init" /\ Alive(id)
              /\ call' = [call EXCEPT ![t] =
                    [pc |-> "kernel", op |-> IF c.op = "timedwait" /\ ~timed THEN "wait" ELSE c.op,
                     sem |-> c.sem, until |-> c.until, id |-> id,
                     expires |-> clock + (IF timed THEN TimeoutOf(us) ELSE 0) * NanosPerMicro]]
              /\ UNCHANGED outcome
    /\ UNCHANGED <<slot, bridge_lock, kernel, created, fails, clock>>

\* sceKernelSignalSema and sceKernelWaitSema.
PostOf(t, n) ==
    /\ In(t, "kernel") /\ call[t].op = "post"
    /\ kernel' = [kernel EXCEPT ![call[t].id] = @ + n]
    /\ Return(t, "posted")
    /\ UNCHANGED <<slot, bridge_lock, created, fails, clock>>

PostTwo(t) == PostOf(t, 2)                                           \* mutant
PostSema(t) == PostOf(t, 1)

WaitSema(t) ==
    /\ In(t, "kernel") /\ call[t].op # "post"
    /\ kernel[call[t].id] > 0
    /\ kernel' = [kernel EXCEPT ![call[t].id] = @ - 1]
    /\ Return(t, "taken")
    /\ UNCHANGED <<slot, bridge_lock, created, fails, clock>>

Timeout(t) ==
    /\ In(t, "kernel") /\ call[t].op \in {"trywait", "timedwait"}
    /\ kernel[call[t].id] = 0 /\ clock >= call[t].expires
    /\ Return(t, "failed")
    /\ UNCHANGED <<slot, bridge_lock, kernel, created, fails, clock>>

Tick ==
    /\ clock < MaxNow
    /\ clock' = clock + 1
    /\ UNCHANGED <<slot, bridge_lock, kernel, created, fails, call, outcome>>

Step(t) ==
    Look(t) \/ Lock(t) \/ Create(t) \/ Got(t) \/ PostSema(t) \/ WaitSema(t) \/ Timeout(t)

Next ==
    \/ Tick
    \/ \E t \in Threads :
          \/ Step(t)
          \/ \E s \in Sems :
                \/ \E op \in {"post", "wait", "trywait"} : Call(t, op, s)
                \/ \E d \in 0..MaxNow : sem_timedwait(t, s, d)
                \/ \E v \in 0..MaxCount : sem_init(t, s, v)
                \/ sem_destroy(t, s)

Spec == Init /\ [][Next]_vars

----------------------------------------------------------------------------

TypeOK ==
    /\ slot \in [Sems -> 0..MaxCount \cup Ids]
    /\ bridge_lock \in Threads \cup {NoThread}
    /\ kernel \in [Ids -> -1..MaxCount]
    /\ created \in 0..MaxHandles /\ fails \in 0..MaxFails /\ clock \in 0..MaxNow
    /\ \A t \in Threads :
          /\ call[t].pc \in {"idle", "look", "lock", "again", "got", "kernel"}
          /\ outcome[t] \in {"none", "done", "posted", "taken", "failed"}

\* Every kernel semaphore is the one in its slot: two threads that use a slot
\* first never create two, of which one would swallow posts
\* (pthread_bridge.c:182-187).
NoStray ==
    \A id \in Ids : kernel[id] >= 0 => Cardinality({s \in Sems : slot[s] = id}) = 1

\* The slots are counting semaphores, before, during and after the creation,
\* and also when the kernel refuses to create one.
Abstract == INSTANCE CountingSem WITH
    value <- [s \in Sems |-> Count(s)],
    using <- [t \in Threads |-> IF call[t] = Idle THEN NoSem ELSE call[t].sem]
ImplementsSemaphore == Abstract!Spec

\* A timed wait gives up no earlier than a microsecond before its deadline,
\* whatever the two roundings of seconds and nanoseconds do, and not at all
\* when the deadline is further away than Forever (pthread_bridge.c:195-204).
NotEarly ==
    [][\A t \in Threads :
          In(t, "kernel") /\ call[t].op = "timedwait" /\ outcome'[t] = "failed" =>
              clock + NanosPerMicro > call[t].until]_vars
=============================================================================

----------------------------- MODULE PthreadOnce -----------------------------
(***************************************************************************)
(* pthread_once_bridge (loader/pthread_bridge.c:164-170).  bridge_lock is  *)
(* released while the routine runs, so that a routine may itself use the   *)
(* bridge; the slot is 0 before, 1 while a routine runs, 2 afterwards.     *)
(***************************************************************************)
EXTENDS Integers, Sequences

CONSTANTS
    Threads, Onces,
    NoThread, NoOnce,
    Nested          \* the once slot each routine itself goes through, or NoOnce

OnceAssumption ==
    /\ NoThread \notin Threads
    /\ NoOnce \notin Onces
    /\ Nested \in [Onces -> Onces \cup {NoOnce}]

VARIABLES
    slot,        \* *slot
    lock,        \* owner of bridge_lock
    stack,       \* per thread, the calls it is in, innermost first
    started,     \* routines started, per slot (history)
    finished     \* routines finished, per slot (history)

vars == <<slot, lock, stack, started, finished>>

Init ==
    /\ slot = [o \in Onces |-> 0]
    /\ lock = NoThread
    /\ stack = [t \in Threads |-> <<>>]
    /\ started = [o \in Onces |-> 0]
    /\ finished = [o \in Onces |-> 0]

Frame(o) == [once |-> o, pc |-> "look"]
At(t, p) == stack[t] # <<>> /\ Head(stack[t]).pc = p
Slot(t) == Head(stack[t]).once
Goto(t, p) == stack' = [stack EXCEPT ![t] = <<[Head(@) EXCEPT !.pc = p]>> \o Tail(@)]
Push(t, o) == stack' = [stack EXCEPT ![t] = <<Frame(o)>> \o @]
Return(t) == stack' = [stack EXCEPT ![t] = Tail(@)]

\* The game calls pthread_once.
Call(t, o) ==
    /\ stack[t] = <<>>
    /\ Push(t, o)
    /\ UNCHANGED <<slot, lock, started, finished>>

\* `if (*slot == 2) return 0`, without the lock.
FirstLook(t) ==
    /\ At(t, "look")
    /\ IF slot[Slot(t)] = 2 THEN Return(t) ELSE Goto(t, "lock")
    /\ UNCHANGED <<slot, lock, started, finished>>

Acquire(t) ==
    /\ At(t, "lock")
    /\ lock = NoThread
    /\ lock' = t
    /\ Goto(t, "decide")
    /\ UNCHANGED <<slot, started, finished>>

\* Under the lock: finished already, or mark it and run with the lock released.
DecideHolding(t, owner) ==
    /\ At(t, "decide")
    /\ IF slot[Slot(t)] # 2
       THEN /\ slot' = [slot EXCEPT ![Slot(t)] = 1]
            /\ lock' = owner
            /\ Goto(t, "run")
       ELSE /\ lock' = NoThread
            /\ Return(t)
            /\ UNCHANGED slot
    /\ UNCHANGED <<started, finished>>

DecideLocked(t) == DecideHolding(t, t)                 \* mutant: runs with the lock held
DecideAlways(t) ==                                     \* mutant: no second look
    /\ At(t, "decide")
    /\ slot' = [slot EXCEPT ![Slot(t)] = 1]
    /\ lock' = NoThread
    /\ Goto(t, "run")
    /\ UNCHANGED <<started, finished>>
DecideIfNew(t) ==                                      \* mutant: returns while it runs
    /\ At(t, "decide")
    /\ lock' = NoThread
    /\ IF slot[Slot(t)] = 0
       THEN slot' = [slot EXCEPT ![Slot(t)] = 1] /\ Goto(t, "run")
       ELSE Return(t) /\ UNCHANGED slot
    /\ UNCHANGED <<started, finished>>

Decide(t) == DecideHolding(t, NoThread)

\* fn(): the game's routine, which may go through another slot.
RunRoutine(t) ==
    /\ At(t, "run")
    /\ started' = [started EXCEPT ![Slot(t)] = @ + 1]
    /\ LET n == Nested[Slot(t)]
           inside == [stack[t] EXCEPT ![1].pc = "running"]
       IN  stack' = [stack EXCEPT ![t] = IF n = NoOnce THEN inside ELSE <<Frame(n)>> \o inside]
    /\ UNCHANGED <<slot, lock, finished>>

FinishRoutine(t) ==
    /\ At(t, "running")
    /\ finished' = [finished EXCEPT ![Slot(t)] = @ + 1]
    /\ Goto(t, "relock")
    /\ UNCHANGED <<slot, lock, started>>

\* Lock again, `*slot = 2`, unlock and return.
CompleteWith(t, state) ==
    /\ At(t, "relock")
    /\ lock = NoThread
    /\ slot' = [slot EXCEPT ![Slot(t)] = state]
    /\ Return(t)
    /\ UNCHANGED <<lock, started, finished>>

CompleteCounting(t) == CompleteWith(t, slot[Slot(t)] + 1)   \* mutant: 0, 1, 2 counted up
Complete(t) == CompleteWith(t, 2)

Step(t) ==
    \/ FirstLook(t) \/ Acquire(t) \/ Decide(t)
    \/ RunRoutine(t) \/ FinishRoutine(t) \/ Complete(t)

Next == \E t \in Threads : (\E o \in Onces : Call(t, o)) \/ Step(t)

\* bridge_lock is a kernel-backed mutex: a thread that keeps asking gets it.
Fairness == \A t \in Threads : WF_vars(Step(t)) /\ SF_vars(Acquire(t)) /\ SF_vars(Complete(t))

Spec == Init /\ [][Next]_vars /\ Fairness

----------------------------------------------------------------------------

TypeOK ==
    /\ slot \in [Onces -> 0..2]
    /\ lock \in Threads \cup {NoThread}
    /\ \A t \in Threads : \A i \in 1..Len(stack[t]) :
          stack[t][i] \in [once : Onces,
                           pc : {"look", "lock", "decide", "run", "running", "relock"}]
    /\ started \in [Onces -> Nat]
    /\ finished \in [Onces -> Nat]

\* A caller that returns finds the routine run to its end, also a caller that
\* came while another thread was still running it (pthread_bridge.c:164-170).
ReturnsInitialised ==
    [][\A t \in Threads : Len(stack'[t]) < Len(stack[t]) =>
          finished[Slot(t)] > 0]_vars

\* "Done" is final: a late caller that had seen 0 or 1 never takes it back
\* and makes a third caller run the routine again after it was done.
DoneIsFinal == [][\A o \in Onces : slot[o] = 2 => slot'[o] = 2]_vars

\* A call returns even if its routine goes through the bridge itself, which
\* is why the lock is not held while it runs.
CallReturns == \A t \in Threads : stack[t] # <<>> ~> stack[t] = <<>>
=============================================================================

-------------------------- MODULE MCPthreadClients --------------------------
(***************************************************************************)
(* What the game does with the bridge that must come to an end.  The       *)
(* engine's monitor: threads that wait for a flag under a mutex, and a     *)
(* thread that sets it and wakes them, all through slots nobody            *)
(* initialised (PTHREAD_MUTEX_INITIALIZER, PTHREAD_COND_INITIALIZER), so   *)
(* that the first calls race to create the objects.  And three threads on  *)
(* two once slots, where the routine of the first goes through the second. *)
(* A behaviour is about one of the two.                                    *)
(***************************************************************************)
EXTENDS PthreadBridge, TLC

CONSTANTS Setter, M, C

VARIABLES
    flag,      \* what the waiters wait for
    at         \* how far each client got

mvars == <<vars, flag, at>>

MonitorInit ==
    /\ Init
    /\ slot[M].init = 0
    /\ flag = FALSE
    /\ at = [t \in Threads |-> "start"]

\* A client's next call is made when the bridge returned from the last one.
Does(t, from, k, to) ==
    /\ at[t] = from /\ pc[t] = "idle"
    /\ Call(t, k)
    /\ at' = [at EXCEPT ![t] = to]

\* lock; while (!flag) wait; unlock
Waiter(t) ==
    /\ t # Setter
    /\ \/ Does(t, "start", [op |-> "lock", m |-> M], "test")
       \/ ~flag /\ Does(t, "test", [op |-> "wait", c |-> C, m |-> M], "test")
       \/ flag /\ Does(t, "test", [op |-> "unlock", m |-> M], "done")
    /\ UNCHANGED flag

\* lock; flag = 1; unlock; broadcast
SetFlag(t) ==
    /\ at[t] = "set" /\ pc[t] = "idle"
    /\ flag' = TRUE
    /\ at' = [at EXCEPT ![t] = "unlock"]
    /\ UNCHANGED vars

SetterCalls(t) ==
    /\ \/ Does(t, "start", [op |-> "lock", m |-> M], "set")
       \/ Does(t, "unlock", [op |-> "unlock", m |-> M], "wake")
       \/ Does(t, "wake", [op |-> "broadcast", c |-> C], "done")
    /\ UNCHANGED flag

Client(t) == Waiter(t) \/ (t = Setter /\ (SetterCalls(t) \/ SetFlag(t)))

BridgeStep(t) == Step(t) /\ UNCHANGED <<flag, at>>

Finished == \A t \in Threads : at[t] = "done" /\ pc[t] = "idle"

MonitorNext == \E t \in Threads : Client(t) \/ BridgeStep(t)

\* Every thread that can run is scheduled.  A lock is requested finitely
\* often, so no fairness among the threads waiting for it is assumed.
MonitorSpec ==
    /\ MonitorInit /\ [][MonitorNext]_mvars
    /\ \A t \in Threads : WF_mvars(Client(t) \/ BridgeStep(t))

----------------------------------------------------------------------------

\* No wake-up is lost to the lazy creation of the objects: every waiter sees
\* the flag and leaves, although waiter and setter may be the first to touch
\* the condition's slot and race in cond_get (pthread_bridge.c:59-73).
AllFinish == <>Finished

\* The mutex protects the flag: two threads are never both between a lock and
\* the matching unlock, the wait excepted (pthread_bridge.c:54-56).
Inside(t) == at[t] \in {"test", "set", "unlock"} /\ pc[t] = "idle"
Exclusive == \A t, u \in Threads : Inside(t) /\ Inside(u) => t = u
----------------------------------------------------------------------------
CONSTANTS o1, o2, Onces, Nested, NoOnce

\* The routine of the first slot goes through the second.
NestedOnce == (o1 :> o2) @@ (o2 :> NoOnce)

VARIABLES
    protocol,      \* which of the two the behaviour is about
    onceSlot, onceLock, stack, started, finished

Once == INSTANCE PthreadOnce WITH slot <- onceSlot, lock <- onceLock
ASSUME OnceAssumption == Once!OnceAssumption

onceVars == <<onceSlot, onceLock, stack, started, finished>>
clientsVars == <<protocol, mvars, onceVars>>

ClientsInit == protocol \in {"monitor", "once"} /\ MonitorInit /\ Once!Init

ClientsNext ==
    \/ protocol = "monitor" /\ MonitorNext /\ UNCHANGED <<protocol, onceVars>>
    \/ protocol = "once" /\ Once!Next /\ UNCHANGED <<protocol, mvars>>

(* The fairness of MonitorSpec and of PthreadOnce's Spec. *)
MonitorStep(t) ==
    protocol = "monitor" /\ (Client(t) \/ BridgeStep(t)) /\ UNCHANGED <<protocol, onceVars>>
OnceStep(A) == protocol = "once" /\ A /\ UNCHANGED <<protocol, mvars>>

ClientsSpec ==
    /\ ClientsInit /\ [][ClientsNext]_clientsVars
    /\ \A t \in Threads :
          /\ WF_clientsVars(MonitorStep(t))
          /\ WF_clientsVars(OnceStep(Once!Step(t)))
          /\ SF_clientsVars(OnceStep(Once!Acquire(t)))
          /\ SF_clientsVars(OnceStep(Once!Complete(t)))

(* The mutex protects the flag, and no wake-up is lost, although waiter and
   setter may be the first two to touch both slots (pthread_bridge.c:54-84). *)
EveryoneLeaves == protocol = "monitor" => []Exclusive /\ AllFinish

(* A caller that returns finds the routine finished, and done stays done: a late
   caller that had seen 0 or 1 does not take it back (pthread_bridge.c:164-170). *)
OnceDone == []Once!TypeOK /\ Once!ReturnsInitialised /\ Once!DoneIsFinal

(* Every call of pthread_once returns, also in a routine (pthread_bridge.c:167). *)
CallReturns == Once!CallReturns
=============================================================================

---------------------------- MODULE CountingSem ----------------------------
(***************************************************************************)
(* What the game asks of its semaphores: a count, set while no call is     *)
(* under way, and calls of which each takes effect at once.  A call may    *)
(* also fail, without any effect.                                          *)
(***************************************************************************)
EXTENDS Naturals

CONSTANTS Threads, Sems, NoSem

VARIABLES
    value,       \* the count of each semaphore
    using,       \* per thread, the semaphore of the call it is in
    outcome      \* per thread, how its last call ended, "none" in a call

vars == <<value, using, outcome>>

Init ==
    /\ value \in [Sems -> Nat]
    /\ using = [t \in Threads |-> NoSem]
    /\ outcome = [t \in Threads |-> "none"]

Begin(t, s) ==
    /\ using[t] = NoSem
    /\ using' = [using EXCEPT ![t] = s]
    /\ outcome' = [outcome EXCEPT ![t] = "none"]

Set(s) ==
    /\ \A t \in Threads : using[t] # s
    /\ value'[s] \in Nat
    /\ value' = [value EXCEPT ![s] = value'[s]]

Ends(t, how) ==
    /\ using[t] # NoSem
    /\ using' = [using EXCEPT ![t] = NoSem]
    /\ outcome' = [outcome EXCEPT ![t] = how]

Call(t, s) == Begin(t, s) /\ UNCHANGED value
Initialise(t, s) == Set(s) /\ Begin(t, s)
Destroy(s) == Set(s) /\ value'[s] = 0 /\ UNCHANGED <<using, outcome>>

Post(t) == Ends(t, "posted") /\ value' = [value EXCEPT ![using[t]] = @ + 1]
Take(t) ==
    /\ Ends(t, "taken")
    /\ value[using[t]] > 0
    /\ value' = [value EXCEPT ![using[t]] = @ - 1]
Return(t, how) == Ends(t, how) /\ UNCHANGED value

Next ==
    \/ \E s \in Sems : Destroy(s) \/ \E t \in Threads : Call(t, s) \/ Initialise(t, s)
    \/ \E t \in Threads : Post(t) \/ Take(t) \/ Return(t, "done") \/ Return(t, "failed")

Spec == Init /\ [][Next]_vars
=============================================================================

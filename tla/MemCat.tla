------------------------------- MODULE MemCat -------------------------------
(***************************************************************************)
(* Discovery of the engine's memory categories (memcat_seen in             *)
(* loader/main.c): every allocation of every thread passes here, so known  *)
(* categories are recognised without the lock, and only a new one takes    *)
(* it, looks again and appends.                                            *)
(*                                                                         *)
(* The array is not volatile and the stores of an append are not fenced:   *)
(* other threads may see the count before the entry, so the two become     *)
(* visible in either order, at the latest when the lock is released.       *)
(***************************************************************************)
EXTENDS Integers

CONSTANTS
    Threads, Cats,
    NoThread, NoCat,
    Max             \* MEMCAT_MAX

ASSUME MemCatAssumption ==
    /\ NoThread \notin Threads /\ NoCat \notin Cats
    /\ Max \in Nat

VARIABLES
    memcat,        \* the array
    memcat_n,
    memcat_last,
    lock,          \* owner of memcat_lock
    pc, cat,       \* per thread, where it is in memcat_seen, and for which category
    n              \* the count it read

shared == <<memcat, memcat_n, memcat_last, lock>>
vars == <<shared, pc, cat, n>>

Index == 0..Max - 1

Init ==
    /\ memcat = [i \in Index |-> NoCat]
    /\ memcat_n = 0
    /\ memcat_last = NoCat
    /\ lock = NoThread
    /\ pc = [t \in Threads |-> "idle"]
    /\ cat = [t \in Threads |-> NoCat]
    /\ n = [t \in Threads |-> 0]

Goto(t, p) == pc' = [pc EXCEPT ![t] = p]

\* `cat == memcat_last`, and the read of memcat_n.
SeenSetting(t, c, last) ==
    /\ pc[t] = "idle"
    /\ c # memcat_last
    /\ Goto(t, "scan")
    /\ cat' = [cat EXCEPT ![t] = c]
    /\ n' = [n EXCEPT ![t] = memcat_n]
    /\ memcat_last' = last
    /\ UNCHANGED <<memcat, memcat_n, lock>>

SeenEarly(t, c) == SeenSetting(t, c, c)                          \* mutant
memcat_seen(t, c) == SeenSetting(t, c, memcat_last)

\* Whether the category of thread t is among the first count entries.
Known(t, count) == \E i \in Index : i < count /\ memcat[i] = cat[t]

\* The unlocked search of the entries counted so far.
Scan(t) ==
    /\ pc[t] = "scan"
    /\ Goto(t, IF Known(t, n[t]) THEN "last" ELSE "lock")
    /\ UNCHANGED <<shared, cat, n>>

LockAnyway(t) ==                                                 \* mutant
    /\ pc[t] = "lock"
    /\ lock' = t
    /\ Goto(t, "again")
    /\ UNCHANGED <<memcat, memcat_n, memcat_last, cat, n>>
Lock(t) == lock = NoThread /\ LockAnyway(t)

\* The second search, up to the count of now.
AgainIf(t, known, full) ==
    /\ pc[t] = "again"
    /\ Goto(t, IF known \/ full THEN "unlock" ELSE "append")
    /\ UNCHANGED <<shared, cat, n>>

\* mutants: only up to the count read without the lock; no look at the size
AgainOldCount(t) == AgainIf(t, Known(t, n[t]), memcat_n = Max)
AgainUnbounded(t) == AgainIf(t, Known(t, memcat_n), FALSE)
Again(t) == AgainIf(t, Known(t, memcat_n), memcat_n = Max)

\* The two stores of an append, the entry first ...
StoreEntry(t) ==
    /\ pc[t] = "append"
    /\ memcat' = [memcat EXCEPT ![memcat_n] = cat[t]]
    /\ Goto(t, "count")
    /\ UNCHANGED <<memcat_n, memcat_last, lock, cat, n>>

StoreCount(t) ==
    /\ pc[t] = "count"
    /\ memcat_n' = memcat_n + 1
    /\ Goto(t, "unlock")
    /\ UNCHANGED <<memcat, memcat_last, lock, cat, n>>

\* ... or the count.
CountFirst(t) ==
    /\ pc[t] = "append"
    /\ memcat_n' = memcat_n + 1
    /\ Goto(t, "entry")
    /\ UNCHANGED <<memcat, memcat_last, lock, cat, n>>

EntrySecond(t) ==
    /\ pc[t] = "entry"
    /\ memcat' = [memcat EXCEPT ![memcat_n - 1] = cat[t]]
    /\ Goto(t, "unlock")
    /\ UNCHANGED <<memcat_n, memcat_last, lock, cat, n>>

Unlock(t) ==
    /\ pc[t] = "unlock"
    /\ lock' = NoThread
    /\ Goto(t, "last")
    /\ UNCHANGED <<memcat, memcat_n, memcat_last, cat, n>>

\* `memcat_last = cat`, and memcat_seen returns.
SetLast(t) ==
    /\ pc[t] = "last"
    /\ memcat_last' = cat[t]
    /\ Goto(t, "idle")
    /\ UNCHANGED <<memcat, memcat_n, lock, cat, n>>

Step(t) ==
    \/ \E c \in Cats : memcat_seen(t, c)
    \/ Scan(t) \/ Lock(t) \/ Again(t)
    \/ StoreEntry(t) \/ StoreCount(t) \/ CountFirst(t) \/ EntrySecond(t)
    \/ Unlock(t) \/ SetLast(t)

Next == \E t \in Threads : Step(t)

Spec == Init /\ [][Next]_vars

----------------------------------------------------------------------------

Pcs == {"idle", "scan", "lock", "again", "append", "count", "entry", "unlock", "last"}

TypeOK ==
    /\ memcat \in [Index -> Cats \cup {NoCat}]
    /\ memcat_n \in 0..Max
    /\ memcat_last \in Cats \cup {NoCat}
    /\ lock \in Threads \cup {NoThread}
    /\ pc \in [Threads -> Pcs]
    /\ cat \in [Threads -> Cats \cup {NoCat}]
    /\ n \in [Threads -> 0..Max]

\* A category is listed once, however many threads meet it for the first time
\* at once: the report would count it twice (main.c:341-343,350).
NoDuplicate ==
    \A i, j \in Index : memcat[i] = memcat[j] /\ memcat[i] # NoCat => i = j

\* What memcat_last lets every later allocation skip is in the list, unless the
\* list is full: no category is lost to the lock-free check (main.c:338,345).
Listed(c) == \E i \in Index : memcat[i] = c
NoneLost == memcat_last # NoCat => Listed(memcat_last) \/ memcat_n = Max

\* The entries counted, the one being stored excepted, are there for a report
\* that reads them without the lock (main.c:347-350).
Storing == \E t \in Threads : pc[t] = "entry"
Counted == \A i \in Index : i < memcat_n /\ ~(Storing /\ i = memcat_n - 1) => memcat[i] \in Cats

\* The inductive invariant: one thread at a time is between Lock and Unlock ...
Inside(t) == pc[t] \in {"again", "append", "count", "entry", "unlock"}
Locked == \A t \in Threads : Inside(t) => lock = t
\* ... a thread in memcat_seen is there with a category ...
HasCat == \A t \in Threads : pc[t] # "idle" => cat[t] \in Cats
\* ... nothing is stored beyond the count, but for the append under way ...
Beyond == \A i \in Index :
    i >= memcat_n /\ memcat[i] # NoCat => i = memcat_n /\ \E t \in Threads : pc[t] = "count"
\* ... what an append is about to store is new and has its place ...
Pending == \A t \in Threads :
    /\ pc[t] \in {"append", "entry"} => ~Listed(cat[t])
    /\ pc[t] \in {"append", "count"} => memcat_n < Max
    /\ pc[t] = "count" => memcat[memcat_n] = cat[t]
    /\ pc[t] = "entry" => memcat_n > 0 /\ memcat[memcat_n - 1] = NoCat
\* ... and a thread that is done with its category left it listed.
Done == \A t \in Threads :
    pc[t] \in {"unlock", "last"} => Listed(cat[t]) \/ memcat_n = Max
IInv ==
    /\ TypeOK /\ NoDuplicate /\ NoneLost /\ Counted
    /\ Locked /\ HasCat /\ Beyond /\ Pending /\ Done
=============================================================================

--------------------------- MODULE PthreadThreads ---------------------------
(***************************************************************************)
(* Thread creation of loader/pthread_bridge.c:87-156: attributes bridged   *)
(* on first use, a stack size that depends on how many threads were        *)
(* created before, the start of a new thread, and the registry from which  *)
(* the watchdog of loader/main.c reports; prctl (loader/stubs.c) names a   *)
(* thread and sets its priority by its role.  A role, which is what a name *)
(* is for, stands for the name.  Larger priorities give way to smaller     *)
(* ones, as the kernel counts them.                                        *)
(*                                                                         *)
(* The engine initialises an attribute for every thread it creates.        *)
(***************************************************************************)
EXTENDS Integers, Sequences, FiniteSets

CONSTANTS
    Creators,      \* threads of the game that create threads
    Attrs, NoAttr,
    Uids,          \* kernel ids, which the kernel uses again
    Asked,         \* stack sizes the game asks for
    Small, Default, Big, Largest,
    BigFirst, BigLast,   \* 9 and 11: which creations get a big stack
    MainPrio,
    Places,        \* of the registry
    Lines,         \* 20: threads that a report has room for
    MaxCreated     \* bound: creations

ThreadsAssumption ==
    /\ NoAttr \notin Attrs /\ Asked \subseteq Nat
    /\ {Small, Default, Big, Largest, BigFirst, BigLast, MainPrio, Places, Lines, MaxCreated} \subseteq Nat
    /\ 0 < Small /\ Small <= Default /\ Default < Big /\ Big <= Largest
    /\ MainPrio > 0

VARIABLES
    main_prio, threads_created,
    attr,          \* the bridged attribute's stack size, 0 while uninitialised
    call,          \* per creator, the pthread_create it is in
    threads,       \* uid -> the thread that has it
    registry,      \* thread_registry, oldest first
    starts, fresh  \* creations so far, and the attributes initialised
                   \* since they were last used (history)

vars == <<main_prio, threads_created, attr, call, threads, registry, starts, fresh>>

None == [state |-> "none"]
Idle == [pc |-> "idle"]
In(c, p) == call[c].pc = p
Alive(u) == threads[u].state \in {"new", "runs"}

Init ==
    /\ main_prio = 0 /\ threads_created = 0
    /\ attr = [a \in Attrs |-> 0]
    /\ call = [c \in Creators |-> Idle]
    /\ threads = [u \in Uids |-> None]
    /\ registry = <<>>
    /\ starts = 0 /\ fresh = {}

Bridged(a) == IF attr[a] = 0 THEN Default ELSE attr[a]               \* attr_get
Unused(a) == a \in fresh \/ attr[a] = 0
InUse(a) == \E c \in Creators : call[c] # Idle /\ call[c].attr = a

\* pthread_attr_init: the slot is cleared and bridged with the default stack.
AttrInit(a) ==
    /\ ~InUse(a)
    /\ attr' = [attr EXCEPT ![a] = Default]
    /\ fresh' = fresh \cup {a}
    /\ UNCHANGED <<main_prio, threads_created, call, threads, registry, starts>>

AttrDestroy(a) ==
    /\ ~InUse(a) /\ attr[a] # 0
    /\ attr' = [attr EXCEPT ![a] = 0]
    /\ fresh' = fresh \ {a}
    /\ UNCHANGED <<main_prio, threads_created, call, threads, registry, starts>>

\* pthread_attr_setstacksize, and setstack, whose memory is ignored.
Raw(n) == n                                                          \* mutant
Clamp(n) == IF n < Small THEN Small ELSE IF n > Largest THEN Largest ELSE n
SetStack(a, n) ==
    /\ ~InUse(a) /\ Unused(a)
    /\ attr' = [attr EXCEPT ![a] = Clamp(n)]
    /\ fresh' = fresh \cup {a}
    /\ UNCHANGED <<main_prio, threads_created, call, threads, registry, starts>>

\* pthread_create: main's priority, which the kernel may not tell, and which is
\* asked for again at the next creation then; until it is known the creator is
\* the main thread; attr_get; the read of `++threads_created` ...
Create(c, a) ==
    /\ call[c] = Idle /\ starts < MaxCreated
    /\ a # NoAttr => Unused(a) /\ ~InUse(a)
    /\ main_prio' \in IF main_prio = 0 THEN {0, MainPrio} ELSE {main_prio}
    /\ call' = [call EXCEPT ![c] =
          [pc |-> "count", attr |-> a, got |-> threads_created, nth |-> starts + 1,
           told |-> main_prio', asked |-> IF a = NoAttr THEN Default ELSE Bridged(a)]]
    /\ attr' = IF a = NoAttr THEN attr ELSE [attr EXCEPT ![a] = Bridged(a)]
    /\ starts' = starts + 1
    /\ UNCHANGED <<threads_created, threads, registry, fresh>>

\* ... its write ...
CountAs(c, idx) ==
    /\ In(c, "count")
    /\ threads_created' = idx
    /\ call' = [call EXCEPT ![c].pc = "start", ![c].got = idx]
    /\ UNCHANGED <<main_prio, attr, threads, registry, starts, fresh>>

CountNot(c) == In(c, "count") /\ CountAs(c, call[c].got)                 \* mutant
Count(c) == In(c, "count") /\ CountAs(c, call[c].got + 1)

\* ... and the stack, then the kernel's thread, if there can be one.
BelowLast(idx) == idx >= BigFirst /\ idx < BigLast                   \* mutant
IsBig(idx) == idx >= BigFirst /\ idx <= BigLast
Want(idx) == IF IsBig(idx) THEN Big ELSE Default
StackFor(c) ==
    LET want == Want(call[c].got)
    IN  IF call[c].attr = NoAttr \/ want > Default THEN want ELSE attr[call[c].attr]

Start(c) ==
    /\ In(c, "start")
    /\ LET r == call[c] IN
       /\ attr' = IF r.attr # NoAttr THEN [attr EXCEPT ![r.attr] = StackFor(c)] ELSE attr
       /\ \/ \E u \in Uids :
                /\ threads[u] = None
                /\ threads' = [threads EXCEPT ![u] =
                      [state |-> "new", stack |-> StackFor(c), prio |-> MainPrio,
                       name |-> "none", nth |-> r.nth, told |-> r.told, asked |-> r.asked]]
          \/ UNCHANGED threads
       /\ fresh' = fresh \ {r.attr}
    /\ call' = [call EXCEPT ![c] = Idle]
    /\ UNCHANGED <<main_prio, threads_created, registry, starts>>

\* thread_registry_add under its lock: an entry per uid, which takes the new
\* name, while there is room.
Known(u) == \E i \in 1..Len(registry) : registry[i].uid = u
Added(u, name) ==
    IF Len(registry) < Places THEN Append(registry, [uid |-> u, name |-> name]) ELSE registry
RegisterMore(u, name) == Added(u, name)                              \* mutant
RegisterOnce(u, name) == IF Known(u) THEN registry ELSE Added(u, name)  \* mutant
Registered(u, name) ==
    IF Known(u)
    THEN [i \in 1..Len(registry) |->
             IF registry[i].uid = u THEN [uid |-> u, name |-> name] ELSE registry[i]]
    ELSE Added(u, name)

\* thread_boot_fn: what a new thread does before the game's function.
BootAt(u, prio) ==
    /\ threads[u].state = "new"
    /\ registry' = Registered(u, "pthread")
    /\ threads' = [threads EXCEPT ![u].state = "runs", ![u].prio = prio, ![u].name = "pthread"]
    /\ UNCHANGED <<main_prio, threads_created, attr, call, starts, fresh>>

BootAsIs(u) == threads[u].state = "new" /\ BootAt(u, threads[u].prio)        \* mutant
Boot(u) ==
    threads[u].state = "new" /\ BootAt(u, IF main_prio # 0 THEN main_prio + 1 ELSE threads[u].prio)

\* prctl(PR_SET_NAME), by role: workers poll, far below; files come first.
Below == [job |-> 4, file |-> 1, other |-> 2]
SetName(u, name) ==
    /\ threads[u].state = "runs"
    /\ registry' = Registered(u, name)
    /\ threads' = [threads EXCEPT
          ![u].prio = IF main_prio # 0 THEN main_prio + Below[name] ELSE @, ![u].name = name]
    /\ UNCHANGED <<main_prio, threads_created, attr, call, starts, fresh>>

\* The thread ends, and the kernel may give its uid to another; the registry
\* keeps the entry.
Exit(u) ==
    /\ threads[u].state = "runs"
    /\ threads' = [threads EXCEPT ![u] = None]
    /\ UNCHANGED <<main_prio, threads_created, attr, call, registry, starts, fresh>>

\* The line that watchdog_fn logs: entries the kernel has a thread for, while it
\* has room.
ReportUpTo(end) ==
    LET there == {i \in 1..end : Alive(registry[i].uid)}
    IN  {registry[i] : i \in {i \in there : Cardinality({j \in there : j < i}) < Lines}}
ReportFirst == ReportUpTo(IF Lines < Len(registry) THEN Lines ELSE Len(registry))  \* mutant
watchdog_fn == ReportUpTo(Len(registry))

Next ==
    \/ \E a \in Attrs : AttrInit(a) \/ AttrDestroy(a) \/ \E n \in Asked : SetStack(a, n)
    \/ \E c \in Creators : Count(c) \/ Start(c) \/ \E a \in Attrs \cup {NoAttr} : Create(c, a)
    \/ \E u \in Uids : Boot(u) \/ Exit(u) \/ \E name \in DOMAIN Below : SetName(u, name)

Spec == Init /\ [][Next]_vars

----------------------------------------------------------------------------

TypeOK ==
    /\ main_prio \in {0, MainPrio} /\ threads_created \in 0..MaxCreated
    /\ attr \in [Attrs -> {0} \cup Small..Largest]
    /\ \A c \in Creators : call[c].pc \in {"idle", "count", "start"}
    /\ \A u \in Uids : Alive(u) => threads[u].stack \in Small..Largest
    /\ registry \in Seq([uid : Uids, name : {"pthread"} \cup DOMAIN Below]) /\ Len(registry) <= Places
    /\ starts \in 0..MaxCreated /\ fresh \subseteq Attrs

\* The 9th to 11th threads created, the AssetStream's, have the big stack, and
\* every other thread what the game asked for (pthread_bridge.c:146-150).
BigStacks ==
    \A u \in Uids : Alive(u) =>
        threads[u].stack =
            IF threads[u].nth \in BigFirst..BigLast THEN Big ELSE threads[u].asked

\* "one notch BELOW main: spinning workers must never starve it"
\* (pthread_bridge.c:135), whatever role its name gives a thread later: a thread
\* for whose creation the kernel had told main's priority, then or before.
BelowMain ==
    \A u \in Uids : threads[u].state = "runs" /\ threads[u].told # 0 => threads[u].prio > MainPrio

\* The watchdog knows every running thread once, also when the kernel used an
\* id again, as long as the registry has room (pthread_bridge.c:127-128).
KnownOnce ==
    /\ \A i, j \in 1..Len(registry) : registry[i].uid = registry[j].uid => i = j
    /\ \A u \in Uids : threads[u].state = "runs" /\ Len(registry) < Places => Known(u)

\* "every 4s, log what every registered thread is doing" (main.c:210): each is
\* there under its own name, not that of an ended one whose id it has, unless
\* others fill the line.
Reported ==
    \A u \in Uids : threads[u].state = "runs" /\ Known(u) =>
        \/ [uid |-> u, name |-> threads[u].name] \in watchdog_fn
        \/ Cardinality(watchdog_fn) = Lines /\ \A r \in watchdog_fn : r.uid # u
=============================================================================

------------------------------ MODULE MemAcct ------------------------------
(***************************************************************************)
(* The account of the engine's Render category in loader/main.c: hooks on  *)
(* its two allocation entry points and on its free keep render_live and    *)
(* render_peak.  One entry point may route through the other, so a global  *)
(* acct_depth says which call counts.  Nothing is locked: a counter is     *)
(* read in one step and written in another.                                *)
(***************************************************************************)
EXTENDS Integers, FiniteSets

CONSTANTS
    Threads, Blocks,
    Render,        \* the blocks allocated from the Render category
    Size,          \* bytes asked for
    Usable,        \* bytes cat_usable reports of the block
    MaxFrees       \* bound: frees

AcctAssumption ==
    /\ Render \subseteq Blocks /\ MaxFrees \in Nat
    /\ Size \in [Blocks -> Nat] /\ Usable \in [Blocks -> Nat]
    /\ \A b \in Blocks : Size[b] <= Usable[b]

VARIABLES
    acct_depth, render_live, render_peak,
    known,         \* render_cat is set
    call,          \* per thread, the hook it is in
    live,          \* blocks the engine has (the truth)
    most,          \* the most bytes of Render there ever were (history)
    drift, frees   \* how much more than asked for was given back (history)

account == <<render_live, render_peak, known>>
history == <<most, drift, frees>>
vars == <<acct_depth, account, call, live, history>>

Idle == [pc |-> "idle"]
In(t, p) == call[t].pc = p
Goto(t, r) == call' = [call EXCEPT ![t] = r]
Busy == live \cup {call[t].blk : t \in {u \in Threads : call[u] # Idle}}
Cells(S) == UNION {{b} \X (1..Size[b]) : b \in S \cap Render}
Bytes(S) == Cardinality(Cells(S))
Larger(a, b) == IF a > b THEN a ELSE b
LowerDrop(a, b) == IF b > a THEN 0 ELSE a - b

Init ==
    /\ acct_depth = 0
    /\ render_live = 0 /\ render_peak = 0 /\ known = FALSE
    /\ call = [t \in Threads |-> Idle]
    /\ live = {}
    /\ most = 0 /\ drift = 0 /\ frees = 0

\* render_acct, to be added (or, before the free, taken off): the category is
\* recognised by its name the first time.
After(t, b, then) == Goto(t, IF then = "idle" THEN Idle ELSE [pc |-> then, blk |-> b])
Acct(t, b, then) ==
    IF b \in Render THEN Goto(t, [pc |-> "read", blk |-> b, then |-> then]) ELSE After(t, b, then)

Read(t) ==
    /\ In(t, "read")
    /\ known' = TRUE
    /\ Goto(t, [pc |-> "write", blk |-> call[t].blk, then |-> call[t].then, got |-> render_live])
    /\ UNCHANGED <<acct_depth, render_live, render_peak, live, history>>

\* The peak is the larger of the account and of what was kept so far.
WriteKeeping(t, kept) ==
    /\ In(t, "write")
    /\ LET c == call[t]
           new == IF c.then = "free" THEN LowerDrop(c.got, Usable[c.blk]) ELSE c.got + Size[c.blk]
       IN  /\ render_live' = new
           /\ render_peak' = Larger(new, kept)
           /\ After(t, c.blk, c.then)
    /\ UNCHANGED <<acct_depth, known, live, history>>

WriteForgetting(t) == WriteKeeping(t, 0)                             \* mutant
Write(t) == WriteKeeping(t, render_peak)

\* Blocks the original functions gave out.
Given(b) ==
    /\ live' = live \cup {b}
    /\ most' = Larger(most, Bytes(live'))
    /\ UNCHANGED <<drift, frees>>

\* hook_CatAlloc5: acct_depth++ ...
CatAlloc5(t, b) ==
    /\ call[t] = Idle /\ b \notin Busy
    /\ Goto(t, [pc |-> "enter", blk |-> b, got |-> acct_depth])
    /\ UNCHANGED <<acct_depth, account, live, history>>

Enter(t) ==
    /\ In(t, "enter")
    /\ acct_depth' = call[t].got + 1
    /\ Goto(t, [pc |-> "orig5", blk |-> call[t].blk])
    /\ UNCHANGED <<account, live, history>>

\* hook_CatAlloc2 counts unless it is called by the other hook's original.
CountsAlways == TRUE                                                  \* mutant
Counts == acct_depth = 0

GoAlloc2(t, b, then) ==
    /\ Goto(t, [pc |-> "alloc2", blk |-> b, then |-> then, counts |-> Counts])
    /\ UNCHANGED <<acct_depth, account, live, history>>

CatAlloc2(t, b) == call[t] = Idle /\ b \notin Busy /\ GoAlloc2(t, b, "idle")

Alloc2(t) ==
    /\ In(t, "alloc2")
    /\ LET c == call[t] IN
       \/ /\ Given(c.blk)
          /\ IF c.counts THEN Acct(t, c.blk, c.then) ELSE After(t, c.blk, c.then)
       \/ /\ After(t, c.blk, c.then)
          /\ UNCHANGED <<live, history>>
    /\ UNCHANGED <<acct_depth, account>>

\* ... the original, which may go through hook_CatAlloc2 ...
Through(t) == In(t, "orig5") /\ GoAlloc2(t, call[t].blk, "leave")

Direct(t) ==
    /\ In(t, "orig5")
    /\ Given(call[t].blk) \/ UNCHANGED <<live, history>>
    /\ Goto(t, [pc |-> "leave", blk |-> call[t].blk])
    /\ UNCHANGED <<acct_depth, account>>

\* ... acct_depth-- and the account, unless there was no memory.
Leave(t) ==
    /\ In(t, "leave")
    /\ Goto(t, [pc |-> "left", blk |-> call[t].blk, got |-> acct_depth])
    /\ UNCHANGED <<acct_depth, account, live, history>>

LeftAfter(t, down) ==
    /\ In(t, "left")
    /\ acct_depth' = call[t].got - down
    /\ IF call[t].blk \in live THEN Acct(t, call[t].blk, "idle") ELSE Goto(t, Idle)
    /\ UNCHANGED <<account, live, history>>

LeftDeep(t) == LeftAfter(t, IF call[t].blk \in live THEN 1 ELSE 0)    \* mutant
Left(t) == LeftAfter(t, 1)

\* hook_CatFree: taken off the account before it is freed.
CatFree(t, b) ==
    /\ call[t] = Idle /\ b \in live \ {call[u].blk : u \in {v \in Threads : call[v] # Idle}}
    /\ frees < MaxFrees
    /\ IF known THEN Acct(t, b, "free") ELSE Goto(t, [pc |-> "free", blk |-> b])
    /\ UNCHANGED <<acct_depth, account, live, history>>

Free(t) ==
    /\ In(t, "free")
    /\ live' = live \ {call[t].blk}
    /\ drift' = drift + IF call[t].blk \in Render THEN Usable[call[t].blk] - Size[call[t].blk] ELSE 0
    /\ frees' = frees + 1
    /\ Goto(t, Idle)
    /\ UNCHANGED <<acct_depth, account, most>>

Next ==
    \E t \in Threads :
        \/ \E b \in Blocks : CatAlloc5(t, b) \/ CatAlloc2(t, b) \/ CatFree(t, b)
        \/ Enter(t) \/ Through(t) \/ Direct(t) \/ Leave(t) \/ Left(t)
        \/ Alloc2(t) \/ Read(t) \/ Write(t) \/ Free(t)

Spec == Init /\ [][Next]_vars

----------------------------------------------------------------------------

Pcs == {"idle", "read", "write", "enter", "orig5", "leave", "left", "alloc2", "free"}

TypeOK ==
    /\ acct_depth \in 0..1
    /\ render_live \in Nat /\ render_peak \in Nat /\ known \in BOOLEAN
    /\ \A t \in Threads : call[t].pc \in Pcs
    /\ live \subseteq Blocks
    /\ most \in Nat /\ drift \in Nat /\ frees \in 0..MaxFrees

\* "Alloc5 may route through Alloc2: count once" (main.c:372): the account is
\* what the engine holds, but for what cat_usable said too much of freed blocks.
Quiet == \A t \in Threads : call[t] = Idle
CountedOnce == Quiet => render_live \in (Bytes(live) - drift)..Bytes(live)

\* The peak is the most the category ever held, with the same reservation: it
\* is not lost when blocks are freed (main.c:362).
PeakReal == Quiet => render_peak \in (most - drift)..most
=============================================================================

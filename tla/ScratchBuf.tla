----------------------------- MODULE ScratchBuf -----------------------------
(***************************************************************************)
(* The scratch buffer of loader/default_dynlib.c that VitaGL's patched     *)
(* glCopyTexImage2D reads back into: it grows to the largest request and   *)
(* is not given back, while blocks of other decoders, which come through   *)
(* the same vgl_scratch_put, are.  VitaGL calls it under gl_lock, one      *)
(* decoder inside another at most Nested deep.                             *)
(***************************************************************************)
EXTENDS Naturals, Sequences

CONSTANTS
    Blocks, NoBlock,
    Pools,        \* where memory may come from: "vgl", "newlib"
    MaxSize,      \* bound: sizes asked for
    Nested

ScratchAssumption ==
    NoBlock \notin Blocks /\ Pools \subseteq {"vgl", "newlib"} /\ MaxSize \in Nat /\ Nested \in Nat

VARIABLES
    scratch_buf, scratch_cap,
    home,         \* where a block is from, "none" when it is free
    room,         \* its size
    using,        \* the decoders under way: the block each has, and its need
    after         \* history: where the buffer is from that took a block's place

vars == <<scratch_buf, scratch_cap, home, room, using, after>>

Init ==
    /\ scratch_buf = NoBlock /\ scratch_cap = 0
    /\ home = [b \in Blocks |-> "none"]
    /\ room = [b \in Blocks |-> 0]
    /\ using = <<>>
    /\ after = [b \in Blocks |-> "none"]

Use(b, n) == using' = Append(using, [blk |-> b, need |-> n])

\* vgl_scratch_get of what fits ...
Fits(n) == n <= scratch_cap
Reuse(n) ==
    /\ Len(using) < Nested
    /\ Fits(n)
    /\ scratch_buf # NoBlock
    /\ Use(scratch_buf, n)
    /\ UNCHANGED <<scratch_buf, scratch_cap, home, room, after>>

\* ... and of more, from the first pool that has it, if any.  Where the new
\* block is from decides about the old one: newlib's takes its place and it is
\* left, VitaGL's and vglFree has it.  What vglFree does with a block of
\* newlib's is VitaGL's business: it is freed or left.
KeepsAll(from) == FALSE                                              \* mutant
GivesBack(from) == from # "newlib"
Left(old, from) ==
    IF old = NoBlock THEN {"none"}
    ELSE IF ~GivesBack(from) THEN {home[old]}
    ELSE IF home[old] = "newlib" THEN {"none", "newlib"}
    ELSE {"none"}
CapSum(n) == scratch_cap + n                                         \* mutant
CapOf(n) == n
Grow(n, b, from) ==
    /\ Len(using) < Nested
    /\ ~Fits(n) /\ home[b] = "none"
    /\ \E h \in Left(scratch_buf, from) :
          home' = [c \in Blocks |-> IF c = b THEN from ELSE IF c = scratch_buf THEN h ELSE home[c]]
    /\ after' = [c \in Blocks |->
          IF c = b THEN "none" ELSE IF c = scratch_buf THEN from ELSE after[c]]
    /\ room' = [room EXCEPT ![b] = n]
    /\ scratch_buf' = b
    /\ scratch_cap' = CapOf(n)
    /\ Use(b, n)

\* A decoder that allocates a block of its own.
Own(n, b) ==
    /\ Len(using) < Nested
    /\ home[b] = "none"
    /\ home' = [home EXCEPT ![b] = "vgl"]
    /\ room' = [room EXCEPT ![b] = n]
    /\ after' = [after EXCEPT ![b] = "none"]
    /\ Use(b, n)
    /\ UNCHANGED <<scratch_buf, scratch_cap>>

\* vgl_scratch_put: frees what is not the scratch buffer.
FreedAlways(b) == TRUE                                               \* mutant
Freed(b) == b # scratch_buf
vgl_scratch_put ==
    /\ using # <<>>
    /\ LET b == using[Len(using)].blk
       IN  home' = IF Freed(b) THEN [home EXCEPT ![b] = "none"] ELSE home
    /\ using' = SubSeq(using, 1, Len(using) - 1)
    /\ UNCHANGED <<scratch_buf, scratch_cap, room, after>>

Next ==
    \/ vgl_scratch_put
    \/ \E n \in 1..MaxSize :
          \/ Reuse(n)
          \/ \E b \in Blocks : Own(n, b) \/ \E from \in Pools : Grow(n, b, from)

Spec == Init /\ [][Next]_vars

----------------------------------------------------------------------------

TypeOK ==
    /\ scratch_buf \in Blocks \cup {NoBlock} /\ scratch_cap \in 0..MaxSize
    /\ home \in [Blocks -> {"none", "vgl", "newlib"}] /\ room \in [Blocks -> 0..MaxSize]
    /\ using \in Seq([blk : Blocks, need : 1..MaxSize]) /\ Len(using) <= Nested
    /\ after \in [Blocks -> {"none", "vgl", "newlib"}]

\* What a decoder works in is allocated and large enough, and the cap says
\* what the buffer has (default_dynlib.c:332).
InUseAlive ==
    /\ \A i \in 1..Len(using) :
          home[using[i].blk] # "none" /\ room[using[i].blk] >= using[i].need
    /\ scratch_buf # NoBlock => home[scratch_buf] # "none" /\ room[scratch_buf] = scratch_cap

\* Blocks that nobody has any more and that are still allocated.
Leaked ==
    {b \in Blocks :
        home[b] # "none" /\ b # scratch_buf /\ \A i \in 1..Len(using) : using[i].blk # b}

\* Growing leaks only where newlib had to help out, as the old block or as the
\* new one (default_dynlib.c:335,337), and the leak has a bound: what is left
\* is smaller than the buffer, and no two are of one size.
LeakBounded ==
    /\ \A b \in Leaked :
          /\ after[b] = "newlib" \/ (after[b] = "vgl" /\ home[b] = "newlib")
          /\ room[b] < scratch_cap
    /\ \A b, c \in Leaked : b # c => room[b] # room[c]

\* "old block was from a vgl pool: free it; a newlib one is leaked"
\* (default_dynlib.c:337).
OldBlockRule ==
    [][LET old == scratch_buf IN
       old # NoBlock /\ scratch_buf' # old => (home'[old] = "none" <=> home[old] = "vgl")]_vars
=============================================================================

----------------------------- MODULE TexCopies -----------------------------
(***************************************************************************)
(* The CPU copies of textures in loader/main.c.  hook_TexFlush frees a     *)
(* texture's copy once it is uploaded; hook_TexAcquire re-creates it, with *)
(* zeros, for a lock and marks the texture sticky, so that the copy is not *)
(* freed again.  The list of sticky textures has TEXSET_N places and no    *)
(* lock.  A texture is its address: destroyed, the next one may get it.    *)
(***************************************************************************)
EXTENDS Naturals, SequencesExt

CONSTANTS
    Threads, Textures,
    N                  \* TEXSET_N

TexAssumption == N \in Nat

VARIABLES
    copy,              \* the CPU copy: "gone", or what it holds
    glid,              \* whether there is a texture on the GPU
    uploaded,          \* whether the GPU has all that was written to the copy
    alive, lockable,   \* textures there are, and those the game locks
    holder,            \* per texture, threads that have it locked
    tex_sticky,
    call,              \* per thread, the hook it is in
    want, locked       \* what the copy of the unpatched game holds, and
                       \* the textures the game tried to lock (history)

texture == <<copy, glid, uploaded, alive, lockable>>
vars == <<texture, holder, tex_sticky, call, want, locked>>

Idle == [pc |-> "idle"]
In(t, p) == call[t].pc = p
Goto(t, p, x) == call' = [call EXCEPT ![t] = [pc |-> p, tex |-> x]]
Return(t) == call' = [call EXCEPT ![t] = Idle]
InUse(x) == holder[x] # {} \/ \E t \in Threads : call[t] # Idle /\ call[t].tex = x

Init ==
    /\ copy = [x \in Textures |-> "gone"]
    /\ glid = [x \in Textures |-> FALSE]
    /\ uploaded = [x \in Textures |-> FALSE]
    /\ alive = {} /\ lockable = {}
    /\ holder = [x \in Textures |-> {}]
    /\ tex_sticky = <<>>
    /\ call = [t \in Threads |-> Idle]
    /\ want = [x \in Textures |-> "zeros"]
    /\ locked = {}

\* The game creates a texture: with its pixels, or empty, to be locked.
Create(x, empty) ==
    /\ x \notin alive
    /\ alive' = alive \cup {x}
    /\ lockable' = IF empty THEN lockable \cup {x} ELSE lockable
    /\ want' = [want EXCEPT ![x] = IF empty THEN "zeros" ELSE "pixels"]
    /\ copy' = [copy EXCEPT ![x] = want'[x]]
    /\ UNCHANGED <<glid, uploaded, holder, tex_sticky, call, locked>>

\* hook_TexFlush: the original uploads the copy, unless it cannot create the
\* GPU's texture ...
Flush(t, x) ==
    /\ call[t] = Idle /\ x \in alive
    /\ \E ok \in {TRUE, glid[x]} :
          /\ glid' = [glid EXCEPT ![x] = @ \/ (ok /\ copy[x] # "gone")]
          /\ uploaded' = [uploaded EXCEPT ![x] = @ \/ (ok /\ copy[x] # "gone")]
    /\ Goto(t, "look", x)
    /\ UNCHANGED <<copy, alive, lockable, holder, tex_sticky, want, locked>>

\* ... then the copy is looked at ...
LookFreeing(t, may) ==
    /\ In(t, "look")
    /\ IF copy[call[t].tex] # "gone" /\ may THEN Goto(t, "free", call[t].tex) ELSE Return(t)
    /\ UNCHANGED <<texture, holder, tex_sticky, want, locked>>

tex_is_sticky(x) == Contains(tex_sticky, x)
LookUnmarked(t) ==                                                   \* mutant
    call[t] # Idle /\ LookFreeing(t, glid[call[t].tex])
LookMissing(t) ==                                                    \* mutant
    call[t] # Idle /\ LookFreeing(t, ~tex_is_sticky(call[t].tex))
Look(t) == call[t] # Idle /\ LookFreeing(t, glid[call[t].tex] /\ ~tex_is_sticky(call[t].tex))

\* ... and freed.
FreeCopy(t) ==
    /\ In(t, "free")
    /\ copy' = [copy EXCEPT ![call[t].tex] = "gone"]
    /\ Return(t)
    /\ UNCHANGED <<glid, uploaded, alive, lockable, holder, tex_sticky, want, locked>>

\* hook_TexAcquire: the mark, if there is a place for it ...
MarkTwice(x) == Append(tex_sticky, x)                                \* mutant
Marked(x) == IF tex_is_sticky(x) \/ Len(tex_sticky) >= N THEN tex_sticky ELSE Append(tex_sticky, x)

Acquire(t, x) ==
    /\ call[t] = Idle /\ x \in lockable
    /\ t \notin holder[x]
    /\ tex_sticky' = Marked(x)
    /\ Goto(t, "recreate", x)
    /\ locked' = locked \cup {x}
    /\ UNCHANGED <<texture, holder, want>>

\* ... the copy, which may not be had, and the original's lock.
Recreate(t) ==
    /\ In(t, "recreate")
    /\ LET x == call[t].tex IN
       \/ /\ copy' = [copy EXCEPT ![x] = IF @ = "gone" THEN "zeros" ELSE @]
          /\ holder' = [holder EXCEPT ![x] = @ \cup {t}]
       \/ /\ copy[x] = "gone"
          /\ UNCHANGED <<copy, holder>>
    /\ Return(t)
    /\ UNCHANGED <<glid, uploaded, alive, lockable, tex_sticky, want, locked>>

\* The game draws into a locked texture, and unlocks it.
Draw(t, x) ==
    /\ call[t] = Idle /\ t \in holder[x]
    /\ copy' = [copy EXCEPT ![x] = "pixels"]
    /\ want' = [want EXCEPT ![x] = "pixels"]
    /\ uploaded' = [uploaded EXCEPT ![x] = FALSE]
    /\ UNCHANGED <<glid, alive, lockable, holder, tex_sticky, call, locked>>

Release(t, x) ==
    /\ call[t] = Idle /\ t \in holder[x]
    /\ holder' = [holder EXCEPT ![x] = @ \ {t}]
    /\ UNCHANGED <<texture, tex_sticky, call, want, locked>>

\* hook_TexDestroy of a texture nobody uses: the last place moves to its own.
NoUnmark(x) == tex_sticky                                            \* mutant
UnmarkLast(x) == IF tex_is_sticky(x) THEN Front(tex_sticky) ELSE tex_sticky  \* mutant
Unmarked(x) ==
    IF tex_is_sticky(x)
    THEN Front([i \in DOMAIN tex_sticky |-> IF tex_sticky[i] = x THEN Last(tex_sticky) ELSE tex_sticky[i]])
    ELSE tex_sticky

Destroy(x) ==
    /\ x \in alive /\ ~InUse(x)
    /\ tex_sticky' = Unmarked(x)
    /\ alive' = alive \ {x}
    /\ lockable' = lockable \ {x}
    /\ copy' = [copy EXCEPT ![x] = "gone"]
    /\ glid' = [glid EXCEPT ![x] = FALSE]
    /\ uploaded' = [uploaded EXCEPT ![x] = FALSE]
    /\ locked' = locked \ {x}
    /\ UNCHANGED <<holder, call, want>>

Next ==
    \/ \E x \in Textures : Destroy(x) \/ \E empty \in BOOLEAN : Create(x, empty)
    \/ \E t \in Threads :
          \/ \E x \in Textures : Flush(t, x) \/ Acquire(t, x) \/ Draw(t, x) \/ Release(t, x)
          \/ Look(t) \/ FreeCopy(t) \/ Recreate(t)

Spec == Init /\ [][Next]_vars

----------------------------------------------------------------------------

TypeOK ==
    /\ copy \in [Textures -> {"gone", "zeros", "pixels"}]
    /\ want \in [Textures -> {"zeros", "pixels"}]
    /\ glid \in [Textures -> BOOLEAN] /\ uploaded \in [Textures -> BOOLEAN]
    /\ lockable \subseteq alive /\ alive \subseteq Textures /\ locked \subseteq lockable
    /\ holder \in [Textures -> SUBSET Threads]
    /\ tex_sticky \in Seq(Textures) /\ Len(tex_sticky) <= N /\ IsInjective(tex_sticky)
    /\ \A t \in Threads : call[t] \in {Idle} \cup [pc : {"look", "free", "recreate"}, tex : Textures]

\* "marks the texture sticky so it is never freed again" (main.c:382).
NeverFreedAgain ==
    [][\A x \in locked \cap locked' : copy[x] # "gone" => copy'[x] # "gone"]_vars

\* A locked texture holds what it would hold in the unpatched game, also in
\* the copy re-created for the lock (main.c:383, "which is what the buffer
\* held").
HeldContent == \A x \in Textures : holder[x] # {} => copy[x] = want[x]

\* Pixels are freed only once the GPU has them: "after Flush() has uploaded a
\* texture the copy is dead weight" (main.c:379).
NothingLost == \A x \in alive : copy[x] = "gone" /\ want[x] = "pixels" => uploaded[x]

\* The list has the textures there was a lock of, and no texture that only
\* got the address of a destroyed one and would keep its copy for good
\* (main.c:387-390,421).
StickyExact == ToSet(tex_sticky) = locked
=============================================================================

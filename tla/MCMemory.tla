------------------------------ MODULE MCMemory ------------------------------
(* The allocators of loader/default_dynlib.c: the emergency set with six
   cells, so that three pointers may be live, and every assignment of hashes;
   which allocator a block belongs to; and VitaGL's scratch buffer.  And the
   memory hooks of loader/main.c: the categories, met by two threads and more
   than the list takes, Render's account, and copies of textures.
   They are checked one at a time: "part" says which a behaviour is about. *)
EXTENDS MemCat, TLC

CONSTANTS
    b1, b2, b3, x1, x2, x3,                \* blocks, textures
    Callers,                               \* threads elsewhere
    Ptrs, Empty, SetSize,                  \* of the emergency set
    Blocks, NULL, Sizes, BigFrom, BigTab, EmergMax, ReallocsBig,
    Pools, MaxSize,                        \* of the scratch buffer
    Render, Size, Usable, MaxFrees,        \* of the account
    Textures, N

(* Two blocks of Render, of which one is larger than asked for, and another. *)
SizeOf == (b1 :> 2) @@ (b2 :> 3) @@ (b3 :> 1)
UsableOf == (b1 :> 3) @@ (b2 :> 3) @@ (b3 :> 1)

VARIABLES
    part,
    hash, emerg_set, emerg_live, owned, call,
    home, word, big_tab, set, wrote, misrouted,
    scratch_buf, scratch_cap, pool, room, using, after,
    acct_depth, render_live, render_peak, known, acctCall, live, most, drift, frees,
    copy, glid, uploaded, alive, lockable, holder, tex_sticky, texCall, want, locked

Set == INSTANCE EmergSet WITH Threads <- Callers
ASSUME SetAssumption == Set!EmergAssumption

Family == INSTANCE Allocators WITH emerg_set <- set
ASSUME FamilyAssumption == Family!AllocAssumption

Scratch == INSTANCE ScratchBuf WITH NoBlock <- NULL, Nested <- 1, home <- pool
ASSUME ScratchAssumption == Scratch!ScratchAssumption

Acct == INSTANCE MemAcct WITH Threads <- Callers, call <- acctCall
ASSUME AcctAssumption == Acct!AcctAssumption

Tex == INSTANCE TexCopies WITH Threads <- Callers, call <- texCall
ASSUME TexAssumption == Tex!TexAssumption

setVars == <<hash, emerg_set, emerg_live, owned, call>>
familyVars == <<home, word, big_tab, set, wrote, misrouted>>
scratchVars == <<scratch_buf, scratch_cap, pool, room, using, after>>
acctVars == <<acct_depth, render_live, render_peak, known, acctCall, live, most, drift, frees>>
texVars == <<copy, glid, uploaded, alive, lockable, holder, tex_sticky, texCall, want, locked>>
hookVars == <<acctVars, texVars>>
poolVars == <<setVars, familyVars, scratchVars>>
allVars == <<part, vars, poolVars, hookVars>>

AllInit ==
    /\ part \in {"categories", "set", "family", "scratch", "account", "textures"}
    /\ Init /\ Set!Init /\ Family!Init /\ Scratch!Init /\ Acct!Init /\ Tex!Init
    /\ part # "set" => \A p \in Ptrs : hash[p] = 0
SetStep(A) == part = "set" /\ A /\ UNCHANGED <<part, vars, familyVars, scratchVars, hookVars>>
AllNext ==
    \/ part = "categories" /\ Next /\ UNCHANGED <<part, poolVars, hookVars>>
    \/ SetStep(Set!Next)
    \/ part = "family" /\ Family!Next /\ UNCHANGED <<part, vars, setVars, scratchVars, hookVars>>
    \/ part = "scratch" /\ Scratch!Next /\ UNCHANGED <<part, vars, setVars, familyVars, hookVars>>
    \/ part = "account" /\ Acct!Next /\ UNCHANGED <<part, vars, poolVars, texVars>>
    \/ part = "account" /\ frees = MaxFrees /\ UNCHANGED allVars    \* the bound is reached
    \/ part = "textures" /\ Tex!Next /\ UNCHANGED <<part, vars, poolVars, acctVars>>
AllSpec ==
    /\ AllInit /\ [][AllNext]_allVars
    /\ \A t \in Callers : WF_allVars(SetStep(Set!Work(t)))

(* Every emergency pointer the game has is found again and never taken for
   newlib's, for any collisions and any history of allocations and frees
   (default_dynlib.c:365-388). *)
EmergencyKnown == Set!TypeOK /\ Set!TellsApart /\ Set!Findable

(* Its loops end: there is always a free cell to stop at
   (default_dynlib.c:370-372,386). *)
Returns == Set!Returns

(* A block goes back to the allocator it is from with what is in it, the tables
   have exactly the blocks that are out, and no realloc loses one or its content
   (default_dynlib.c:362,390-401). *)
GoesBackHome ==
    /\ Family!TypeOK /\ Family!NoneMisrouted /\ Family!TablesExact /\ Family!NothingLeaked
    /\ Family!ContentKept

(* What a decoder works in is allocated and large enough, and growing the
   scratch buffer leaks no more than one block for each size it once had, and
   only where newlib stepped in for VitaGL's pools (default_dynlib.c:332-344). *)
ScratchHeld == Scratch!TypeOK /\ Scratch!InUseAlive /\ Scratch!LeakBounded

(* "Alloc5 may route through Alloc2: count once" (main.c:372), nested, failed or
   on two levels; and frees do not lose the peak (main.c:356-377). *)
CountedOnce == Acct!TypeOK /\ Acct!CountedOnce /\ Acct!PeakReal

(* A locked texture holds what it would hold in the unpatched game, pixels are
   freed only once the GPU has them, and the sticky list has exactly the
   textures that were locked, which keep their copies (main.c:379-421). *)
PixelsKept ==
    /\ [](Tex!TypeOK /\ Tex!HeldContent /\ Tex!NothingLost /\ Tex!StickyExact)
    /\ Tex!NeverFreedAgain
=============================================================================

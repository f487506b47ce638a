----------------------------- MODULE Allocators -----------------------------
(***************************************************************************)
(* The game's malloc family (loader/default_dynlib.c:346-401): a block is  *)
(* VitaGL's when it is large, newlib's otherwise, and VitaGL's again, in   *)
(* an emergency, when newlib has no more.  Where a block came from is      *)
(* found again by big_tab and by the emergency set; EmergSet has the       *)
(* latter's cells, here it is a set.  One call at a time: the races are    *)
(* EmergSet's.  Memory is counted in units, BigFrom of them are 6 MB.  Any *)
(* allocator may have no room at any time; a call that gets nothing        *)
(* changes nothing.                                                        *)
(***************************************************************************)
EXTENDS Integers, FiniteSets, SequencesExt

CONSTANTS
    Blocks, NULL,
    Sizes, BigFrom,
    BigTab,          \* entries of big_tab
    EmergMax,        \* EMERG_SET / 2
    ReallocsBig      \* whether the game reallocates a large block

AllocAssumption ==
    /\ NULL \notin Blocks /\ Sizes \subseteq Nat \ {0} /\ BigFrom \in Nat
    /\ BigTab \in Nat /\ EmergMax \in Nat /\ ReallocsBig \in BOOLEAN

VARIABLES
    home,            \* the allocator that has given a block out, or "free"
    word,            \* a block's words
    big_tab, emerg_set,
    wrote,           \* what the game has in its blocks; <<>> if not its own
    misrouted        \* blocks given back to an allocator they are not from

vars == <<home, word, big_tab, emerg_set, wrote, misrouted>>

Garbage == -1
Tag == 1
Game == {b \in Blocks : wrote[b] # <<>>}
Free == {b \in Blocks : home[b] = "free"}
Fill(n, v) == [k \in 1..n |-> v]
\* The first n of words, with garbage behind when there are less.
Cut(words, n) == [k \in 1..n |-> IF k <= Len(words) THEN words[k] ELSE Garbage]

Init ==
    /\ home = [b \in Blocks |-> "free"] /\ word = [b \in Blocks |-> <<>>]
    /\ big_tab = <<>> /\ emerg_set = {}
    /\ wrote = [b \in Blocks |-> <<>>] /\ misrouted = {}

\* big_alloc and emerg_alloc, as far as VitaGL's pools do not decide.
LargeAny(n) == n >= BigFrom                                          \* mutant
Large(n) == n >= BigFrom /\ Len(big_tab) < BigTab
Spare == Cardinality(emerg_set) < EmergMax
malloc(n) ==
    {"newlib"} \cup (IF Large(n) THEN {"big"} ELSE {}) \cup (IF Spare THEN {"emerg"} ELSE {})

\* newlib rounds up; VitaGL's blocks have the size that was asked for, which
\* is also what the header of an emergency block says.
Room(source, n) == IF source = "newlib" THEN n + (n % 2) ELSE n

\* big_free fills the entry from the last one.
BigDropLast(b) == Front(big_tab)                                     \* mutant
BigDrop(b) ==
    LET n == Len(big_tab)
        i == CHOOSE k \in 1..n : big_tab[k] = b
    IN  [k \in 1..n - 1 |-> IF k = i THEN big_tab[n] ELSE big_tab[k]]

\* The allocators when "old" goes back to one and "new" comes from another;
\* either may be NULL.
Exchange(old, to, new, source, words) ==
    /\ home' = [b \in Blocks |-> IF b = new THEN source ELSE IF b = old THEN "free" ELSE home[b]]
    /\ word' = [b \in Blocks |-> IF b = new THEN words ELSE IF b = old THEN <<>> ELSE word[b]]
    /\ big_tab' = LET left == IF to = "big" THEN BigDrop(old) ELSE big_tab
                  IN  IF source = "big" THEN Append(left, new) ELSE left
    /\ emerg_set' = (IF to = "emerg" THEN emerg_set \ {old} ELSE emerg_set)
                       \cup {b \in {new} : source = "emerg"}
    /\ misrouted' = misrouted \cup {b \in {old} \ {NULL} : home[b] # to}

Allocate(n, source, v) ==
    \E b \in Free :
        /\ Exchange(NULL, "none", b, source, Fill(Room(source, n), v))
        /\ wrote' = [wrote EXCEPT ![b] = Fill(n, v)]

malloc_log(n) == \E source \in malloc(n) : Allocate(n, source, Garbage)

\* The emergency block is zeroed by hand.
CallocUnset(n) == \E source \in malloc(0) :                          \* mutant
    \E b \in Free :
        /\ Exchange(NULL, "none", b, source, Fill(Room(source, n), IF source = "emerg" THEN Garbage ELSE 0))
        /\ wrote' = [wrote EXCEPT ![b] = Fill(n, 0)]
calloc_log(n) == \E source \in malloc(0) : Allocate(n, source, 0)

\* Alignment: to 16 bytes, to a page at most, or more.
memalign_log(align, n) ==
    \E source \in malloc(n) :
        /\ source = "emerg" => align = "16"
        /\ source = "big" => align # "more"
        /\ Allocate(n, source, Garbage)

\* Which allocator free_big finds for a block.
NewlibOrBig(b) == IF Contains(big_tab, b) THEN "big" ELSE "newlib"    \* mutant
HomeOf(b) ==
    IF Contains(big_tab, b) THEN "big" ELSE IF b \in emerg_set THEN "emerg" ELSE "newlib"

free_big(b) ==
    /\ b \in Game
    /\ Exchange(b, HomeOf(b), NULL, "none", <<>>)
    /\ wrote' = [wrote EXCEPT ![b] = <<>>]

\* realloc_log: an emergency block is moved by malloc, copy and free; another
\* is newlib's realloc, and moved to an emergency block if that fails.
Moves(old, to, new, source, n) ==
    /\ Exchange(old, to, new, source, Cut(word[old], Room(source, n)))
    /\ wrote' = [b \in Blocks |->
          IF b = new THEN Cut(wrote[old], n) ELSE IF b = old THEN <<>> ELSE wrote[b]]
Leaves(old, to, new, source, n) ==
    /\ Exchange(NULL, "none", new, source, Cut(word[old], Room(source, n)))
    /\ wrote' = [b \in Blocks |->
          IF b = new THEN Cut(wrote[old], n) ELSE IF b = old THEN <<>> ELSE wrote[b]]

ReallocLeaking(old, n) ==                                            \* mutant
    /\ old \in Game /\ Contains(big_tab, old) => ReallocsBig
    /\ \/ old \in emerg_set /\ \E b \in Free, source \in malloc(n) : Leaves(old, "emerg", b, source, n)
       \/ old \notin emerg_set /\ \E b \in Free \cup {old} : Moves(old, "newlib", b, "newlib", n)
realloc_log(old, n) ==
    /\ old \in Game
    /\ Contains(big_tab, old) => ReallocsBig
    /\ \/ old \in emerg_set /\ \E b \in Free, source \in malloc(n) : Moves(old, "emerg", b, source, n)
       \/ old \notin emerg_set /\ \E b \in Free \cup {old} : Moves(old, "newlib", b, "newlib", n)
       \/ old \notin emerg_set /\ Spare /\ \E b \in Free : Moves(old, "newlib", b, "emerg", n)

\* The game fills a block of its own.
Write(b) ==
    /\ b \in Game
    /\ LET n == Len(wrote[b]) IN
       /\ wrote' = [wrote EXCEPT ![b] = Fill(n, Tag)]
       /\ word' = [word EXCEPT ![b] = [k \in DOMAIN @ |-> IF k <= n THEN Tag ELSE @[k]]]
    /\ UNCHANGED <<home, big_tab, emerg_set, misrouted>>

Next ==
    \/ \E n \in Sizes :
          \/ malloc_log(n) \/ calloc_log(n)
          \/ \E align \in {"16", "page", "more"} : memalign_log(align, n)
          \/ \E b \in Blocks : realloc_log(b, n)
    \/ \E b \in Blocks : free_big(b) \/ Write(b)

Spec == Init /\ [][Next]_vars

----------------------------------------------------------------------------

TypeOK ==
    /\ home \in [Blocks -> {"free", "newlib", "big", "emerg"}]
    /\ \A b \in Blocks : \A w \in ToSet(word[b]) \cup ToSet(wrote[b]) : w \in {Garbage, 0, Tag}
    /\ ToSet(big_tab) \subseteq Blocks /\ Len(big_tab) <= BigTab
    /\ emerg_set \subseteq Blocks /\ Cardinality(emerg_set) <= EmergMax
    /\ misrouted \subseteq Blocks

\* A block goes back to the allocator it is from, whichever of the others was
\* asked first or had served it before, and whatever moved it
\* (default_dynlib.c:362,390,395-398).
NoneMisrouted == misrouted = {}

\* The tables have exactly the blocks that are out, each once, and what is out
\* is the game's: no block is lost by a realloc (default_dynlib.c:362,397-399).
TablesExact ==
    /\ IsInjective(big_tab)
    /\ ToSet(big_tab) = {b \in Blocks : home[b] = "big"}
    /\ emerg_set = {b \in Blocks : home[b] = "emerg"}
NothingLeaked == Game = Blocks \ Free

\* What the game wrote, or calloc zeroed, is there, through every move between
\* allocators (default_dynlib.c:392,397,399).
ContentKept ==
    \A b \in Game :
        /\ Len(wrote[b]) <= Len(word[b])
        /\ \A k \in 1..Len(wrote[b]) : wrote[b][k] # Garbage => word[b][k] = wrote[b][k]
=============================================================================

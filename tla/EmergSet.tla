------------------------------ MODULE EmergSet ------------------------------
(***************************************************************************)
(* The emergency allocator of loader/default_dynlib.c: when newlib is      *)
(* exhausted a block comes from VitaGL, and its pointer is kept in an      *)
(* open-addressing set that free asks before it hands a pointer to newlib. *)
(* Nothing is locked, so a thread's reads and writes of the set and of     *)
(* emerg_live are steps of their own.                                      *)
(***************************************************************************)
EXTENDS Integers, FiniteSets

CONSTANTS
    Threads, Ptrs,
    Empty,         \* a free cell
    SetSize        \* EMERG_SET

EmergAssumption == SetSize \in Nat \ {0} /\ Empty \notin Ptrs

Cells == 0..SetSize - 1

VARIABLES
    hash,        \* emerg_h: any function of the pointers
    emerg_set,
    emerg_live,
    owned,       \* pointers the game has
    call         \* per thread, the allocation or free it is in

vars == <<hash, emerg_set, emerg_live, owned, call>>

Idle == [pc |-> "idle"]
Next1(i) == (i + 1) % SetSize
In(t, p) == call[t].pc = p
Frame(pc, p, i) == [pc |-> pc, ptr |-> p, at |-> i]
Goto(t, pc, p, i) == call' = [call EXCEPT ![t] = Frame(pc, p, i)]

Init ==
    /\ hash \in [Ptrs -> Cells]
    /\ emerg_set = [i \in Cells |-> Empty]
    /\ emerg_live = 0
    /\ owned = {}
    /\ call = [t \in Threads |-> Idle]

\* emerg_alloc: half the cells at most are used; VitaGL gives a fresh block.
Busy == owned \cup {call[t].ptr : t \in {u \in Threads : call[u] # Idle}}
AllocBelow(t, p, limit) ==
    /\ call[t] = Idle
    /\ emerg_live < limit
    /\ p \notin Busy
    /\ Goto(t, "probe", p, hash[p])
    /\ UNCHANGED <<hash, emerg_set, emerg_live, owned>>

AllocUnlimited(t, p) == AllocBelow(t, p, SetSize + 1)             \* mutant
Alloc(t, p) == AllocBelow(t, p, SetSize \div 2)

\* The first free cell from the hash on, taken; then emerg_live counted up.
Probe(t) ==
    /\ In(t, "probe")
    /\ LET c == call[t] IN
       IF emerg_set[c.at] = Empty THEN Goto(t, "store", c.ptr, c.at)
       ELSE Goto(t, "probe", c.ptr, Next1(c.at))
    /\ UNCHANGED <<hash, emerg_set, emerg_live, owned>>

Store(t) ==
    /\ In(t, "store")
    /\ emerg_set' = [emerg_set EXCEPT ![call[t].at] = call[t].ptr]
    /\ Goto(t, "count", call[t].ptr, emerg_live + 1)
    /\ UNCHANGED <<hash, emerg_live, owned>>

Count(t) ==
    /\ In(t, "count")
    /\ emerg_live' = call[t].at
    /\ owned' = owned \cup {call[t].ptr}
    /\ call' = [call EXCEPT ![t] = Idle]
    /\ UNCHANGED <<hash, emerg_set>>

\* free_big of an emergency pointer: not looked for when emerg_live is 0.
Free(t, p) ==
    /\ call[t] = Idle
    /\ p \in owned
    /\ owned' = owned \ {p}
    /\ Goto(t, IF emerg_live # 0 THEN "find" ELSE "newlib", p, hash[p])
    /\ UNCHANGED <<hash, emerg_set, emerg_live>>

\* emerg_find, until the pointer, a free cell or a whole round.  A pointer that
\* is not found goes to newlib's free, and nothing is known from there on.
FindTo(t, hit) ==
    /\ In(t, "find")
    /\ LET c == call[t] IN
       IF emerg_set[c.at] = c.ptr THEN Goto(t, hit, c.ptr, c.at)
       ELSE IF emerg_set[c.at] = Empty \/ Next1(c.at) = hash[c.ptr]
       THEN Goto(t, "newlib", c.ptr, c.at)
       ELSE Goto(t, "find", c.ptr, Next1(c.at))
    /\ UNCHANGED <<hash, emerg_set, emerg_live, owned>>
Find(t) == FindTo(t, "uncount")

\* vglFree and emerg_live--, then the hole.
Uncount(t) ==
    /\ In(t, "uncount")
    /\ emerg_live' = emerg_live - 1
    /\ Goto(t, "hole", call[t].ptr, call[t].at)
    /\ UNCHANGED <<hash, emerg_set, owned>>

HoleThen(t, pc) ==
    /\ In(t, "hole")
    /\ emerg_set' = [emerg_set EXCEPT ![call[t].at] = Empty]
    /\ call' = [call EXCEPT ![t] = IF pc = "idle" THEN Idle
                                   ELSE Frame(pc, call[t].ptr, Next1(call[t].at))]
    /\ UNCHANGED <<hash, emerg_live, owned>>

HoleOnly(t) == HoleThen(t, "idle")                               \* mutant
Hole(t) == HoleThen(t, "chain")

\* The probe chain after the hole is re-inserted: each pointer is lifted out
\* and put into the first free cell from its hash on.
LiftOr(t, end) ==
    /\ In(t, "chain")
    /\ LET i == call[t].at
           q == emerg_set[i]
       IN  IF q = Empty
           THEN /\ call' = [call EXCEPT ![t] = end]
                /\ UNCHANGED emerg_set
           ELSE /\ emerg_set' = [emerg_set EXCEPT ![i] = Empty]
                /\ call' = [call EXCEPT ![t] =
                      [pc |-> "place", ptr |-> call[t].ptr, at |-> i, lifted |-> q, to |-> hash[q]]]
    /\ UNCHANGED <<hash, emerg_live, owned>>

LiftOn(t) ==                                \* mutant: does not stop at a free cell
    LiftOr(t, Frame("chain", call[t].ptr, Next1(call[t].at)))
Lift(t) == LiftOr(t, Idle)

PlaceIf(t, free) ==
    /\ In(t, "place")
    /\ LET c == call[t] IN
       IF free
       THEN /\ emerg_set' = [emerg_set EXCEPT ![c.to] = c.lifted]
            /\ Goto(t, "chain", c.ptr, Next1(c.at))
       ELSE /\ call' = [call EXCEPT ![t].to = Next1(c.to)]
            /\ UNCHANGED emerg_set
    /\ UNCHANGED <<hash, emerg_live, owned>>

PlaceAtHash(t) == PlaceIf(t, TRUE)                               \* mutant
Place(t) == PlaceIf(t, emerg_set[call[t].to] = Empty)

Work(t) ==
    \/ Probe(t) \/ Store(t) \/ Count(t)
    \/ Find(t) \/ Uncount(t) \/ Hole(t) \/ Lift(t) \/ Place(t)

Next == \E t \in Threads : Work(t) \/ \E p \in Ptrs : Alloc(t, p) \/ Free(t, p)

Spec ==
    /\ Init /\ [][Next]_vars
    /\ \A t \in Threads : WF_vars(Work(t))

----------------------------------------------------------------------------

Pcs == {"probe", "store", "count", "find", "newlib", "uncount", "hole", "chain"}

\* Types; at most half the cells are in use, and emerg_live never counts below
\* zero (default_dynlib.c:372,377,383).
TypeOK ==
    /\ hash \in [Ptrs -> Cells]
    /\ emerg_set \in [Cells -> Ptrs \cup {Empty}]
    /\ emerg_live \in 0..SetSize \div 2
    /\ owned \subseteq Ptrs
    /\ \A t \in Threads :
          call[t] \in {Idle} \cup [pc : Pcs, ptr : Ptrs, at : 0..SetSize]
                      \cup [pc : {"place"}, ptr : Ptrs, at : Cells, lifted : Ptrs, to : Cells]

\* "so free/realloc can tell them apart from newlib pointers"
\* (default_dynlib.c:365): no emergency pointer is ever given to newlib's free.
TellsApart == \A t \in Threads : ~In(t, "newlib")

\* Every pointer the game has is where a probe from its hash finds it, for any
\* history of allocations and frees and any collisions (default_dynlib.c:366-388).
Reachable(p) ==
    \E n \in Cells :
        /\ emerg_set[(hash[p] + n) % SetSize] = p
        /\ \A m \in 0..n - 1 : emerg_set[(hash[p] + m) % SetSize] # Empty
Findable ==
    (\A t \in Threads : call[t] = Idle) =>
        /\ \A p \in owned : Reachable(p)
        /\ Cardinality(owned) = emerg_live
        /\ Cardinality({i \in Cells : emerg_set[i] # Empty}) = emerg_live

\* The loops over the set end: there is always a free cell to stop at.
Returns == \A t \in Threads : call[t] # Idle ~> call[t] = Idle
=============================================================================

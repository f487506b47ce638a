--------------------------- MODULE Memory_proofs ---------------------------
(***************************************************************************)
(* The memory components, each for any values of its constants.  What      *)
(* holds only while one thread at a time is in a component that has no     *)
(* lock is a lemma (...OfOneCaller), not a theorem.                        *)
(*                                                                         *)
(* The discovery of memory categories is correct for any number of threads *)
(* and categories and any size of the list.  The argument is the lock's:   *)
(* IInv says what the one thread between Lock and Unlock has established   *)
(* about the list, and that nobody else can disturb it.                    *)
(*                                                                         *)
(* The others are parts of MCMemory's composition, which takes the steps   *)
(* of one part at a time (Parts): each has an inductive invariant of its   *)
(* own, about its own variables.                                           *)
(***************************************************************************)
EXTENDS MCMemory, FiniteSetTheorems, SequenceTheorems, TLAPS

USE DEF Index, Pcs

LEMMA InitInv == Init => IInv
<1>1. SUFFICES ASSUME Init PROVE IInv
  OBVIOUS
<1>2. TypeOK
  BY <1>1, MemCatAssumption DEF Init, TypeOK
<1>3. QED
  BY <1>1, <1>2, MemCatAssumption
  DEF Init, IInv, Locked, HasCat, Beyond, Pending, Done, Inside, NoDuplicate, NoneLost, Counted, Listed, Storing

LEMMA StepTypes == IInv /\ [Next]_vars => TypeOK'
<1>1. SUFFICES ASSUME IInv, [Next]_vars PROVE TypeOK'
  OBVIOUS
<1>2. CASE UNCHANGED vars
  BY <1>1, <1>2 DEF IInv, TypeOK, vars, shared
<1>3. ASSUME NEW t \in Threads, Step(t) PROVE TypeOK'
  <2>1. ASSUME NEW c \in Cats, memcat_seen(t, c) PROVE TypeOK'
    BY <1>1, <2>1 DEF IInv, TypeOK, memcat_seen, SeenSetting, Goto
  <2>2. CASE Scan(t)
    BY <1>1, <2>2 DEF IInv, TypeOK, Scan, Goto, shared
  <2>3. CASE Lock(t)
    BY <1>1, <2>3 DEF IInv, TypeOK, Lock, LockAnyway, Goto
  <2>4. CASE Again(t)
    BY <1>1, <2>4 DEF IInv, TypeOK, Again, AgainIf, Goto, shared
  <2>5. CASE StoreEntry(t)
    BY <1>1, <2>5 DEF IInv, TypeOK, StoreEntry, Goto
  <2>6. CASE StoreCount(t)
    <3>1. memcat_n' \in 0..Max
      BY <1>1, <2>6, MemCatAssumption DEF IInv, TypeOK, StoreCount, Pending
    <3>2. QED
      BY <1>1, <2>6, <3>1 DEF IInv, TypeOK, StoreCount, Goto
  <2>7. CASE CountFirst(t)
    <3>1. memcat_n' \in 0..Max
      BY <1>1, <2>7, MemCatAssumption DEF IInv, TypeOK, CountFirst, Pending
    <3>2. QED
      BY <1>1, <2>7, <3>1 DEF IInv, TypeOK, CountFirst, Goto
  <2>8. CASE EntrySecond(t)
    BY <1>1, <2>8 DEF IInv, TypeOK, EntrySecond, Goto
  <2>9. CASE Unlock(t)
    BY <1>1, <2>9 DEF IInv, TypeOK, Unlock, Goto
  <2>10. CASE SetLast(t)
    BY <1>1, <2>10 DEF IInv, TypeOK, SetLast, Goto
  <2>11. QED
    BY <1>3, <2>1, <2>2, <2>3, <2>4, <2>5, <2>6, <2>7, <2>8, <2>9, <2>10 DEF Step
<1>4. QED
  BY <1>1, <1>2, <1>3 DEF Next

LEMMA Stutter == IInv /\ UNCHANGED vars => IInv'
  BY DEF IInv, TypeOK, NoDuplicate, NoneLost, Counted, Locked, HasCat, Beyond,
         Pending, Done, Inside, Listed, Storing, vars, shared

\* Every conjunct but the type invariant, for one action at a time.
Rest == NoDuplicate /\ NoneLost /\ Counted /\ Locked /\ HasCat /\ Beyond /\ Pending /\ Done

LEMMA SeenRest ==
  ASSUME IInv, TypeOK', NEW t \in Threads, NEW c \in Cats, memcat_seen(t, c)
  PROVE  Rest'
  BY DEF memcat_seen, SeenSetting, Goto, IInv, TypeOK, Rest, NoDuplicate, NoneLost, Counted,
         Locked, HasCat, Beyond, Pending, Done, Inside, Listed, Storing

LEMMA ScanRest ==
  ASSUME IInv, TypeOK', NEW t \in Threads, Scan(t)
  PROVE  Rest'
  BY DEF Scan, Known, Goto, shared, IInv, TypeOK, Rest, NoDuplicate, NoneLost, Counted,
         Locked, HasCat, Beyond, Pending, Done, Inside, Listed, Storing

LEMMA LockRest ==
  ASSUME IInv, TypeOK', NEW t \in Threads, Lock(t)
  PROVE  Rest'
  BY MemCatAssumption
  DEF Lock, LockAnyway, Goto, IInv, TypeOK, Rest, NoDuplicate, NoneLost, Counted,
         Locked, HasCat, Beyond, Pending, Done, Inside, Listed, Storing

LEMMA AgainRest ==
  ASSUME IInv, TypeOK', NEW t \in Threads, Again(t)
  PROVE  Rest'
  BY MemCatAssumption
  DEF Again, AgainIf, Known, Goto, shared, IInv, TypeOK, Rest, NoDuplicate, NoneLost, Counted,
         Locked, HasCat, Beyond, Pending, Done, Inside, Listed, Storing

LEMMA StoreEntryRest ==
  ASSUME IInv, TypeOK', NEW t \in Threads, StoreEntry(t)
  PROVE  Rest'
  BY MemCatAssumption
  DEF StoreEntry, Goto, IInv, TypeOK, Rest, NoDuplicate, NoneLost, Counted,
         Locked, HasCat, Beyond, Pending, Done, Inside, Listed, Storing

LEMMA StoreCountRest ==
  ASSUME IInv, TypeOK', NEW t \in Threads, StoreCount(t)
  PROVE  Rest'
  BY MemCatAssumption
  DEF StoreCount, Goto, IInv, TypeOK, Rest, NoDuplicate, NoneLost, Counted,
         Locked, HasCat, Beyond, Pending, Done, Inside, Listed, Storing

LEMMA CountFirstRest ==
  ASSUME IInv, TypeOK', NEW t \in Threads, CountFirst(t)
  PROVE  Rest'
  BY MemCatAssumption
  DEF CountFirst, Goto, IInv, TypeOK, Rest, NoDuplicate, NoneLost, Counted,
         Locked, HasCat, Beyond, Pending, Done, Inside, Listed, Storing

LEMMA EntrySecondRest ==
  ASSUME IInv, TypeOK', NEW t \in Threads, EntrySecond(t)
  PROVE  Rest'
  BY MemCatAssumption
  DEF EntrySecond, Goto, IInv, TypeOK, Rest, NoDuplicate, NoneLost, Counted,
         Locked, HasCat, Beyond, Pending, Done, Inside, Listed, Storing

LEMMA UnlockRest ==
  ASSUME IInv, TypeOK', NEW t \in Threads, Unlock(t)
  PROVE  Rest'
  BY MemCatAssumption
  DEF Unlock, Goto, IInv, TypeOK, Rest, NoDuplicate, NoneLost, Counted,
         Locked, HasCat, Beyond, Pending, Done, Inside, Listed, Storing

LEMMA SetLastRest ==
  ASSUME IInv, TypeOK', NEW t \in Threads, SetLast(t)
  PROVE  Rest'
  BY MemCatAssumption
  DEF SetLast, Goto, IInv, TypeOK, Rest, NoDuplicate, NoneLost, Counted,
         Locked, HasCat, Beyond, Pending, Done, Inside, Listed, Storing

LEMMA NextInv == IInv /\ [Next]_vars => IInv'
<1>1. SUFFICES ASSUME IInv, [Next]_vars PROVE IInv'
  OBVIOUS
<1>2. TypeOK'
  BY <1>1, StepTypes
<1>3. CASE UNCHANGED vars
  BY <1>1, <1>3, Stutter
<1>4. ASSUME NEW t \in Threads, Step(t) PROVE Rest'
  BY <1>1, <1>2, <1>4, SeenRest, ScanRest, LockRest, AgainRest, StoreEntryRest, StoreCountRest,
     CountFirstRest, EntrySecondRest, UnlockRest, SetLastRest DEF Step
<1>5. QED
  BY <1>1, <1>2, <1>3, <1>4 DEF Next, Rest, IInv

\* The inductive invariant holds of every behaviour: what one thread does
\* between memcat_lock and its release no other thread disturbs.
THEOREM Invariance == Spec => []IInv
  BY InitInv, NextInv, PTL DEF Spec

\* Counts, indices and threads stay in range; the list never outgrows its array.
THEOREM TypeCorrect == Spec => []TypeOK
<1>1. IInv => TypeOK
  BY DEF IInv
<1>2. QED
  BY <1>1, Invariance, PTL

\* No category is listed twice (memcat_seen's second look, main.c:343).
THEOREM Unique == Spec => []NoDuplicate
<1>1. IInv => NoDuplicate
  BY DEF IInv
<1>2. QED
  BY <1>1, Invariance, PTL

\* The lock-free check skips only what is listed (main.c:338).
THEOREM SkipsListed == Spec => []NoneLost
<1>1. IInv => NoneLost
  BY DEF IInv
<1>2. QED
  BY <1>1, Invariance, PTL

----------------------------------------------------------------------------
(* The parts of the composition. *)

\* A step of the composition is a step of a part or leaves the part alone.
LEMMA Parts ==
  ASSUME [AllNext]_allVars
  PROVE  /\ [Set!Next]_(Set!vars)
         /\ [Family!Next]_(Family!vars)
         /\ [Scratch!Next]_(Scratch!vars)
         /\ [Acct!Next]_(Acct!vars)
         /\ [Tex!Next]_(Tex!vars)
<1>1. [Set!Next]_(Set!vars)
  BY DEF AllNext, SetStep, allVars, poolVars, hookVars, setVars, Set!vars
<1>2. [Family!Next]_(Family!vars)
  BY DEF AllNext, SetStep, allVars, poolVars, hookVars, familyVars, Family!vars
<1>3. [Scratch!Next]_(Scratch!vars)
  BY DEF AllNext, SetStep, allVars, poolVars, hookVars, scratchVars, Scratch!vars
<1>4. [Acct!Next]_(Acct!vars)
  BY DEF AllNext, SetStep, allVars, poolVars, hookVars, acctVars, Acct!vars, Acct!account, Acct!history
<1>5. [Tex!Next]_(Tex!vars)
  BY DEF AllNext, SetStep, allVars, poolVars, hookVars, texVars, Tex!vars, Tex!texture
<1>6. QED
  BY <1>1, <1>2, <1>3, <1>4, <1>5

----------------------------------------------------------------------------
(* The scratch buffer.  With one decoder at a time nobody works in it when *)
(* it grows, so that the block that is given back is no longer in use.     *)

LEMMA ScratchInit == Scratch!Init => ScratchHeld
  BY ScratchAssumption
  DEF Scratch!Init, ScratchHeld, Scratch!TypeOK, Scratch!InUseAlive, Scratch!LeakBounded, Scratch!Leaked,
      Scratch!ScratchAssumption

LEMMA ScratchPut ==
  ASSUME ScratchHeld, Scratch!vgl_scratch_put
  PROVE  ScratchHeld'
<1> DEFINE R == [blk : Blocks, need : 1..MaxSize]
<1>1. using \in Seq(R) /\ using # <<>>
  BY DEF ScratchHeld, Scratch!TypeOK, Scratch!vgl_scratch_put
<1> HIDE DEF R
<1>2. Len(using) = 1 /\ using[1] \in R
  <2>1. Len(using) \in Nat /\ Len(using) # 0
    BY <1>1, EmptySeq
  <2>2. Len(using) <= 1
    BY DEF ScratchHeld, Scratch!TypeOK
  <2>3. \A k \in Nat : k # 0 /\ k <= 1 => k = 1
    OBVIOUS
  <2>4. Len(using) = 1
    BY <2>1, <2>2, <2>3, Zenon
  <2>5. QED
    BY <1>1, <2>4, ElementOfSeq
<1>3. using' = <<>>
  BY <1>1, <1>2 DEF Scratch!vgl_scratch_put
<1>4. QED
  BY <1>2, <1>3
  DEF R, ScratchHeld, Scratch!vgl_scratch_put, Scratch!Freed, Scratch!TypeOK, Scratch!InUseAlive,
      Scratch!LeakBounded, Scratch!Leaked

\* What starts a decoder's work finds nobody else's.
LEMMA ScratchUse ==
  ASSUME ScratchHeld, NEW b \in Blocks, NEW size \in 1..MaxSize, Len(using) < 1, Scratch!Use(b, size)
  PROVE  /\ using = <<>>
         /\ using' = <<[blk |-> b, need |-> size]>>
         /\ using' \in Seq([blk : Blocks, need : 1..MaxSize]) /\ Len(using') = 1
<1>1. using \in Seq([blk : Blocks, need : 1..MaxSize])
  BY DEF ScratchHeld, Scratch!TypeOK
<1>2. using = <<>>
  BY <1>1, EmptySeq, LenProperties
<1>3. QED
  BY <1>2 DEF Scratch!Use

LEMMA ScratchReuse ==
  ASSUME ScratchHeld, NEW size \in 1..MaxSize, Scratch!Reuse(size)
  PROVE  ScratchHeld'
<1>1. scratch_buf \in Blocks
  BY DEF ScratchHeld, Scratch!TypeOK, Scratch!Reuse
<1>2. using = <<>> /\ using' = <<[blk |-> scratch_buf, need |-> size]>>
      /\ using' \in Seq([blk : Blocks, need : 1..MaxSize]) /\ Len(using') = 1
  BY <1>1, ScratchUse DEF Scratch!Reuse
<1>3. QED
  BY <1>1, <1>2, ScratchAssumption
  DEF ScratchHeld, Scratch!Reuse, Scratch!Fits, Scratch!TypeOK, Scratch!InUseAlive,
      Scratch!LeakBounded, Scratch!Leaked, Scratch!ScratchAssumption

LEMMA ScratchGrow ==
  ASSUME ScratchHeld, NEW size \in 1..MaxSize, NEW b \in Blocks, NEW from \in Pools,
         Scratch!Grow(size, b, from)
  PROVE  ScratchHeld'
<1>1. using = <<>> /\ using' = <<[blk |-> b, need |-> size]>>
      /\ using' \in Seq([blk : Blocks, need : 1..MaxSize]) /\ Len(using') = 1
  BY ScratchUse DEF Scratch!Grow
<1>2. from \in {"vgl", "newlib"} /\ MaxSize \in Nat /\ scratch_cap \in Nat /\ size > scratch_cap
      /\ scratch_buf' = b /\ scratch_cap' = size /\ room' = [room EXCEPT ![b] = size]
      /\ room'[b] = size /\ pool[b] = "none"
  BY ScratchAssumption
  DEF ScratchHeld, Scratch!Grow, Scratch!Fits, Scratch!CapOf, Scratch!TypeOK, Scratch!ScratchAssumption
<1>3. PICK h \in Scratch!Left(scratch_buf, from) :
        pool' = [c \in Blocks |-> IF c = b THEN from ELSE IF c = scratch_buf THEN h ELSE pool[c]]
  BY DEF Scratch!Grow
<1>4. after' = [c \in Blocks |->
        IF c = b THEN "none" ELSE IF c = scratch_buf THEN from ELSE after[c]]
  BY DEF Scratch!Grow
<1>5. /\ h \in {"none", "vgl", "newlib"}
      /\ h # "none" => from = "newlib" \/ (from = "vgl" /\ h = "newlib")
      /\ scratch_buf \in Blocks => room[scratch_buf] = scratch_cap
      /\ scratch_buf # b
  BY <1>2, <1>3, ScratchAssumption
  DEF Scratch!Left, Scratch!GivesBack, ScratchHeld, Scratch!TypeOK, Scratch!InUseAlive,
      Scratch!ScratchAssumption
<1>6. Scratch!TypeOK' /\ Scratch!InUseAlive'
  BY <1>1, <1>2, <1>3, <1>4, <1>5 DEF ScratchHeld, Scratch!TypeOK, Scratch!InUseAlive
<1>7. \A c \in Scratch!Leaked' :
         \/ c = scratch_buf /\ pool'[c] = h /\ after'[c] = from /\ h # "none"
         \/ /\ c \in Scratch!Leaked /\ c # scratch_buf
            /\ pool'[c] = pool[c] /\ after'[c] = after[c] /\ room'[c] = room[c]
  BY <1>1, <1>2, <1>3, <1>4, <1>5 DEF ScratchHeld, Scratch!TypeOK, Scratch!Leaked
<1>8. \A c \in Scratch!Leaked' : c \in Blocks /\ c # b /\ room'[c] = room[c] /\ room[c] \in Nat
  BY <1>2, <1>1 DEF Scratch!Leaked, ScratchHeld, Scratch!TypeOK
<1>9. \A c \in Scratch!Leaked :
         room[c] < scratch_cap /\ (after[c] = "newlib" \/ (after[c] = "vgl" /\ pool[c] = "newlib"))
  BY DEF ScratchHeld, Scratch!LeakBounded
<1>10. ASSUME NEW c \in Scratch!Leaked'
       PROVE  /\ after'[c] = "newlib" \/ (after'[c] = "vgl" /\ pool'[c] = "newlib")
              /\ room'[c] < scratch_cap'
  <2>1. CASE c = scratch_buf /\ pool'[c] = h /\ after'[c] = from /\ h # "none"
    BY <1>2, <1>5, <1>8, <1>10, <2>1 DEF Scratch!Leaked, ScratchHeld, Scratch!TypeOK
  <2>2. CASE c \in Scratch!Leaked /\ pool'[c] = pool[c] /\ after'[c] = after[c]
    BY <1>2, <1>8, <1>9, <1>10, <2>2
  <2>3. QED
    BY <1>7, <1>10, <2>1, <2>2
<1>11. ASSUME NEW c \in Scratch!Leaked', NEW d \in Scratch!Leaked', c # d
       PROVE  room'[c] # room'[d]
  <2>1. CASE c = scratch_buf
    BY <1>2, <1>5, <1>7, <1>8, <1>9, <1>11, <2>1 DEF Scratch!Leaked
  <2>2. CASE d = scratch_buf
    BY <1>2, <1>5, <1>7, <1>8, <1>9, <1>11, <2>2 DEF Scratch!Leaked
  <2>3. CASE c # scratch_buf /\ d # scratch_buf
    BY <1>7, <1>11, <2>3 DEF ScratchHeld, Scratch!LeakBounded
  <2>4. QED
    BY <2>1, <2>2, <2>3
<1>12. QED
  BY <1>6, <1>10, <1>11 DEF ScratchHeld, Scratch!LeakBounded

LEMMA ScratchOwn ==
  ASSUME ScratchHeld, NEW size \in 1..MaxSize, NEW b \in Blocks, Scratch!Own(size, b)
  PROVE  ScratchHeld'
<1>1. using = <<>> /\ using' = <<[blk |-> b, need |-> size]>>
      /\ using' \in Seq([blk : Blocks, need : 1..MaxSize]) /\ Len(using') = 1
  BY ScratchUse DEF Scratch!Own
<1>2. QED
  BY <1>1, ScratchAssumption
  DEF ScratchHeld, Scratch!Own, Scratch!TypeOK, Scratch!InUseAlive, Scratch!LeakBounded, Scratch!Leaked,
      Scratch!ScratchAssumption

LEMMA ScratchStep ==
  ASSUME ScratchHeld, [Scratch!Next]_(Scratch!vars)
  PROVE  ScratchHeld'
<1>1. CASE UNCHANGED Scratch!vars
  BY <1>1 DEF ScratchHeld, Scratch!vars, Scratch!TypeOK, Scratch!InUseAlive, Scratch!LeakBounded, Scratch!Leaked
<1>2. CASE Scratch!Next
  BY <1>2, ScratchPut, ScratchReuse, ScratchGrow, ScratchOwn DEF Scratch!Next
<1>3. QED
  BY <1>1, <1>2

\* What a decoder works in is allocated and large enough, the cap says what
\* the buffer has, and growing the buffer leaks at most one block of
\* each size, and only where newlib stepped in for a pool of VitaGL's
\* (default_dynlib.c:332-344), for any requests and whatever vglFree does with a
\* block of newlib's.
THEOREM ScratchSafe == AllSpec => []ScratchHeld
<1>1. AllInit => ScratchHeld
  BY ScratchInit DEF AllInit
<1>2. ScratchHeld /\ [AllNext]_allVars => ScratchHeld'
  BY Parts, ScratchStep
<1>3. QED
  BY <1>1, <1>2, PTL DEF AllSpec

----------------------------------------------------------------------------
(* Lists without repetitions: big_tab and the sticky textures. *)

\* A list of S in which nothing is twice.
List(s, S) == s \in Seq(S) /\ IsInjective(s)

LEMMA ListAppend ==
  ASSUME NEW S, NEW s, List(s, S), NEW x \in S, x \notin Range(s)
  PROVE  /\ List(Append(s, x), S)
         /\ Range(Append(s, x)) = Range(s) \cup {x}
         /\ Len(Append(s, x)) = Len(s) + 1
<1> DEFINE r == Append(s, x)
<1>1. s \in Seq(S) /\ Len(s) \in Nat /\ DOMAIN s = 1..Len(s)
  BY LenProperties DEF List
<1>2. /\ r \in Seq(S) /\ Len(r) = Len(s) + 1
      /\ \A i \in 1..Len(s) : r[i] = s[i]
      /\ r[Len(s) + 1] = x
  BY <1>1, AppendProperties
<1>3. DOMAIN r = 1..Len(s) + 1
  BY <1>2, LenProperties
<1> HIDE DEF r
<1>4. Range(r) = Range(s) \cup {x}
  BY <1>1, <1>2, <1>3 DEF Range
<1>5. IsInjective(r)
  BY <1>1, <1>2, <1>3 DEF List, IsInjective, Range
<1>6. QED
  BY <1>2, <1>4, <1>5 DEF List, r

\* The last entry is moved to the place of the one that goes.
LEMMA ListDrop ==
  ASSUME NEW S, NEW s, List(s, S), NEW i \in 1..Len(s), NEW r,
         r = [k \in 1..Len(s) - 1 |-> IF k = i THEN s[Len(s)] ELSE s[k]]
  PROVE  /\ List(r, S)
         /\ Range(r) = Range(s) \ {s[i]}
         /\ Len(r) = Len(s) - 1
<1> DEFINE len == Len(s)
<1>1. s \in Seq(S) /\ len \in Nat /\ DOMAIN s = 1..len /\ \A k \in 1..len : s[k] \in S
  BY LenProperties, ElementOfSeq DEF List
<1>2. len \in Nat /\ len >= 1 /\ len - 1 \in Nat
  BY <1>1
<1>3. DOMAIN r = 1..len - 1 /\ \A k \in 1..len - 1 : r[k] = IF k = i THEN s[len] ELSE s[k]
  OBVIOUS
<1>4. r \in Seq(S) /\ Len(r) = len - 1
  <2>1. r \in [1..len - 1 -> S]
    BY <1>1, <1>2
  <2>2. QED
    BY <1>2, <1>3, <2>1, SeqDef
<1>5. i \in 1..len /\ s[len] = s[Len(s)]
  OBVIOUS
<1> HIDE DEF len
<1>6. \A j, k \in 1..len : s[j] = s[k] => j = k
  BY <1>1 DEF List, IsInjective
<1>7. Range(r) = Range(s) \ {s[i]}
  <2>1. ASSUME NEW y \in Range(r) PROVE y \in Range(s) \ {s[i]}
    <3>1. PICK k \in 1..len - 1 : y = r[k]
      BY <1>3 DEF Range
    <3>2. k \in 1..len /\ len \in 1..len /\ k # len
      BY <1>2, <3>1
    <3>3. QED
      BY <1>1, <1>3, <1>6, <3>1, <3>2 DEF Range, len
  <2>2. ASSUME NEW y \in Range(s) \ {s[i]} PROVE y \in Range(r)
    <3>1. PICK k \in 1..len : y = s[k] /\ k # i
      BY <1>1 DEF Range
    <3>2. CASE k = len
      <4>1. i \in 1..len - 1
        BY <1>2, <1>5, <3>1, <3>2
      <4>2. r[i] = y
        BY <1>3, <3>1, <3>2, <4>1
      <4>3. QED
        BY <1>3, <4>1, <4>2 DEF Range
    <3>3. CASE k # len
      <4>1. k \in 1..len - 1
        BY <1>1, <1>2, <3>1, <3>3
      <4>2. r[k] = y
        BY <1>3, <3>1, <4>1
      <4>3. QED
        BY <1>3, <4>1, <4>2 DEF Range
    <3>4. QED
      BY <3>2, <3>3
  <2>3. QED
    BY <2>1, <2>2
<1>8. IsInjective(r)
  <2>1. SUFFICES ASSUME NEW j \in 1..len - 1, NEW k \in 1..len - 1, r[j] = r[k] PROVE j = k
    BY <1>3 DEF IsInjective
  <2>2. j \in 1..len /\ k \in 1..len /\ len \in 1..len /\ j # len /\ k # len
    BY <1>2
  <2>3. QED
    BY <1>3, <1>6, <2>1, <2>2
<1>9. QED
  BY <1>4, <1>7, <1>8 DEF List, len

\* There is a place left for what is not in the list.
LEMMA ListRoom ==
  ASSUME NEW S, IsFiniteSet(S), NEW s, List(s, S), NEW x \in S, x \notin Range(s)
  PROVE  Len(s) < Cardinality(S)
<1>1. Len(s) \in Nat /\ DOMAIN s = 1..Len(s) /\ s \in [1..Len(s) -> S]
  BY LenProperties DEF List
<1>2. s \in [1..Len(s) -> S \ {x}]
  BY <1>1 DEF Range
<1>3. s \in Injection(1..Len(s), S \ {x})
  BY <1>2 DEF List, Injection
<1>4. IsFiniteSet(S \ {x}) /\ Cardinality(S \ {x}) = Cardinality(S) - 1 /\ Cardinality(S) \in Nat
  BY FS_RemoveElement, FS_CardinalityType
<1>5. Cardinality(1..Len(s)) <= Cardinality(S \ {x})
  BY <1>3, <1>4, FS_Injection
<1>6. Cardinality(1..Len(s)) = Len(s)
  BY <1>1, FS_Interval
<1>7. QED
  BY <1>1, <1>4, <1>5, <1>6

----------------------------------------------------------------------------
(* Copies of textures, for one caller, and a place for each texture.       *)
(* A copy is freed only when its texture was never locked: then the GPU's  *)
(* texture, if there is one, has been given all that was in the copy.      *)

TexInv ==
    /\ texCall = [t \in Callers |-> texCall[t]]
    /\ Tex!TypeOK /\ Tex!HeldContent /\ Tex!NothingLost /\ Tex!StickyExact
    /\ \A x \in Textures :
          /\ holder[x] # {} => x \in locked
          /\ x \notin alive => ~glid[x]
          /\ glid[x] /\ x \notin locked => uploaded[x]
          /\ x \in lockable \ locked => want[x] = "zeros"
          /\ x \in locked /\ copy[x] = "gone" => want[x] = "zeros"
          /\ x \in alive /\ copy[x] # "gone" => copy[x] = want[x]
    /\ \A t \in Callers :
          /\ texCall[t].pc # "idle" => texCall[t].tex \in alive
          /\ texCall[t].pc = "free" => glid[texCall[t].tex] /\ texCall[t].tex \notin locked
          /\ texCall[t].pc = "recreate" => texCall[t].tex \in locked

\* What the theorem supposes: one caller, and a place for each texture.
TexGiven ==
    /\ \E k : Callers = {k}
    /\ IsFiniteSet(Textures) /\ Cardinality(Textures) <= N

\* Tex!StickyExact, with the list as it is handled here.
LEMMA TexList ==
  ASSUME TexInv
  PROVE  List(tex_sticky, Textures) /\ Range(tex_sticky) = locked /\ Len(tex_sticky) <= N
  BY DEF TexInv, Tex!TypeOK, Tex!StickyExact, Tex!ToSet, Tex!IsInjective, List, Range, IsInjective

LEMMA TexListed ==
  ASSUME List(tex_sticky', Textures), Range(tex_sticky') = locked', Len(tex_sticky') <= N
  PROVE  /\ tex_sticky' \in Seq(Textures) /\ Len(tex_sticky') <= N /\ Tex!IsInjective(tex_sticky')
         /\ Tex!StickyExact'
  BY DEF Tex!StickyExact, Tex!ToSet, Tex!IsInjective, List, Range, IsInjective

LEMMA TexSticky ==
  ASSUME TexInv, NEW x \in Textures
  PROVE  Tex!tex_is_sticky(x) <=> x \in locked
<1>1. Tex!tex_is_sticky(x) <=> \E i \in 1..Len(tex_sticky) : tex_sticky[i] = x
  BY DEF Tex!tex_is_sticky, Tex!Contains
<1>2. tex_sticky \in Seq(Textures) /\ Range(tex_sticky) = locked
  BY TexList DEF List
<1>3. DOMAIN tex_sticky = 1..Len(tex_sticky)
  BY <1>2, LenProperties
<1>4. QED
  BY <1>1, <1>2, <1>3 DEF Range

\* The sticky list after an Acquire ...
LEMMA TexMarked ==
  ASSUME TexGiven, TexInv, NEW x \in Textures, tex_sticky' = Tex!Marked(x), locked' = locked \cup {x}
  PROVE  List(tex_sticky', Textures) /\ Range(tex_sticky') = locked' /\ Len(tex_sticky') <= N
<1>1. List(tex_sticky, Textures) /\ Range(tex_sticky) = locked /\ Len(tex_sticky) <= N
  BY TexList
<1>2. CASE x \in locked
  BY <1>1, <1>2, TexSticky DEF Tex!Marked
<1>3. CASE x \notin locked
  <2>1. Len(tex_sticky) < Cardinality(Textures)
    BY <1>1, <1>3, ListRoom DEF TexGiven
  <2>2. Len(tex_sticky) \in Nat /\ Cardinality(Textures) \in Nat /\ N \in Nat
    BY <1>1, LenProperties, FS_CardinalityType, TexAssumption DEF List, TexGiven, Tex!TexAssumption
  <2>3. Len(tex_sticky) < N
    BY <2>1, <2>2 DEF TexGiven
  <2>4. tex_sticky' = Append(tex_sticky, x)
    BY <1>3, <2>2, <2>3, TexSticky DEF Tex!Marked
  <2>5. /\ List(tex_sticky', Textures)
        /\ Range(tex_sticky') = Range(tex_sticky) \cup {x}
        /\ Len(tex_sticky') = Len(tex_sticky) + 1
    BY <1>1, <1>3, <2>4, ListAppend
  <2>6. QED
    BY <1>1, <2>2, <2>3, <2>5
<1>4. QED
  BY <1>2, <1>3

\* ... and after hook_TexDestroy.
LEMMA TexUnmarked ==
  ASSUME TexInv, NEW x \in Textures, tex_sticky' = Tex!Unmarked(x), locked' = locked \ {x}
  PROVE  List(tex_sticky', Textures) /\ Range(tex_sticky') = locked' /\ Len(tex_sticky') <= N
<1> DEFINE s == tex_sticky
           len == Len(s)
<1>1. List(s, Textures) /\ Range(s) = locked /\ len <= N
  BY TexList
<1>2. s \in Seq(Textures) /\ len \in Nat /\ DOMAIN s = 1..len /\ N \in Nat
  BY <1>1, LenProperties, TexAssumption DEF List, Tex!TexAssumption
<1>3. CASE x \notin locked
  BY <1>1, <1>3, TexSticky DEF Tex!Unmarked
<1>4. CASE x \in locked
  <2>1. PICK i \in 1..len : s[i] = x
    BY <1>1, <1>2, <1>4 DEF Range
  <2> DEFINE moved == [j \in 1..len |-> IF s[j] = x THEN s[len] ELSE s[j]]
             r == [j \in 1..len - 1 |-> IF j = i THEN s[len] ELSE s[j]]
  <2>2. \A j \in 1..len : s[j] = x <=> j = i
    BY <1>1, <1>2, <2>1 DEF List, IsInjective
  <2>3. s[len] \in Textures /\ \A j \in 1..len : s[j] \in Textures
    BY <1>2, <2>1, ElementOfSeq
  <2>4. moved \in Seq(Textures) /\ Len(moved) = len
    BY <1>2, <2>3, SeqDef
  <2>5. tex_sticky' = SubSeq(moved, 1, len - 1)
    BY <1>2, <1>4, <2>4, TexSticky DEF Tex!Unmarked, Tex!Front, Tex!Last
  <2>6. SubSeq(moved, 1, len - 1) = [j \in 1..len - 1 |-> moved[j]]
    BY <1>2, <2>1, <2>4, SubSeqProperties
  <2>7. [j \in 1..len - 1 |-> moved[j]] = r
    BY <1>2, <2>2
  <2>8. tex_sticky' = r
    BY <2>5, <2>6, <2>7
  <2> HIDE DEF r
  <2>9. /\ List(r, Textures) /\ Range(r) = Range(s) \ {s[i]} /\ Len(r) = len - 1
    <3>1. r = [j \in 1..Len(s) - 1 |-> IF j = i THEN s[Len(s)] ELSE s[j]]
      BY DEF r
    <3>2. QED
      BY <1>1, <2>1, <3>1, ListDrop
  <2>10. QED
    BY <1>1, <1>2, <2>1, <2>8, <2>9
<1>5. QED
  BY <1>3, <1>4

LEMMA TexInit == Tex!Init => TexInv
<1>1. SUFFICES ASSUME Tex!Init PROVE TexInv
  OBVIOUS
<1>2. N \in Nat
  BY TexAssumption DEF Tex!TexAssumption
<1>3. tex_sticky \in Seq(Textures) /\ Len(tex_sticky) <= N /\ Tex!IsInjective(tex_sticky) /\ Tex!StickyExact
  BY <1>1, <1>2 DEF Tex!Init, Tex!IsInjective, Tex!StickyExact, Tex!ToSet
<1>4. QED
  BY <1>1, <1>3 DEF Tex!Init, TexInv, Tex!TypeOK, Tex!HeldContent, Tex!NothingLost, Tex!Idle

LEMMA TexCreate ==
  ASSUME TexInv, NEW x \in Textures, NEW empty \in BOOLEAN, Tex!Create(x, empty)
  PROVE  TexInv'
<1>1. tex_sticky' \in Seq(Textures) /\ Len(tex_sticky') <= N /\ Tex!IsInjective(tex_sticky') /\ Tex!StickyExact'
  BY DEF TexInv, Tex!Create, Tex!TypeOK, Tex!StickyExact
<1>2. QED
  BY <1>1 DEF Tex!Create, TexInv, Tex!TypeOK, Tex!HeldContent, Tex!NothingLost, Tex!Idle

\* What an action leaves of the list when it does not touch it.
LEMMA TexSameList ==
  ASSUME TexInv, UNCHANGED <<tex_sticky, locked>>
  PROVE  /\ tex_sticky' \in Seq(Textures) /\ Len(tex_sticky') <= N /\ Tex!IsInjective(tex_sticky')
         /\ Tex!StickyExact'
  BY DEF TexInv, Tex!TypeOK, Tex!StickyExact

LEMMA TexFlush ==
  ASSUME TexInv, NEW t \in Callers, NEW x \in Textures, Tex!Flush(t, x)
  PROVE  TexInv'
<1>1. tex_sticky' \in Seq(Textures) /\ Len(tex_sticky') <= N /\ Tex!IsInjective(tex_sticky') /\ Tex!StickyExact'
  BY TexSameList DEF Tex!Flush
<1>2. QED
  BY <1>1 DEF Tex!Flush, Tex!Goto, TexInv, Tex!TypeOK, Tex!HeldContent, Tex!NothingLost, Tex!Idle

LEMMA TexLook ==
  ASSUME TexInv, NEW t \in Callers, Tex!Look(t)
  PROVE  TexInv'
<1>1. tex_sticky' \in Seq(Textures) /\ Len(tex_sticky') <= N /\ Tex!IsInjective(tex_sticky') /\ Tex!StickyExact'
  BY TexSameList DEF Tex!Look, Tex!LookFreeing
<1>2. texCall[t].tex \in Textures /\ (Tex!tex_is_sticky(texCall[t].tex) <=> texCall[t].tex \in locked)
  BY TexSticky DEF TexInv, Tex!TypeOK, Tex!Look, Tex!LookFreeing, Tex!In, Tex!Idle
<1>3. CASE texCall' = [texCall EXCEPT ![t] = Tex!Idle]
  BY <1>1, <1>3
  DEF Tex!Look, Tex!LookFreeing, Tex!texture, TexInv, Tex!TypeOK, Tex!HeldContent, Tex!NothingLost,
      Tex!Idle
<1>4. CASE /\ texCall' = [texCall EXCEPT ![t] = [pc |-> "free", tex |-> texCall[t].tex]]
           /\ texCall[t].pc = "look"
           /\ glid[texCall[t].tex] /\ texCall[t].tex \notin locked
  BY <1>1, <1>2, <1>4
  DEF Tex!Look, Tex!LookFreeing, Tex!texture, TexInv, Tex!TypeOK, Tex!HeldContent, Tex!NothingLost
<1>5. QED
  BY <1>2, <1>3, <1>4 DEF Tex!Look, Tex!LookFreeing, Tex!In, Tex!Goto, Tex!Return

LEMMA TexFreeCopy ==
  ASSUME TexInv, NEW t \in Callers, Tex!FreeCopy(t)
  PROVE  TexInv'
<1>1. tex_sticky' \in Seq(Textures) /\ Len(tex_sticky') <= N /\ Tex!IsInjective(tex_sticky') /\ Tex!StickyExact'
  BY TexSameList DEF Tex!FreeCopy
<1>2. PICK x : x = texCall[t].tex
  OBVIOUS
<1>3. x \in Textures
  BY <1>2 DEF Tex!FreeCopy, Tex!In, TexInv, Tex!TypeOK, Tex!Idle
<1>4. /\ copy' = [copy EXCEPT ![x] = "gone"] /\ texCall' = [texCall EXCEPT ![t] = Tex!Idle]
      /\ UNCHANGED <<glid, uploaded, alive, lockable, holder, want, locked>>
  BY <1>2 DEF Tex!FreeCopy, Tex!Return
<1>5. texCall' = [u \in Callers |-> texCall'[u]] /\ Tex!TypeOK'
  BY <1>1, <1>3, <1>4 DEF TexInv, Tex!TypeOK
<1>6. QED
  BY <1>1, <1>2, <1>3, <1>4, <1>5
  DEF TexInv, Tex!TypeOK, Tex!FreeCopy, Tex!In, Tex!HeldContent, Tex!NothingLost, Tex!Idle

LEMMA TexAcquire ==
  ASSUME TexGiven, TexInv, NEW t \in Callers, NEW x \in Textures, Tex!Acquire(t, x)
  PROVE  TexInv'
<1>1. tex_sticky' \in Seq(Textures) /\ Len(tex_sticky') <= N /\ Tex!IsInjective(tex_sticky') /\ Tex!StickyExact'
  BY TexMarked, TexListed DEF Tex!Acquire
<1>2. \A u \in Callers : u = t
  BY DEF TexGiven
<1>3. QED
  BY <1>1, <1>2
  DEF Tex!Acquire, Tex!Goto, Tex!texture, TexInv, Tex!TypeOK, Tex!HeldContent, Tex!NothingLost, Tex!Idle

LEMMA TexRecreate ==
  ASSUME TexGiven, TexInv, NEW t \in Callers, Tex!Recreate(t)
  PROVE  TexInv'
<1>1. tex_sticky' \in Seq(Textures) /\ Len(tex_sticky') <= N /\ Tex!IsInjective(tex_sticky') /\ Tex!StickyExact'
  BY TexSameList DEF Tex!Recreate
<1>2. \A u \in Callers : u = t
  BY DEF TexGiven
<1>3. QED
  BY <1>1, <1>2
  DEF Tex!Recreate, Tex!In, Tex!Return, TexInv, Tex!TypeOK, Tex!HeldContent, Tex!NothingLost, Tex!Idle

LEMMA TexDraw ==
  ASSUME TexInv, NEW t \in Callers, NEW x \in Textures, Tex!Draw(t, x) \/ Tex!Release(t, x)
  PROVE  TexInv'
<1>1. tex_sticky' \in Seq(Textures) /\ Len(tex_sticky') <= N /\ Tex!IsInjective(tex_sticky') /\ Tex!StickyExact'
  BY TexSameList DEF Tex!Draw, Tex!Release
<1>2. CASE Tex!Draw(t, x)
  BY <1>1, <1>2
  DEF Tex!Draw, TexInv, Tex!TypeOK, Tex!HeldContent, Tex!NothingLost, Tex!Idle
<1>3. CASE Tex!Release(t, x)
  BY <1>1, <1>3
  DEF Tex!Release, Tex!texture, TexInv, Tex!TypeOK, Tex!HeldContent, Tex!NothingLost, Tex!Idle
<1>4. QED
  BY <1>2, <1>3

LEMMA TexDestroy ==
  ASSUME TexInv, NEW x \in Textures, Tex!Destroy(x)
  PROVE  TexInv'
<1>1. tex_sticky' \in Seq(Textures) /\ Len(tex_sticky') <= N /\ Tex!IsInjective(tex_sticky') /\ Tex!StickyExact'
  BY TexUnmarked, TexListed DEF Tex!Destroy
<1>2. QED
  BY <1>1
  DEF Tex!Destroy, Tex!InUse, TexInv, Tex!TypeOK, Tex!HeldContent, Tex!NothingLost, Tex!Idle

LEMMA TexStep ==
  ASSUME TexGiven, TexInv, [Tex!Next]_(Tex!vars)
  PROVE  TexInv'
<1>1. CASE UNCHANGED Tex!vars
  <2>1. tex_sticky' \in Seq(Textures) /\ Len(tex_sticky') <= N /\ Tex!IsInjective(tex_sticky') /\ Tex!StickyExact'
    BY <1>1, TexSameList DEF Tex!vars
  <2>2. QED
    BY <1>1, <2>1 DEF Tex!vars, Tex!texture, TexInv, Tex!TypeOK, Tex!HeldContent, Tex!NothingLost
<1>2. CASE Tex!Next
  BY <1>2, TexCreate, TexFlush, TexLook, TexFreeCopy, TexAcquire, TexRecreate, TexDraw, TexDestroy
  DEF Tex!Next
<1>3. QED
  BY <1>1, <1>2

\* What a step does to the copy of a texture that was, and stays, locked.
LEMMA TexNeverFreed ==
  ASSUME TexInv, [Tex!Next]_(Tex!vars), NEW x \in locked \cap locked', copy[x] # "gone"
  PROVE  copy'[x] # "gone"
<1>1. x \in Textures /\ x \in alive
  BY DEF TexInv, Tex!TypeOK
<1>2. CASE UNCHANGED Tex!vars
  BY <1>2 DEF Tex!vars, Tex!texture
<1>3. CASE Tex!Next
  <2>1. ASSUME NEW y \in Textures, Tex!Destroy(y) PROVE copy'[x] # "gone"
    BY <1>1, <2>1 DEF Tex!Destroy, TexInv, Tex!TypeOK
  <2>2. ASSUME NEW y \in Textures, NEW empty \in BOOLEAN, Tex!Create(y, empty) PROVE copy'[x] # "gone"
    BY <1>1, <2>2 DEF Tex!Create, TexInv, Tex!TypeOK
  <2>3. ASSUME NEW t \in Callers, NEW y \in Textures, Tex!Flush(t, y) \/ Tex!Acquire(t, y) \/ Tex!Release(t, y)
        PROVE  copy'[x] # "gone"
    BY <2>3 DEF Tex!Flush, Tex!Acquire, Tex!Release, Tex!texture
  <2>4. ASSUME NEW t \in Callers, NEW y \in Textures, Tex!Draw(t, y) PROVE copy'[x] # "gone"
    BY <1>1, <2>4 DEF Tex!Draw, TexInv, Tex!TypeOK
  <2>5. ASSUME NEW t \in Callers, Tex!Look(t) PROVE copy'[x] # "gone"
    BY <2>5 DEF Tex!Look, Tex!LookFreeing, Tex!texture
  <2>6. ASSUME NEW t \in Callers, Tex!FreeCopy(t) PROVE copy'[x] # "gone"
    BY <1>1, <2>6 DEF Tex!FreeCopy, Tex!In, TexInv, Tex!TypeOK
  <2>7. ASSUME NEW t \in Callers, Tex!Recreate(t) PROVE copy'[x] # "gone"
    BY <1>1, <2>7 DEF Tex!Recreate, Tex!In, TexInv, Tex!TypeOK
  <2>8. QED
    BY <1>3, <2>1, <2>2, <2>3, <2>4, <2>5, <2>6, <2>7 DEF Tex!Next
<1>4. QED
  BY <1>2, <1>3

\* A locked texture holds what it would hold in the unpatched game, its copy is
\* never freed again, pixels are freed only once the GPU has them, and the
\* sticky list has exactly the textures that were locked (main.c:379-421), for
\* any textures.  This is a lemma and no theorem of the program: it is for one
\* caller and a list with a place for each texture, and main.c, which takes no
\* lock here, ensures neither.
LEMMA PixelsOfOneCaller ==
  ASSUME NEW k, Callers = {k}, IsFiniteSet(Textures), Cardinality(Textures) <= N
  PROVE  AllSpec => PixelsKept
<1>1. TexGiven
  BY DEF TexGiven
<1>2. AllInit => TexInv
  BY TexInit DEF AllInit
<1>3. TexInv /\ [AllNext]_allVars => TexInv'
  BY <1>1, Parts, TexStep
<1>4. TexInv => Tex!TypeOK /\ Tex!HeldContent /\ Tex!NothingLost /\ Tex!StickyExact
  BY DEF TexInv
<1>5. TexInv /\ [AllNext]_allVars
        => [\A x \in locked \cap locked' : copy[x] # "gone" => copy'[x] # "gone"]_(Tex!vars)
  BY Parts, TexNeverFreed
<1>6. AllSpec => [](Tex!TypeOK /\ Tex!HeldContent /\ Tex!NothingLost /\ Tex!StickyExact)
  BY <1>2, <1>3, <1>4, PTL DEF AllSpec
<1>7. AllSpec => Tex!NeverFreedAgain
  BY <1>2, <1>3, <1>5, PTL DEF AllSpec, Tex!NeverFreedAgain
<1>8. QED
  BY <1>6, <1>7 DEF PixelsKept

----------------------------------------------------------------------------
(* The malloc family, while the game reallocates no large block.  Every    *)
(* call is an exchange: a block goes back to the allocator that home says, *)
(* another comes from an allocator with room for it.                       *)

Words == Seq({Family!Garbage, 0, Family!Tag})

\* What the game wrote, or calloc zeroed, is among a block's words.
Holds(given, words) ==
    /\ Len(given) <= Len(words)
    /\ \A k \in 1..Len(given) : given[k] # Family!Garbage => words[k] = given[k]

FamilyInv ==
    /\ home \in [Blocks -> {"free", "newlib", "big", "emerg"}]
    /\ List(big_tab, Blocks) /\ Len(big_tab) <= BigTab
    /\ Range(big_tab) = {b \in Blocks : home[b] = "big"}
    /\ set = {b \in Blocks : home[b] = "emerg"}
    /\ IsFiniteSet(set) /\ Cardinality(set) <= EmergMax
    /\ misrouted = {}
    /\ word \in [Blocks -> Words] /\ wrote \in [Blocks -> Words]
    /\ \A b \in Blocks : wrote[b] # <<>> <=> home[b] # "free"
    /\ \A b \in Blocks : Holds(wrote[b], word[b])

\* The instance's cardinality is the library's.
LEMMA FamilyCard == \A S : Family!Cardinality(S) = Cardinality(S)
  BY DEF Family!Cardinality, Cardinality

LEMMA FamilyInit == Family!Init => FamilyInv
<1>1. SUFFICES ASSUME Family!Init PROVE FamilyInv
  OBVIOUS
<1>2. BigTab \in Nat /\ EmergMax \in Nat
  BY FamilyAssumption DEF Family!AllocAssumption
<1>3. <<>> \in Words /\ <<>> \in Seq(Blocks) /\ Len(<<>>) = 0
  BY EmptySeq DEF Words
<1>4. /\ IsFiniteSet({}) /\ Cardinality({}) = 0
  BY FS_EmptySet
<1>5. List(big_tab, Blocks) /\ Len(big_tab) <= BigTab /\ Range(big_tab) = {}
  BY <1>1, <1>2, <1>3 DEF Family!Init, List, IsInjective, Range
<1>6. \A b \in Blocks : Holds(wrote[b], word[b])
  BY <1>1, <1>3 DEF Family!Init, Holds
<1>7. QED
  BY <1>1, <1>2, <1>3, <1>4, <1>5, <1>6 DEF Family!Init, FamilyInv

LEMMA FamilyIs == FamilyInv => GoesBackHome
<1>1. SUFFICES ASSUME FamilyInv PROVE GoesBackHome
  OBVIOUS
<1>2. Family!TypeOK
  <2>1. \A b \in Blocks : \A w \in Family!ToSet(word[b]) \cup Family!ToSet(wrote[b]) :
            w \in {Family!Garbage, 0, Family!Tag}
    <3>1. ASSUME NEW s \in Words, NEW w \in Family!ToSet(s) PROVE w \in {Family!Garbage, 0, Family!Tag}
      BY <3>1, LenProperties, ElementOfSeq DEF Words, Family!ToSet
    <3>2. QED
      BY <1>1, <3>1 DEF FamilyInv
  <2>2. Family!ToSet(big_tab) \subseteq Blocks
    BY <1>1 DEF FamilyInv, Family!ToSet, Range
  <2>3. set \subseteq Blocks /\ misrouted \subseteq Blocks
    BY <1>1 DEF FamilyInv
  <2>4. home \in [Blocks -> {"free", "newlib", "big", "emerg"}] /\ Len(big_tab) <= BigTab /\ Cardinality(set) <= EmergMax
    BY <1>1 DEF FamilyInv
  <2>5. QED
    BY <2>1, <2>2, <2>3, <2>4, FamilyCard DEF Family!TypeOK
<1>3. Family!TablesExact
  BY <1>1 DEF FamilyInv, Family!TablesExact, Family!IsInjective, Family!ToSet, List, IsInjective, Range
<1>4. Family!NothingLeaked /\ Family!NoneMisrouted
  BY <1>1 DEF FamilyInv, Family!NothingLeaked, Family!NoneMisrouted, Family!Game, Family!Free
<1>5. Family!ContentKept
  BY <1>1 DEF FamilyInv, Family!ContentKept, Family!Game, Holds
<1>6. QED
  BY <1>2, <1>3, <1>4, <1>5 DEF GoesBackHome

\* Which allocator a block of the game is from.
LEMMA FamilyHome ==
  ASSUME FamilyInv, NEW b \in Family!Game
  PROVE  /\ b \in Blocks /\ home[b] \in {"newlib", "big", "emerg"}
         /\ Family!HomeOf(b) = home[b]
         /\ Family!Contains(big_tab, b) <=> home[b] = "big"
<1>1. b \in Blocks /\ home[b] \in {"newlib", "big", "emerg"}
  BY DEF FamilyInv, Family!Game
<1>2. DOMAIN big_tab = 1..Len(big_tab)
  BY LenProperties DEF FamilyInv, List
<1>3. Family!Contains(big_tab, b) <=> b \in Range(big_tab)
  BY <1>2 DEF Family!Contains, Range
<1>4. QED
  BY <1>1, <1>3 DEF FamilyInv, Family!HomeOf

\* An exchange: what goes back, if anything, and what comes, if anything.
Returned(old, to) ==
    IF old = NULL THEN to = "none" ELSE old \in Family!Game /\ to = home[old]
Given(old, new, source) ==
    IF new = NULL THEN source = "none"
    ELSE /\ new \in Blocks
         /\ \/ /\ home[new] = "free" /\ source \in {"newlib", "big", "emerg"}
               /\ source = "big" => Len(big_tab) < BigTab
               /\ source = "emerg" => Family!Spare
            \/ new = old /\ home[old] = "newlib" /\ source = "newlib"

LEMMA FamilyTable ==
  ASSUME FamilyInv, NEW old, NEW to, NEW new, NEW source, NEW words,
         Returned(old, to), Given(old, new, source), Family!Exchange(old, to, new, source, words)
  PROVE  /\ List(big_tab', Blocks) /\ Len(big_tab') <= BigTab
         /\ Range(big_tab') = {b \in Blocks : home'[b] = "big"}
<1> DEFINE left == IF to = "big" THEN Family!BigDrop(old) ELSE big_tab
<1>1. BigTab \in Nat /\ NULL \notin Blocks
  BY FamilyAssumption DEF Family!AllocAssumption
<1>2. List(big_tab, Blocks) /\ Len(big_tab) \in Nat /\ Len(big_tab) <= BigTab /\ DOMAIN big_tab = 1..Len(big_tab)
  BY LenProperties DEF FamilyInv, List
<1>3. \A b \in Blocks : home'[b] = IF b = new THEN source ELSE IF b = old THEN "free" ELSE home[b]
  BY DEF Family!Exchange
<1>4. big_tab' = IF source = "big" THEN Append(left, new) ELSE left
  BY DEF Family!Exchange
<1>5. /\ List(left, Blocks) /\ Len(left) <= Len(big_tab) /\ Len(left) \in Nat
      /\ Range(left) = IF to = "big" THEN Range(big_tab) \ {old} ELSE Range(big_tab)
  <2>1. CASE to # "big"
    BY <1>2, <2>1
  <2>2. CASE to = "big"
    <3>1. old \in Blocks /\ home[old] = "big"
      BY <2>2, FamilyHome DEF Returned
    <3>2. \E k \in 1..Len(big_tab) : big_tab[k] = old
      BY <1>2, <3>1 DEF FamilyInv, Range
    <3>3. PICK i \in 1..Len(big_tab) :
             big_tab[i] = old /\ i = CHOOSE k \in 1..Len(big_tab) : big_tab[k] = old
      BY <3>2
    <3>4. left = [k \in 1..Len(big_tab) - 1 |-> IF k = i THEN big_tab[Len(big_tab)] ELSE big_tab[k]]
      BY <2>2, <3>3 DEF Family!BigDrop
    <3> HIDE DEF left
    <3>5. List(left, Blocks)
      <4>1. List(big_tab, Blocks) /\ i \in 1..Len(big_tab)
        BY <1>2, <3>3
      <4>2. QED
        BY <3>4, <4>1, ListDrop
    <3>6. Range(left) = Range(big_tab) \ {big_tab[i]}
      BY <1>2, <3>3, <3>4, ListDrop
    <3>7. Len(left) = Len(big_tab) - 1
      BY <1>2, <3>3, <3>4, ListDrop
    <3>8. QED
      BY <1>2, <2>2, <3>3, <3>5, <3>6, <3>7
  <2>3. QED
    BY <2>1, <2>2
<1> HIDE DEF left
<1>6. CASE source = "big"
  <2>1. new \in Blocks /\ home[new] = "free" /\ Len(big_tab) < BigTab
    BY <1>6 DEF Given
  <2>2. new \notin Range(left) /\ new # old
    BY <1>1, <1>5, <2>1, FamilyHome DEF FamilyInv, Returned
  <2>3. /\ List(big_tab', Blocks) /\ Range(big_tab') = Range(left) \cup {new}
        /\ Len(big_tab') = Len(left) + 1
    BY <1>4, <1>5, <1>6, <2>1, <2>2, ListAppend
  <2>4. Range(big_tab') = {b \in Blocks : home'[b] = "big"}
    BY <1>1, <1>3, <1>5, <1>6, <2>1, <2>2, <2>3, FamilyHome DEF FamilyInv, Returned
  <2>5. QED
    BY <1>1, <1>2, <1>5, <2>1, <2>3, <2>4
<1>7. CASE source # "big"
  <2>1. big_tab' = left
    BY <1>4, <1>7
  <2>2. Range(big_tab') = {b \in Blocks : home'[b] = "big"}
    BY <1>1, <1>3, <1>5, <1>7, <2>1, FamilyHome DEF FamilyInv, Returned, Given
  <2>3. QED
    BY <1>1, <1>2, <1>5, <2>1, <2>2
<1>8. QED
  BY <1>6, <1>7

LEMMA FamilySet ==
  ASSUME FamilyInv, NEW old, NEW to, NEW new, NEW source, NEW words,
         Returned(old, to), Given(old, new, source), Family!Exchange(old, to, new, source, words)
  PROVE  /\ home' \in [Blocks -> {"free", "newlib", "big", "emerg"}]
         /\ set' = {b \in Blocks : home'[b] = "emerg"}
         /\ IsFiniteSet(set') /\ Cardinality(set') <= EmergMax
         /\ misrouted' = {}
<1>1. EmergMax \in Nat /\ NULL \notin Blocks
  BY FamilyAssumption DEF Family!AllocAssumption
<1>2. \A b \in Blocks : home'[b] = IF b = new THEN source ELSE IF b = old THEN "free" ELSE home[b]
  BY DEF Family!Exchange
<1>3. home' \in [Blocks -> {"free", "newlib", "big", "emerg"}]
  BY <1>1 DEF Family!Exchange, FamilyInv, Given
<1>4. misrouted' = {}
  BY DEF Family!Exchange, FamilyInv, Returned
<1> DEFINE left == IF to = "emerg" THEN set \ {old} ELSE set
<1>5. set' = IF source = "emerg" THEN left \cup {new} ELSE left
  BY DEF Family!Exchange
<1>6. /\ IsFiniteSet(left) /\ Cardinality(left) \in Nat
      /\ Cardinality(set) \in Nat /\ Cardinality(left) <= Cardinality(set)
  <2>1. IsFiniteSet(set) /\ left \in SUBSET set
    BY DEF FamilyInv
  <2>2. QED
    BY <2>1, FS_Subset, FS_CardinalityType
<1>7. set' = {b \in Blocks : home'[b] = "emerg"}
  BY <1>1, <1>2, <1>5, FamilyHome DEF FamilyInv, Returned, Given
<1> HIDE DEF left
<1>8. IsFiniteSet(set') /\ Cardinality(set') <= EmergMax
  <2>1. CASE source = "emerg"
    <3>1. Family!Spare
      BY <2>1 DEF Given
    <3>2. /\ IsFiniteSet(left \cup {new})
          /\ \/ Cardinality(left \cup {new}) = Cardinality(left)
             \/ Cardinality(left \cup {new}) = Cardinality(left) + 1
      BY <1>6, FS_AddElement
    <3>3. Cardinality(left \cup {new}) \in Nat
      BY <3>2, FS_CardinalityType
    <3>4. QED
      BY <1>1, <1>5, <1>6, <2>1, <3>1, <3>2, <3>3, FamilyCard DEF Family!Spare
  <2>2. CASE source # "emerg"
    <3>1. Cardinality(set) <= EmergMax
      BY DEF FamilyInv
    <3>2. QED
      BY <1>1, <1>5, <1>6, <2>2, <3>1
  <2>3. QED
    BY <2>1, <2>2
<1>9. QED
  BY <1>3, <1>4, <1>7, <1>8

\* Whole exchanges: "given" is what the game has in the block that comes.
LEMMA FamilyExchange ==
  ASSUME FamilyInv, NEW old, NEW to, NEW new, NEW source, NEW words \in Words, NEW given \in Words,
         Returned(old, to), Given(old, new, source), Family!Exchange(old, to, new, source, words),
         new # NULL => given # <<>> /\ Holds(given, words),
         wrote' = [b \in Blocks |-> IF b = new THEN given ELSE IF b = old THEN <<>> ELSE wrote[b]]
  PROVE  FamilyInv'
<1>1. /\ List(big_tab', Blocks) /\ Len(big_tab') <= BigTab
      /\ Range(big_tab') = {b \in Blocks : home'[b] = "big"}
  BY FamilyTable
<1>2. /\ home' \in [Blocks -> {"free", "newlib", "big", "emerg"}]
      /\ set' = {b \in Blocks : home'[b] = "emerg"}
      /\ IsFiniteSet(set') /\ Cardinality(set') <= EmergMax
      /\ misrouted' = {}
  BY FamilySet
<1>3. <<>> \in Words /\ Holds(<<>>, <<>>) /\ NULL \notin Blocks
  BY EmptySeq, FamilyAssumption DEF Words, Holds, Family!AllocAssumption
<1>4. \A b \in Blocks :
         /\ home'[b] = IF b = new THEN source ELSE IF b = old THEN "free" ELSE home[b]
         /\ word'[b] = IF b = new THEN words ELSE IF b = old THEN <<>> ELSE word[b]
         /\ wrote'[b] = IF b = new THEN given ELSE IF b = old THEN <<>> ELSE wrote[b]
  BY DEF Family!Exchange
<1>5. word' \in [Blocks -> Words] /\ wrote' \in [Blocks -> Words]
  BY <1>3 DEF Family!Exchange, FamilyInv
<1>6. \A b \in Blocks : wrote'[b] # <<>> <=> home'[b] # "free"
  BY <1>3, <1>4 DEF FamilyInv, Given
<1>7. \A b \in Blocks : Holds(wrote'[b], word'[b])
  BY <1>3, <1>4 DEF FamilyInv
<1>8. QED
  BY <1>1, <1>2, <1>5, <1>6, <1>7 DEF FamilyInv

\* Fresh words, and words that were moved.
LEMMA FamilyFill ==
  ASSUME NEW size \in Nat \ {0}, NEW more \in Nat, more >= size,
         NEW v \in {Family!Garbage, 0, Family!Tag}
  PROVE  /\ Family!Fill(size, v) \in Words /\ Family!Fill(more, v) \in Words
         /\ Family!Fill(size, v) # <<>>
         /\ Holds(Family!Fill(size, v), Family!Fill(more, v))
<1>1. Family!Fill(size, v) \in Words /\ Family!Fill(more, v) \in Words
  BY SeqDef DEF Words, Family!Fill
<1>2. Len(Family!Fill(size, v)) = size /\ Len(Family!Fill(more, v)) = more
  BY DEF Family!Fill
<1>3. Family!Fill(size, v) # <<>>
  BY <1>2
<1>4. Holds(Family!Fill(size, v), Family!Fill(more, v))
  BY <1>2 DEF Holds, Family!Fill
<1>5. QED
  BY <1>1, <1>3, <1>4

LEMMA FamilyCut ==
  ASSUME NEW given \in Words, NEW words \in Words, Holds(given, words),
         NEW size \in Nat \ {0}, NEW more \in Nat, more >= size
  PROVE  /\ Family!Cut(given, size) \in Words /\ Family!Cut(words, more) \in Words
         /\ Family!Cut(given, size) # <<>>
         /\ Holds(Family!Cut(given, size), Family!Cut(words, more))
<1>1. /\ Len(given) \in Nat /\ Len(words) \in Nat /\ Len(given) <= Len(words)
      /\ \A k \in 1..Len(given) : given[k] \in {Family!Garbage, 0, Family!Tag}
      /\ \A k \in 1..Len(words) : words[k] \in {Family!Garbage, 0, Family!Tag}
  BY LenProperties, ElementOfSeq DEF Words, Holds
<1>2. Family!Cut(given, size) \in Words /\ Family!Cut(words, more) \in Words
  BY <1>1, SeqDef DEF Words, Family!Cut
<1>3. Len(Family!Cut(given, size)) = size /\ Len(Family!Cut(words, more)) = more
  BY DEF Family!Cut
<1>4. Family!Cut(given, size) # <<>>
  BY <1>3
<1>5. ASSUME NEW k \in 1..size, Family!Cut(given, size)[k] # Family!Garbage
      PROVE  Family!Cut(words, more)[k] = Family!Cut(given, size)[k]
  BY <1>1, <1>5 DEF Holds, Family!Cut
<1>6. QED
  BY <1>2, <1>3, <1>4, <1>5 DEF Holds

LEMMA FamilyRoom ==
  ASSUME NEW size \in Nat \ {0}, NEW source
  PROVE  Family!Room(source, size) \in Nat /\ Family!Room(source, size) >= size
  BY DEF Family!Room

LEMMA FamilyMalloc ==
  ASSUME FamilyInv, NEW size, NEW source \in Family!malloc(size)
  PROVE  /\ source \in {"newlib", "big", "emerg"}
         /\ source = "big" => Len(big_tab) < BigTab
         /\ source = "emerg" => Family!Spare
  BY DEF Family!malloc, Family!Large

LEMMA FamilyAllocate ==
  ASSUME FamilyInv, NEW size \in Sizes, NEW asked, NEW source \in Family!malloc(asked),
         NEW v \in {Family!Garbage, 0, Family!Tag}, Family!Allocate(size, source, v)
  PROVE  FamilyInv'
<1>1. PICK b \in Family!Free :
         /\ Family!Exchange(NULL, "none", b, source, Family!Fill(Family!Room(source, size), v))
         /\ wrote' = [wrote EXCEPT ![b] = Family!Fill(size, v)]
  BY DEF Family!Allocate
<1>2. b \in Blocks /\ home[b] = "free" /\ NULL \notin Blocks /\ size \in Nat \ {0}
  BY FamilyAssumption DEF Family!Free, Family!AllocAssumption
<1> DEFINE words == Family!Fill(Family!Room(source, size), v)
           given == Family!Fill(size, v)
<1>3. words \in Words /\ given \in Words /\ given # <<>> /\ Holds(given, words)
  BY <1>2, FamilyFill, FamilyRoom
<1>4. Returned(NULL, "none") /\ Given(NULL, b, source)
  BY <1>2, FamilyMalloc DEF Returned, Given
<1>5. wrote' = [c \in Blocks |-> IF c = b THEN given ELSE IF c = NULL THEN <<>> ELSE wrote[c]]
  BY <1>1, <1>2 DEF FamilyInv
<1>6. Family!Exchange(NULL, "none", b, source, words)
  BY <1>1
<1> HIDE DEF words, given
<1>7. QED
  BY <1>3, <1>4, <1>5, <1>6, FamilyExchange

LEMMA FamilyFree ==
  ASSUME FamilyInv, NEW b \in Blocks, Family!free_big(b)
  PROVE  FamilyInv'
<1>1. b \in Family!Game /\ Family!Exchange(b, Family!HomeOf(b), NULL, "none", <<>>)
  BY DEF Family!free_big
<1>2. Family!HomeOf(b) = home[b] /\ NULL \notin Blocks
  BY <1>1, FamilyHome, FamilyAssumption DEF Family!AllocAssumption
<1>3. Returned(b, home[b]) /\ Given(b, NULL, "none") /\ <<>> \in Words
  BY <1>1, <1>2, EmptySeq DEF Returned, Given, Words
<1>4. wrote' = [c \in Blocks |-> IF c = NULL THEN <<>> ELSE IF c = b THEN <<>> ELSE wrote[c]]
  BY <1>2 DEF Family!free_big, FamilyInv
<1>5. Family!Exchange(b, home[b], NULL, "none", <<>>)
  BY <1>1, <1>2
<1>6. QED
  BY <1>3, <1>4, <1>5, FamilyExchange

LEMMA FamilyMoves ==
  ASSUME FamilyInv, NEW old \in Family!Game, NEW to, to = home[old],
         NEW new \in Blocks, NEW source, Given(old, new, source), NEW size \in Sizes,
         Family!Moves(old, to, new, source, size)
  PROVE  FamilyInv'
<1>1. old \in Blocks /\ NULL \notin Blocks /\ size \in Nat \ {0}
  BY FamilyHome, FamilyAssumption DEF Family!AllocAssumption
<1>2. wrote[old] \in Words /\ word[old] \in Words /\ Holds(wrote[old], word[old])
  BY <1>1 DEF FamilyInv
<1> DEFINE words == Family!Cut(word[old], Family!Room(source, size))
           given == Family!Cut(wrote[old], size)
<1>3. words \in Words /\ given \in Words /\ given # <<>> /\ Holds(given, words)
  BY <1>1, <1>2, FamilyCut, FamilyRoom
<1>4. Returned(old, to)
  BY <1>1 DEF Returned
<1>5. /\ Family!Exchange(old, to, new, source, words)
      /\ wrote' = [b \in Blocks |-> IF b = new THEN given ELSE IF b = old THEN <<>> ELSE wrote[b]]
  BY DEF Family!Moves
<1> HIDE DEF words, given
<1>6. QED
  BY <1>3, <1>4, <1>5, FamilyExchange

LEMMA FamilyRealloc ==
  ASSUME ReallocsBig = FALSE, FamilyInv, NEW old \in Blocks, NEW size \in Sizes,
         Family!realloc_log(old, size)
  PROVE  FamilyInv'
<1>1. old \in Family!Game /\ home[old] \in {"newlib", "emerg"} /\ (old \in set <=> home[old] = "emerg")
  BY FamilyHome DEF Family!realloc_log, FamilyInv
<1>2. \A b \in Family!Free : b \in Blocks /\ home[b] = "free"
  BY DEF Family!Free
<1>3. ASSUME NEW b \in Family!Free, NEW source \in Family!malloc(size), old \in set,
             Family!Moves(old, "emerg", b, source, size)
      PROVE  FamilyInv'
  <2>1. Given(old, b, source)
    BY <1>2, FamilyMalloc, FamilyAssumption DEF Given, Family!AllocAssumption
  <2>2. QED
    BY <1>1, <1>2, <1>3, <2>1, FamilyMoves
<1>4. ASSUME NEW b \in Family!Free \cup {old}, old \notin set, Family!Moves(old, "newlib", b, "newlib", size)
      PROVE  FamilyInv'
  <2>1. Given(old, b, "newlib") /\ b \in Blocks
    BY <1>1, <1>2, <1>4, FamilyAssumption DEF Given, Family!AllocAssumption
  <2>2. QED
    BY <1>1, <1>4, <2>1, FamilyMoves
<1>5. ASSUME NEW b \in Family!Free, old \notin set, Family!Spare, Family!Moves(old, "newlib", b, "emerg", size)
      PROVE  FamilyInv'
  <2>1. Given(old, b, "emerg")
    BY <1>2, <1>5, FamilyAssumption DEF Given, Family!AllocAssumption
  <2>2. QED
    BY <1>1, <1>2, <1>5, <2>1, FamilyMoves
<1>6. QED
  BY <1>3, <1>4, <1>5 DEF Family!realloc_log

LEMMA FamilyWrite ==
  ASSUME FamilyInv, NEW b \in Blocks, Family!Write(b)
  PROVE  FamilyInv'
<1> DEFINE size == Len(wrote[b])
           given == Family!Fill(size, Family!Tag)
           words == [k \in DOMAIN word[b] |-> IF k <= size THEN Family!Tag ELSE word[b][k]]
<1>1. /\ wrote[b] \in Words /\ word[b] \in Words /\ Holds(wrote[b], word[b]) /\ wrote[b] # <<>>
      /\ size \in Nat \ {0} /\ Len(word[b]) \in Nat /\ DOMAIN word[b] = 1..Len(word[b])
      /\ \A k \in 1..Len(word[b]) : word[b][k] \in {Family!Garbage, 0, Family!Tag}
  BY EmptySeq, LenProperties, ElementOfSeq DEF FamilyInv, Family!Write, Family!Game, Words
<1>2. given \in Words /\ given # <<>> /\ Len(given) = size
  <2>1. given \in Words /\ given # <<>>
    BY <1>1, FamilyFill
  <2>2. QED
    BY <1>1, <2>1 DEF Family!Fill
<1>3. words \in Words /\ Len(words) = Len(word[b])
  BY <1>1, SeqDef DEF Words
<1>4. Holds(given, words)
  BY <1>1, <1>2, <1>3 DEF Holds, Family!Fill
<1>5. wrote' = [wrote EXCEPT ![b] = given] /\ word' = [word EXCEPT ![b] = words]
  BY DEF Family!Write
<1> HIDE DEF size, given, words
<1>6. UNCHANGED <<home, big_tab, set, misrouted>>
  BY DEF Family!Write
<1>7. QED
  BY <1>1, <1>2, <1>3, <1>4, <1>5, <1>6 DEF FamilyInv

LEMMA FamilyStep ==
  ASSUME ReallocsBig = FALSE, FamilyInv, [Family!Next]_(Family!vars)
  PROVE  FamilyInv'
<1>1. CASE UNCHANGED Family!vars
  BY <1>1 DEF FamilyInv, Family!vars
<1>2. ASSUME NEW size \in Sizes, Family!malloc_log(size) PROVE FamilyInv'
  BY <1>2, FamilyAllocate DEF Family!malloc_log
<1>3. ASSUME NEW size \in Sizes, Family!calloc_log(size) PROVE FamilyInv'
  BY <1>3, FamilyAllocate DEF Family!calloc_log
<1>4. ASSUME NEW size \in Sizes, NEW align, Family!memalign_log(align, size) PROVE FamilyInv'
  BY <1>4, FamilyAllocate DEF Family!memalign_log
<1>5. QED
  BY <1>1, <1>2, <1>3, <1>4, FamilyRealloc, FamilyFree, FamilyWrite DEF Family!Next

\* A block goes back to the allocator it is from with what is in it, the tables
\* have exactly the blocks that are out, and no realloc loses one or its content
\* (default_dynlib.c:362,390-401): for any blocks, sizes and capacities of the
\* tables, whichever allocators have room, if no large block is reallocated.
THEOREM FamilySafe ==
  ASSUME ReallocsBig = FALSE
  PROVE  AllSpec => []GoesBackHome
<1>1. AllInit => FamilyInv
  BY FamilyInit DEF AllInit
<1>2. FamilyInv /\ [AllNext]_allVars => FamilyInv'
  BY Parts, FamilyStep
<1>3. QED
  BY <1>1, <1>2, FamilyIs, PTL DEF AllSpec

----------------------------------------------------------------------------
(* The emergency set, for one caller.  Probing goes round the cells from   *)
(* a pointer's hash; a pointer is found when all cells before its own are  *)
(* taken.  Lifting a pointer out only cuts off what lies behind it without *)
(* a free cell in between, which is the chain that is walked next.         *)

\* How far round from cell a cell c is.
Dist(a, c) == IF c >= a THEN c - a ELSE c - a + SetSize

\* From cell a on, all cells before c are taken.
Taken(a, c) == \A e \in Set!Cells : Dist(a, e) < Dist(a, c) => emerg_set[e] # Empty

\* The set has the pointers S; each is found, or else lies in the chain from i.
Has(S) == \A p \in Ptrs : p \in S <=> \E c \in Set!Cells : emerg_set[c] = p
Found(c) == Taken(hash[emerg_set[c]], c)
AllFound == \A c \in Set!Cells : emerg_set[c] # Empty => Found(c)
FoundOrFrom(i) == \A c \in Set!Cells : emerg_set[c] # Empty => Found(c) \/ Taken(i, c)

Probing(c) ==
    /\ c.pc \in {"probe", "store"}
    /\ c.at \in Set!Cells /\ c.ptr \in Ptrs \ owned
    /\ Has(owned) /\ AllFound
    /\ emerg_live = Cardinality(owned) /\ emerg_live < SetSize \div 2
    /\ Taken(hash[c.ptr], c.at)
    /\ c.pc = "store" => emerg_set[c.at] = Empty
Counting(c) ==
    /\ c.pc = "count"
    /\ c.at = emerg_live + 1 /\ c.at <= SetSize \div 2 /\ c.ptr \in Ptrs \ owned
    /\ Has(owned \cup {c.ptr}) /\ AllFound
    /\ emerg_live = Cardinality(owned)
Finding(c) ==
    /\ c.pc = "find"
    /\ c.at \in Set!Cells /\ c.ptr \in Ptrs \ owned
    /\ Has(owned \cup {c.ptr}) /\ AllFound
    /\ emerg_live = Cardinality(owned) + 1
    /\ \E e \in Set!Cells :
          emerg_set[e] = c.ptr /\ Dist(hash[c.ptr], c.at) <= Dist(hash[c.ptr], e)
Removing(c) ==
    /\ c.pc \in {"uncount", "hole"}
    /\ c.at \in Set!Cells /\ c.ptr \in Ptrs \ owned
    /\ Has(owned \cup {c.ptr}) /\ AllFound
    /\ emerg_live = Cardinality(owned) + (IF c.pc = "uncount" THEN 1 ELSE 0)
    /\ emerg_set[c.at] = c.ptr
Chaining(c) ==
    /\ c.pc = "chain"
    /\ c.at \in Set!Cells /\ c.ptr \in Ptrs
    /\ Has(owned) /\ FoundOrFrom(c.at)
    /\ emerg_live = Cardinality(owned)
Placing(c) ==
    /\ c.pc = "place"
    /\ c.at \in Set!Cells /\ c.to \in Set!Cells /\ c.ptr \in Ptrs /\ c.lifted \in owned
    /\ Has(owned \ {c.lifted}) /\ FoundOrFrom(Set!Next1(c.at))
    /\ emerg_live = Cardinality(owned)
    /\ Taken(hash[c.lifted], c.to)
Resting(c) ==
    /\ c = Set!Idle
    /\ Has(owned) /\ AllFound
    /\ emerg_live = Cardinality(owned)

EmergData ==
    /\ hash \in [Ptrs -> Set!Cells]
    /\ emerg_set \in [Set!Cells -> Ptrs \cup {Empty}]
    /\ emerg_live \in 0..SetSize \div 2
    /\ owned \subseteq Ptrs /\ IsFiniteSet(owned)
    /\ \A c, e \in Set!Cells : emerg_set[c] = emerg_set[e] /\ emerg_set[c] # Empty => c = e
EmergCalls ==
    {Set!Idle} \cup [pc : Set!Pcs, ptr : Ptrs, at : 0..SetSize]
        \cup [pc : {"place"}, ptr : Ptrs, at : Set!Cells, lifted : Ptrs, to : Set!Cells]
Working(c) ==
    \/ Resting(c) \/ Probing(c) \/ Counting(c) \/ Finding(c)
    \/ Removing(c) \/ Chaining(c) \/ Placing(c)
EmergInv ==
    /\ EmergData
    /\ call = [t \in Callers |-> call[t]]
    /\ \A t \in Callers : call[t] \in EmergCalls /\ Working(call[t])

LEMMA Remainder ==
  ASSUME NEW m \in Nat \ {0}, NEW a \in 0..2 * m - 1
  PROVE  a % m = IF a < m THEN a ELSE a - m
<1>1. a = (m * (a \div m)) + (a % m) /\ a % m \in 0..m - 1 /\ a \div m \in Int
  BY SMT
<1> DEFINE q == a \div m
<1> HIDE DEF q
<1>2. q <= 1
  <2>1. SUFFICES ASSUME q >= 2 PROVE FALSE
    BY <1>1 DEF q
  <2>2. m * q >= m * 2
    BY <1>1, <2>1 DEF q
  <2>3. QED
    BY <1>1, <2>2 DEF q
<1>3. q >= 0
  <2>1. SUFFICES ASSUME q <= -1 PROVE FALSE
    BY <1>1 DEF q
  <2>2. m * q <= -m
    BY <1>1, <2>1 DEF q
  <2>3. QED
    BY <1>1, <2>2 DEF q
<1>4. CASE q = 0
  <2>1. m * q = 0
    BY <1>4
  <2>2. QED
    BY <1>1, <2>1 DEF q
<1>5. CASE q = 1
  <2>1. m * q = m
    BY <1>5
  <2>2. QED
    BY <1>1, <2>1 DEF q
<1>6. QED
  BY <1>1, <1>2, <1>3, <1>4, <1>5 DEF q

LEMMA EmergNext ==
  ASSUME NEW i \in Set!Cells
  PROVE  Set!Next1(i) \in Set!Cells /\ Set!Next1(i) = IF i = SetSize - 1 THEN 0 ELSE i + 1
<1>1. SetSize \in Nat \ {0} /\ i \in 0..SetSize - 1
  BY SetAssumption DEF Set!EmergAssumption, Set!Cells
<1>2. \A a \in 0..2 * SetSize - 1 : a % SetSize = IF a < SetSize THEN a ELSE a - SetSize
  BY <1>1, Remainder
<1>3. (i + 1) % SetSize = IF i + 1 < SetSize THEN i + 1 ELSE i + 1 - SetSize
  BY <1>1, <1>2
<1>4. QED
  BY <1>1, <1>3 DEF Set!Next1, Set!Cells

\* Distances are a way to number the cells.
LEMMA DistType ==
  ASSUME NEW a \in Set!Cells, NEW c \in Set!Cells, NEW e \in Set!Cells
  PROVE  Dist(a, c) \in Set!Cells /\ Dist(a, a) = 0 /\ (Dist(a, c) = Dist(a, e) => c = e)
  BY SetAssumption DEF Set!EmergAssumption, Set!Cells, Dist

\* The next cell's distance, from a cell and to a cell.
LEMMA DistNext ==
  ASSUME NEW a \in Set!Cells, NEW i \in Set!Cells, NEW e \in Set!Cells
  PROVE  /\ Dist(a, e) < Dist(a, Set!Next1(i)) => e = i \/ Dist(a, e) < Dist(a, i)
         /\ Set!Next1(i) # a => Dist(a, Set!Next1(i)) = Dist(a, i) + 1
         /\ Set!Next1(i) = a => Dist(a, i) = SetSize - 1
         /\ Dist(Set!Next1(i), e) = IF e = i THEN SetSize - 1 ELSE Dist(i, e) - 1
  BY EmergNext, SetAssumption DEF Set!EmergAssumption, Set!Cells, Dist

\* What lies between i and c is on the way to c from before i.
LEMMA DistThrough ==
  ASSUME NEW a \in Set!Cells, NEW c \in Set!Cells, NEW e \in Set!Cells, NEW i \in Set!Cells,
         Dist(a, i) < Dist(a, c), Dist(Set!Next1(i), e) < Dist(Set!Next1(i), c)
  PROVE  Dist(a, e) < Dist(a, c) /\ e # i
<1>1. c # i
  BY SetAssumption DEF Set!EmergAssumption, Set!Cells, Dist
<1>2. Dist(Set!Next1(i), e) < Dist(i, c) - 1
  BY <1>1, DistNext
<1>3. e # i
  BY <1>2, DistNext, SetAssumption DEF Set!EmergAssumption, Set!Cells, Dist
<1>4. Dist(i, e) < Dist(i, c)
  BY <1>2, <1>3, DistNext, SetAssumption DEF Set!EmergAssumption, Set!Cells, Dist
<1>5. QED
  BY <1>3, <1>4, SetAssumption DEF Set!EmergAssumption, Set!Cells, Dist

\* Taken, one cell further.
LEMMA TakenNext ==
  ASSUME NEW a \in Set!Cells, NEW i \in Set!Cells, Taken(a, i), emerg_set[i] # Empty
  PROVE  Taken(a, Set!Next1(i))
  BY DistNext DEF Taken

\* Filling a cell keeps what is taken ...
LEMMA TakenFill ==
  ASSUME NEW a \in Set!Cells, NEW c \in Set!Cells, Taken(a, c),
         NEW i \in Set!Cells, NEW p \in Ptrs,
         emerg_set' = [emerg_set EXCEPT ![i] = p],
         emerg_set \in [Set!Cells -> Ptrs \cup {Empty}]
  PROVE  Taken(a, c)'
  BY SetAssumption DEF Taken, Set!EmergAssumption

\* ... and emptying one cuts off what lies behind it without a free cell.
LEMMA TakenLift ==
  ASSUME NEW a \in Set!Cells, NEW c \in Set!Cells, Taken(a, c), NEW i \in Set!Cells, c # i,
         emerg_set' = [emerg_set EXCEPT ![i] = Empty],
         emerg_set \in [Set!Cells -> Ptrs \cup {Empty}]
  PROVE  Taken(a, c)' \/ Taken(Set!Next1(i), c)'
<1>0. \A e \in Set!Cells : e # i => emerg_set'[e] = emerg_set[e]
  OBVIOUS
<1>1. CASE Dist(a, i) < Dist(a, c)
  <2>1. ASSUME NEW e \in Set!Cells, Dist(Set!Next1(i), e) < Dist(Set!Next1(i), c)
        PROVE  emerg_set'[e] # Empty
    <3>1. Dist(a, e) < Dist(a, c) /\ e # i
      BY <1>1, <2>1, DistThrough
    <3>2. QED
      BY <1>0, <3>1 DEF Taken
  <2>2. QED
    BY <2>1 DEF Taken
<1>2. CASE ~(Dist(a, i) < Dist(a, c))
  BY <1>0, <1>2 DEF Taken
<1>3. QED
  BY <1>1, <1>2

\* A step of the only caller.
LEMMA EmergFrame ==
  ASSUME NEW k, Callers = {k}, EmergInv, NEW c \in EmergCalls,
         call' = [call EXCEPT ![k] = c], EmergData', Working(c)'
  PROVE  EmergInv'
<1>1. call'[k] = c /\ call' = [t \in Callers |-> call'[t]]
  BY DEF EmergInv
<1>2. Working(call[k])'
  BY <1>1 DEF Working, Resting, Probing, Counting, Finding, Removing, Chaining, Placing
<1>3. EmergCalls' = EmergCalls
  BY DEF EmergCalls
<1>4. QED
  BY <1>1, <1>2, <1>3 DEF EmergInv

LEMMA EmergSame ==
  ASSUME EmergInv, UNCHANGED <<hash, emerg_set, emerg_live, owned>>
  PROVE  EmergData'
  BY DEF EmergInv, EmergData

\* The part of the invariant that belongs to a call's pc.
LEMMA EmergPc ==
  ASSUME EmergInv, NEW k \in Callers
  PROVE  /\ call[k].pc = "idle" => Resting(call[k])
         /\ call[k].pc \in {"probe", "store"} => Probing(call[k])
         /\ call[k].pc = "count" => Counting(call[k])
         /\ call[k].pc = "find" => Finding(call[k])
         /\ call[k].pc \in {"uncount", "hole"} => Removing(call[k])
         /\ call[k].pc = "chain" => Chaining(call[k])
         /\ call[k].pc = "place" => Placing(call[k])
         /\ call[k].pc # "newlib"
<1>1. Working(call[k])
  BY DEF EmergInv
<1>2. Resting(call[k]) => call[k].pc = "idle"
  BY DEF Resting, Set!Idle
<1>3. /\ Probing(call[k]) => call[k].pc \in {"probe", "store"}
      /\ Counting(call[k]) => call[k].pc = "count"
      /\ Finding(call[k]) => call[k].pc = "find"
      /\ Removing(call[k]) => call[k].pc \in {"uncount", "hole"}
      /\ Chaining(call[k]) => call[k].pc = "chain"
      /\ Placing(call[k]) => call[k].pc = "place"
  BY DEF Probing, Counting, Finding, Removing, Chaining, Placing
<1>4. QED
  BY <1>1, <1>2, <1>3 DEF Working

LEMMA EmergSize == SetSize \in Nat \ {0} /\ Empty \notin Ptrs /\ Set!Cells = 0..SetSize - 1 /\ SetSize \div 2 <= SetSize
  BY SetAssumption DEF Set!EmergAssumption, Set!Cells

LEMMA EmergFramed ==
  ASSUME NEW p \in Ptrs, NEW i, i \in Set!Cells \/ i \in 0..SetSize, NEW stage \in Set!Pcs,
         NEW c, c = Set!Frame(stage, p, i)
  PROVE  c \in EmergCalls /\ c.pc = stage /\ c.ptr = p /\ c.at = i
<1>1. i \in 0..SetSize
  BY EmergSize
<1>2. QED
  BY <1>1 DEF Set!Frame, EmergCalls

LEMMA EmergAlloc ==
  ASSUME NEW k, Callers = {k}, EmergInv, NEW p \in Ptrs, Set!Alloc(k, p)
  PROVE  EmergInv'
<1>0. PICK c : c = Set!Frame("probe", p, hash[p])
  OBVIOUS
<1>1. call[k] = Set!Idle /\ p \notin owned /\ emerg_live < SetSize \div 2
      /\ call' = [call EXCEPT ![k] = c] /\ UNCHANGED <<hash, emerg_set, emerg_live, owned>>
  BY <1>0 DEF Set!Alloc, Set!AllocBelow, Set!Busy, Set!Goto
<1>2. Resting(call[k]) /\ hash[p] \in Set!Cells
  BY <1>1, EmergPc DEF EmergInv, EmergData, Set!Idle
<1>3. Taken(hash[p], hash[p])
  BY <1>2, DistType DEF Taken, Set!Cells
<1>4. c.pc = "probe" /\ c.ptr = p /\ c.at = hash[p] /\ c \in EmergCalls
  <2>1. "probe" \in Set!Pcs
    BY DEF Set!Pcs
  <2>2. QED
    BY <1>0, <1>2, <2>1, EmergFramed
<1>5. Probing(c)'
  BY <1>1, <1>2, <1>3, <1>4 DEF Probing, Resting, Has, AllFound, Found, Taken
<1>6. Working(c)' /\ EmergData'
  BY <1>1, <1>5, EmergSame DEF Working
<1>7. QED
  BY <1>1, <1>4, <1>6, EmergFrame

LEMMA EmergProbe ==
  ASSUME NEW k, Callers = {k}, EmergInv, Set!Probe(k)
  PROVE  EmergInv'
<1>0. PICK a, p, c :
         /\ a = call[k].at /\ p = call[k].ptr
         /\ c = IF emerg_set[a] = Empty THEN Set!Frame("store", p, a)
                ELSE Set!Frame("probe", p, Set!Next1(a))
  OBVIOUS
<1>1. call[k].pc = "probe"
      /\ call' = [call EXCEPT ![k] = c] /\ UNCHANGED <<hash, emerg_set, emerg_live, owned>>
  BY <1>0 DEF Set!Probe, Set!In, Set!Goto
<1>2. Probing(call[k])
  BY <1>1, EmergPc
<1>3. a \in Set!Cells /\ p \in Ptrs /\ hash[p] \in Set!Cells /\ Set!Next1(a) \in Set!Cells
  BY <1>0, <1>2, EmergNext DEF Probing, EmergInv, EmergData
<1>4. emerg_set[a] # Empty => Taken(hash[p], Set!Next1(a))
  BY <1>0, <1>2, <1>3, TakenNext DEF Probing
<1>5. /\ c \in EmergCalls /\ c.ptr = p
      /\ c.pc = IF emerg_set[a] = Empty THEN "store" ELSE "probe"
      /\ c.at = IF emerg_set[a] = Empty THEN a ELSE Set!Next1(a)
  <2>1. "probe" \in Set!Pcs /\ "store" \in Set!Pcs
    BY DEF Set!Pcs
  <2>2. QED
    BY <1>0, <1>3, <2>1, EmergFramed
<1>6. Probing(c)'
  BY <1>0, <1>1, <1>2, <1>3, <1>4, <1>5 DEF Probing, Has, AllFound, Found, Taken
<1>7. Working(c)' /\ EmergData'
  BY <1>1, <1>6, EmergSame DEF Working
<1>8. QED
  BY <1>1, <1>5, <1>7, EmergFrame

LEMMA EmergStore ==
  ASSUME NEW k, Callers = {k}, EmergInv, Set!Store(k)
  PROVE  EmergInv'
<1>0. PICK a, p, c : a = call[k].at /\ p = call[k].ptr /\ c = Set!Frame("count", p, emerg_live + 1)
  OBVIOUS
<1>1. call[k].pc = "store" /\ emerg_set' = [emerg_set EXCEPT ![a] = p]
      /\ call' = [call EXCEPT ![k] = c] /\ UNCHANGED <<hash, emerg_live, owned>>
  BY <1>0 DEF Set!Store, Set!In, Set!Goto
<1>2. Probing(call[k])
  BY <1>1, EmergPc
<1>3. a \in Set!Cells /\ p \in Ptrs \ owned /\ hash[p] \in Set!Cells /\ emerg_set[a] = Empty
      /\ Has(owned) /\ AllFound /\ Taken(hash[p], a)
      /\ emerg_set \in [Set!Cells -> Ptrs \cup {Empty}] /\ Empty \notin Ptrs
  BY <1>0, <1>1, <1>2, EmergSize DEF Probing, EmergInv, EmergData
<1>4. \A d \in Set!Cells : emerg_set'[d] = IF d = a THEN p ELSE emerg_set[d]
  BY <1>1, <1>3
<1>5. \A d \in Set!Cells : emerg_set[d] # p
  BY <1>3 DEF Has
<1>6. Has(owned \cup {p})'
  <2>1. ASSUME NEW q \in Ptrs PROVE q \in owned' \cup {p} <=> \E d \in Set!Cells : emerg_set'[d] = q
    <3>1. CASE q = p
      BY <1>3, <1>4, <3>1
    <3>2. CASE q # p
      BY <1>1, <1>3, <1>4, <3>2 DEF Has
    <3>3. QED
      BY <3>1, <3>2
  <2>2. QED
    BY <1>1, <2>1 DEF Has
<1>7. AllFound'
  <2>1. ASSUME NEW d \in Set!Cells, emerg_set'[d] # Empty PROVE Found(d)'
    <3>1. CASE d = a
      BY <1>1, <1>3, <1>4, <3>1, TakenFill DEF Found, Taken
    <3>2. CASE d # a
      <4>1. emerg_set'[d] = emerg_set[d] /\ emerg_set[d] \in Ptrs /\ hash[emerg_set[d]] \in Set!Cells
        BY <1>3, <1>4, <2>1, <3>2 DEF EmergInv, EmergData
      <4>2. Taken(hash[emerg_set[d]], d)
        BY <1>3, <2>1, <4>1 DEF AllFound, Found
      <4>3. \A e \in Set!Cells : Dist(hash[emerg_set[d]], e) < Dist(hash[emerg_set[d]], d) => emerg_set'[e] # Empty
        BY <1>3, <1>4, <4>2 DEF Taken
      <4>4. QED
        BY <1>1, <4>1, <4>3 DEF Found, Taken
    <3>3. QED
      BY <3>1, <3>2
  <2>2. QED
    BY <2>1 DEF AllFound
<1>8. emerg_live + 1 \in 0..SetSize /\ emerg_live + 1 <= SetSize \div 2
  BY <1>2, EmergSize DEF Probing, EmergInv, EmergData
<1>9. c.pc = "count" /\ c.ptr = p /\ c.at = emerg_live + 1 /\ c \in EmergCalls
  <2>1. "count" \in Set!Pcs
    BY DEF Set!Pcs
  <2>2. QED
    BY <1>0, <1>3, <1>8, <2>1, EmergFramed
<1>10. Counting(c)'
  BY <1>1, <1>2, <1>3, <1>6, <1>7, <1>8, <1>9 DEF Probing, Counting
<1>11. EmergData'
  <2>1. \A d, e \in Set!Cells : emerg_set'[d] = emerg_set'[e] /\ emerg_set'[d] # Empty => d = e
    BY <1>4, <1>5 DEF EmergInv, EmergData
  <2>2. emerg_set' \in [Set!Cells -> Ptrs \cup {Empty}]
    BY <1>1, <1>3
  <2>3. QED
    BY <1>1, <2>1, <2>2 DEF EmergInv, EmergData
<1>12. QED
  BY <1>1, <1>9, <1>10, <1>11, EmergFrame DEF Working

LEMMA EmergCount ==
  ASSUME NEW k, Callers = {k}, EmergInv, Set!Count(k)
  PROVE  EmergInv'
<1>0. PICK p, c : p = call[k].ptr /\ c = Set!Idle
  OBVIOUS
<1>1. /\ call[k].pc = "count" /\ emerg_live' = call[k].at /\ owned' = owned \cup {p}
      /\ call' = [call EXCEPT ![k] = c] /\ UNCHANGED <<hash, emerg_set>>
  BY <1>0 DEF Set!Count, Set!In
<1>2. Counting(call[k])
  BY <1>1, EmergPc
<1>3. p \in Ptrs \ owned /\ IsFiniteSet(owned) /\ emerg_live' = Cardinality(owned) + 1
      /\ emerg_live' <= SetSize \div 2 /\ Cardinality(owned) \in Nat
  BY <1>0, <1>1, <1>2, FS_CardinalityType DEF Counting, EmergInv, EmergData
<1>4. IsFiniteSet(owned') /\ Cardinality(owned') = Cardinality(owned) + 1
  BY <1>1, <1>3, FS_AddElement
<1>5. Resting(c)'
  BY <1>0, <1>1, <1>2, <1>3, <1>4 DEF Counting, Resting, Has, AllFound, Found, Taken, Set!Idle
<1>6. EmergData'
  BY <1>1, <1>3, <1>4, EmergSize DEF EmergInv, EmergData
<1>7. QED
  BY <1>0, <1>1, <1>5, <1>6, EmergFrame DEF Working, EmergCalls

LEMMA EmergFree ==
  ASSUME NEW k, Callers = {k}, EmergInv, NEW p \in Ptrs, Set!Free(k, p)
  PROVE  EmergInv'
<1>0. PICK c : c = Set!Frame("find", p, hash[p])
  OBVIOUS
<1>1. Resting(call[k]) /\ p \in owned /\ owned' = owned \ {p} /\ UNCHANGED <<hash, emerg_set, emerg_live>>
  BY EmergPc DEF Set!Free, Set!Idle
<1>2. /\ IsFiniteSet(owned) /\ IsFiniteSet(owned') /\ Cardinality(owned') \in Nat
      /\ Cardinality(owned) = Cardinality(owned') + 1
  <2>1. IsFiniteSet(owned)
    BY DEF EmergInv, EmergData
  <2>2. IsFiniteSet(owned') /\ Cardinality(owned') = Cardinality(owned) - 1
    BY <1>1, <2>1, FS_RemoveElement
  <2>3. Cardinality(owned) \in Nat /\ Cardinality(owned') \in Nat
    BY <2>1, <2>2, FS_CardinalityType
  <2>4. QED
    BY <2>1, <2>2, <2>3
<1>3. emerg_live # 0 /\ emerg_live = Cardinality(owned') + 1
  BY <1>1, <1>2 DEF Resting
<1>4. call' = [call EXCEPT ![k] = c]
  BY <1>0, <1>3 DEF Set!Free, Set!Goto
<1>5. hash[p] \in Set!Cells
  BY DEF EmergInv, EmergData
<1>6. c.pc = "find" /\ c.ptr = p /\ c.at = hash[p] /\ c \in EmergCalls
  <2>1. "find" \in Set!Pcs
    BY DEF Set!Pcs
  <2>2. QED
    BY <1>0, <1>5, <2>1, EmergFramed
<1>7. \E e \in Set!Cells : emerg_set[e] = p /\ Dist(hash[p], hash[p]) <= Dist(hash[p], e)
  <2>1. PICK e \in Set!Cells : emerg_set[e] = p
    BY <1>1 DEF Resting, Has
  <2>2. Dist(hash[p], hash[p]) = 0 /\ Dist(hash[p], e) \in Set!Cells
    BY <1>5, DistType
  <2>3. QED
    BY <2>1, <2>2, EmergSize
<1>8. owned' \cup {p} = owned
  BY <1>1
<1>9. Finding(c)'
  BY <1>1, <1>3, <1>5, <1>6, <1>7, <1>8 DEF Finding, Resting, Has, AllFound, Found, Taken
<1>10. EmergData'
  BY <1>1, <1>2 DEF EmergInv, EmergData
<1>11. QED
  BY <1>4, <1>6, <1>9, <1>10, EmergFrame DEF Working

LEMMA EmergFind ==
  ASSUME NEW k, Callers = {k}, EmergInv, Set!Find(k)
  PROVE  EmergInv'
<1>0. PICK a, p : a = call[k].at /\ p = call[k].ptr
  OBVIOUS
<1>1. call[k].pc = "find" /\ UNCHANGED <<hash, emerg_set, emerg_live, owned>>
  BY DEF Set!Find, Set!FindTo, Set!In
<1>2. Finding(call[k])
  BY <1>1, EmergPc
<1>3. /\ a \in Set!Cells /\ p \in Ptrs \ owned /\ hash[p] \in Set!Cells
      /\ Set!Next1(a) \in Set!Cells
      /\ Has(owned \cup {p}) /\ AllFound /\ emerg_live = Cardinality(owned) + 1
  BY <1>0, <1>2, EmergNext DEF Finding, EmergInv, EmergData
<1>4. PICK e \in Set!Cells : emerg_set[e] = p /\ Dist(hash[p], a) <= Dist(hash[p], e)
  BY <1>0, <1>2 DEF Finding
<1>5. EmergData' /\ Has(owned \cup {p})' /\ AllFound'
  BY <1>1, <1>3, EmergSame DEF Has, AllFound, Found, Taken
<1>6. CASE emerg_set[a] = p
  <2>0. PICK c : c = Set!Frame("uncount", p, a)
    OBVIOUS
  <2>1. call' = [call EXCEPT ![k] = c]
    BY <1>0, <1>6, <2>0 DEF Set!Find, Set!FindTo, Set!Goto
  <2>2. c.pc = "uncount" /\ c.ptr = p /\ c.at = a /\ c \in EmergCalls
    <3>1. "uncount" \in Set!Pcs
      BY DEF Set!Pcs
    <3>2. QED
      BY <1>3, <2>0, <3>1, EmergFramed
  <2>3. Removing(c)'
    BY <1>1, <1>3, <1>5, <1>6, <2>2 DEF Removing
  <2>4. QED
    BY <1>5, <2>1, <2>2, <2>3, EmergFrame DEF Working
<1>7. CASE emerg_set[a] # p
  <2>1. Dist(hash[p], a) # Dist(hash[p], e)
    BY <1>3, <1>4, <1>7, DistType
  <2>2. Dist(hash[p], a) \in 0..SetSize - 1 /\ Dist(hash[p], e) \in 0..SetSize - 1
    BY <1>3, <1>4, DistType, EmergSize
  <2>3. Dist(hash[p], a) < Dist(hash[p], e)
    BY <1>4, <2>1, <2>2, EmergSize
  <2>4. emerg_set[a] # Empty
    <3>1. Taken(hash[p], e)
      BY <1>3, <1>4, EmergSize DEF AllFound, Found
    <3>2. QED
      BY <1>3, <2>3, <3>1 DEF Taken
  <2>5. Set!Next1(a) # hash[p]
    BY <1>3, <2>2, <2>3, DistNext, EmergSize
  <2>6. Dist(hash[p], Set!Next1(a)) <= Dist(hash[p], e)
    BY <1>3, <2>2, <2>3, <2>5, DistNext, EmergSize
  <2>7. PICK c : c = Set!Frame("find", p, Set!Next1(a))
    OBVIOUS
  <2>8. call' = [call EXCEPT ![k] = c]
    BY <1>0, <1>7, <2>4, <2>5, <2>7 DEF Set!Find, Set!FindTo, Set!Goto
  <2>9. c.pc = "find" /\ c.ptr = p /\ c.at = Set!Next1(a) /\ c \in EmergCalls
    <3>1. "find" \in Set!Pcs
      BY DEF Set!Pcs
    <3>2. QED
      BY <1>3, <2>7, <3>1, EmergFramed
  <2>10. Finding(c)'
    BY <1>1, <1>3, <1>4, <1>5, <2>6, <2>9 DEF Finding
  <2>11. QED
    BY <1>5, <2>8, <2>9, <2>10, EmergFrame DEF Working
<1>8. QED
  BY <1>6, <1>7

LEMMA EmergUncount ==
  ASSUME NEW k, Callers = {k}, EmergInv, Set!Uncount(k)
  PROVE  EmergInv'
<1>0. PICK a, p, c : a = call[k].at /\ p = call[k].ptr /\ c = Set!Frame("hole", p, a)
  OBVIOUS
<1>1. call[k].pc = "uncount" /\ emerg_live' = emerg_live - 1
      /\ call' = [call EXCEPT ![k] = c] /\ UNCHANGED <<hash, emerg_set, owned>>
  BY <1>0 DEF Set!Uncount, Set!In, Set!Goto
<1>2. Removing(call[k])
  BY <1>1, EmergPc
<1>3. a \in Set!Cells /\ p \in Ptrs \ owned /\ emerg_set[a] = p /\ emerg_live = Cardinality(owned) + 1
  BY <1>0, <1>1, <1>2 DEF Removing
<1>4. Cardinality(owned) \in Nat
  BY FS_CardinalityType DEF EmergInv, EmergData
<1>5. c.pc = "hole" /\ c.ptr = p /\ c.at = a /\ c \in EmergCalls
  <2>1. "hole" \in Set!Pcs
    BY DEF Set!Pcs
  <2>2. QED
    BY <1>0, <1>3, <2>1, EmergFramed
<1>6. Removing(c)'
  BY <1>0, <1>1, <1>2, <1>3, <1>4, <1>5 DEF Removing, Has, AllFound, Found, Taken
<1>7. EmergData'
  BY <1>1, <1>3, <1>4, EmergSize DEF EmergInv, EmergData
<1>8. QED
  BY <1>1, <1>5, <1>6, <1>7, EmergFrame DEF Working

\* A cell is emptied: what was found is found still, or in the chain behind it.
LEMMA EmergLifted ==
  ASSUME EmergInv, NEW i \in Set!Cells, hash' = hash,
         emerg_set' = [emerg_set EXCEPT ![i] = Empty],
         FoundOrFrom(i) \/ AllFound
  PROVE  FoundOrFrom(Set!Next1(i))'
<1>1. emerg_set \in [Set!Cells -> Ptrs \cup {Empty}] /\ Set!Next1(i) \in Set!Cells
  BY EmergNext DEF EmergInv, EmergData
<1>2. ASSUME NEW c \in Set!Cells, emerg_set'[c] # Empty
      PROVE  Found(c)' \/ Taken(Set!Next1(i), c)'
  <2>1. c # i /\ emerg_set'[c] = emerg_set[c] /\ hash[emerg_set[c]] \in Set!Cells
    BY <1>1, <1>2 DEF EmergInv, EmergData
  <2>2. CASE Found(c)
    <3>1. Taken(hash[emerg_set[c]], c)' \/ Taken(Set!Next1(i), c)'
      <4>1. PICK a \in Set!Cells : a = hash[emerg_set[c]]
        BY <2>1
      <4>2. Taken(a, c)
        BY <2>2, <4>1 DEF Found
      <4>3. Taken(a, c)' \/ Taken(Set!Next1(i), c)'
        BY <1>1, <2>1, <4>2, TakenLift
      <4>4. QED
        BY <2>1, <4>1, <4>3 DEF Taken
    <3>2. QED
      BY <2>1, <3>1 DEF Found, Taken
  <2>3. CASE Taken(i, c)
    <3>1. ASSUME NEW e \in Set!Cells, Dist(Set!Next1(i), e) < Dist(Set!Next1(i), c)
          PROVE  emerg_set'[e] # Empty
      <4>1. Dist(i, i) < Dist(i, c)
        <5>1. Dist(i, i) = 0 /\ Dist(i, c) \in Set!Cells /\ Dist(i, c) # 0
          BY <2>1, DistType
        <5>2. QED
          BY <5>1, EmergSize
      <4>2. Dist(i, e) < Dist(i, c) /\ e # i
        BY <3>1, <4>1, DistThrough
      <4>3. QED
        BY <1>1, <2>3, <4>2 DEF Taken
    <3>2. QED
      BY <3>1 DEF Taken
  <2>4. QED
    BY <1>2, <2>1, <2>2, <2>3 DEF FoundOrFrom, AllFound
<1>3. QED
  BY <1>2 DEF FoundOrFrom

\* ... and nothing else is different.
LEMMA EmergEmptied ==
  ASSUME EmergInv, NEW i \in Set!Cells, emerg_set[i] # Empty, UNCHANGED <<hash, emerg_live, owned>>,
         emerg_set' = [emerg_set EXCEPT ![i] = Empty]
  PROVE  /\ EmergData'
         /\ \A q \in Ptrs : (\E c \in Set!Cells : emerg_set'[c] = q)
                               <=> (q # emerg_set[i] /\ \E c \in Set!Cells : emerg_set[c] = q)
<1>1. /\ emerg_set \in [Set!Cells -> Ptrs \cup {Empty}] /\ Empty \notin Ptrs
      /\ \A c, e \in Set!Cells : emerg_set[c] = emerg_set[e] /\ emerg_set[c] # Empty => c = e
  BY EmergSize DEF EmergInv, EmergData
<1>2. \A c \in Set!Cells : emerg_set'[c] = IF c = i THEN Empty ELSE emerg_set[c]
  BY <1>1
<1>3. EmergData'
  <2>1. emerg_set' \in [Set!Cells -> Ptrs \cup {Empty}]
    BY <1>1
  <2>2. \A c, e \in Set!Cells : emerg_set'[c] = emerg_set'[e] /\ emerg_set'[c] # Empty => c = e
    BY <1>1, <1>2
  <2>3. QED
    BY <2>1, <2>2 DEF EmergInv, EmergData
<1>4. \A q \in Ptrs : (\E c \in Set!Cells : emerg_set'[c] = q)
                         <=> (q # emerg_set[i] /\ \E c \in Set!Cells : emerg_set[c] = q)
  BY <1>1, <1>2
<1>5. QED
  BY <1>3, <1>4

LEMMA EmergHole ==
  ASSUME NEW k, Callers = {k}, EmergInv, Set!Hole(k)
  PROVE  EmergInv'
<1>0. PICK a, p, c : a = call[k].at /\ p = call[k].ptr /\ c = Set!Frame("chain", p, Set!Next1(a))
  OBVIOUS
<1>1. call[k].pc = "hole" /\ emerg_set' = [emerg_set EXCEPT ![a] = Empty]
      /\ call' = [call EXCEPT ![k] = c] /\ UNCHANGED <<hash, emerg_live, owned>>
  BY <1>0 DEF Set!Hole, Set!HoleThen, Set!In
<1>2. Removing(call[k])
  BY <1>1, EmergPc
<1>3. /\ a \in Set!Cells /\ p \in Ptrs \ owned /\ emerg_set[a] = p /\ emerg_live = Cardinality(owned) + 0
      /\ Has(owned \cup {p}) /\ AllFound /\ Set!Next1(a) \in Set!Cells
  BY <1>0, <1>1, <1>2, EmergNext DEF Removing
<1>4. Cardinality(owned) \in Nat
  BY FS_CardinalityType DEF EmergInv, EmergData
<1>5. /\ EmergData'
      /\ \A q \in Ptrs : (\E d \in Set!Cells : emerg_set'[d] = q)
                            <=> (q # p /\ \E d \in Set!Cells : emerg_set[d] = q)
  BY <1>1, <1>3, EmergSize, EmergEmptied
<1>6. Has(owned)'
  BY <1>1, <1>3, <1>5 DEF Has
<1>7. FoundOrFrom(Set!Next1(a))'
  BY <1>1, <1>3, EmergLifted
<1>8. c.pc = "chain" /\ c.ptr = p /\ c.at = Set!Next1(a) /\ c \in EmergCalls
  <2>1. "chain" \in Set!Pcs
    BY DEF Set!Pcs
  <2>2. QED
    BY <1>0, <1>3, <2>1, EmergFramed
<1>9. Chaining(c)'
  BY <1>1, <1>3, <1>4, <1>6, <1>7, <1>8 DEF Chaining
<1>10. QED
  BY <1>1, <1>5, <1>8, <1>9, EmergFrame DEF Working

LEMMA EmergLift ==
  ASSUME NEW k, Callers = {k}, EmergInv, Set!Lift(k)
  PROVE  EmergInv'
<1>0. PICK a, p, q : a = call[k].at /\ p = call[k].ptr /\ q = emerg_set[a]
  OBVIOUS
<1>1. call[k].pc = "chain" /\ UNCHANGED <<hash, emerg_live, owned>>
  BY DEF Set!Lift, Set!LiftOr, Set!In
<1>2. Chaining(call[k])
  BY <1>1, EmergPc
<1>3. /\ a \in Set!Cells /\ p \in Ptrs /\ Has(owned) /\ FoundOrFrom(a)
      /\ emerg_live = Cardinality(owned) /\ Set!Next1(a) \in Set!Cells
      /\ q \in Ptrs \cup {Empty}
  BY <1>0, <1>2, EmergNext DEF Chaining, EmergInv, EmergData
<1>4. CASE q = Empty
  <2>0. PICK c : c = Set!Idle
    OBVIOUS
  <2>1. call' = [call EXCEPT ![k] = c] /\ UNCHANGED emerg_set
    BY <1>0, <1>4, <2>0 DEF Set!Lift, Set!LiftOr
  <2>2. AllFound
    <3>1. ASSUME NEW d \in Set!Cells, emerg_set[d] # Empty, Taken(a, d) PROVE FALSE
      <4>0. d # a
        BY <1>0, <1>4, <3>1
      <4>1. Dist(a, a) = 0 /\ Dist(a, d) \in Set!Cells /\ Dist(a, d) # 0
        <5>1. Dist(a, a) = 0 /\ Dist(a, d) \in Set!Cells
          BY <1>3, DistType
        <5>2. Dist(a, a) = Dist(a, d) => a = d
          BY <1>3, DistType
        <5>3. QED
          BY <4>0, <5>1, <5>2
      <4>2. Dist(a, a) < Dist(a, d)
        BY <4>1, EmergSize
      <4>3. QED
        BY <1>0, <1>3, <1>4, <3>1, <4>2 DEF Taken
    <3>2. QED
      BY <1>3, <3>1 DEF FoundOrFrom, AllFound
  <2>3. Resting(c)'
    BY <1>1, <1>3, <2>0, <2>1, <2>2 DEF Resting, Has, AllFound, Found, Taken, Set!Idle
  <2>4. EmergData'
    BY <1>1, <2>1, EmergSame
  <2>5. QED
    BY <2>0, <2>1, <2>3, <2>4, EmergFrame DEF Working, EmergCalls
<1>5. CASE q # Empty
  <2>0. PICK c : c = [pc |-> "place", ptr |-> p, at |-> a, lifted |-> q, to |-> hash[q]]
    OBVIOUS
  <2>1. call' = [call EXCEPT ![k] = c] /\ emerg_set' = [emerg_set EXCEPT ![a] = Empty]
    BY <1>0, <1>5, <2>0 DEF Set!Lift, Set!LiftOr
  <2>2. q \in owned /\ q \in Ptrs /\ hash[q] \in Set!Cells
    BY <1>0, <1>3, <1>5 DEF Has, EmergInv, EmergData
  <2>3. /\ EmergData'
        /\ \A r \in Ptrs : (\E d \in Set!Cells : emerg_set'[d] = r)
                              <=> (r # q /\ \E d \in Set!Cells : emerg_set[d] = r)
    BY <1>0, <1>1, <1>3, <1>5, <2>1, EmergEmptied
  <2>4. Has(owned \ {q})'
    BY <1>1, <1>3, <2>3 DEF Has
  <2>5. FoundOrFrom(Set!Next1(a))'
    BY <1>1, <1>3, <2>1, EmergLifted
  <2>6. Taken(hash[q], hash[q])'
    <3>1. ASSUME NEW e \in Set!Cells PROVE ~(Dist(hash[q], e) < Dist(hash[q], hash[q]))
      <4>1. Dist(hash[q], hash[q]) = 0 /\ Dist(hash[q], e) \in Set!Cells
        BY <2>2, DistType
      <4>2. QED
        BY <4>1, EmergSize
    <3>2. QED
      BY <1>1, <3>1 DEF Taken
  <2>7. /\ c.pc = "place" /\ c.ptr = p /\ c.at = a /\ c.lifted = q /\ c.to = hash[q]
        /\ c \in EmergCalls
    BY <1>3, <2>0, <2>2 DEF EmergCalls
  <2>8. Placing(c)'
    BY <1>1, <1>3, <2>2, <2>4, <2>5, <2>6, <2>7 DEF Placing
  <2>9. QED
    BY <2>1, <2>3, <2>7, <2>8, EmergFrame DEF Working
<1>6. QED
  BY <1>4, <1>5

LEMMA EmergPlace ==
  ASSUME NEW k, Callers = {k}, EmergInv, Set!Place(k)
  PROVE  EmergInv'
<1>0. PICK a, p, q, b : a = call[k].at /\ p = call[k].ptr /\ q = call[k].lifted /\ b = call[k].to
  OBVIOUS
<1>1. call[k].pc = "place" /\ UNCHANGED <<hash, emerg_live, owned>>
  BY DEF Set!Place, Set!PlaceIf, Set!In
<1>2. Placing(call[k])
  BY <1>1, EmergPc
<1>3. /\ a \in Set!Cells /\ b \in Set!Cells /\ p \in Ptrs /\ q \in owned /\ q \in Ptrs
      /\ hash[q] \in Set!Cells /\ Set!Next1(a) \in Set!Cells /\ Set!Next1(b) \in Set!Cells
      /\ Has(owned \ {q}) /\ FoundOrFrom(Set!Next1(a)) /\ Taken(hash[q], b)
      /\ emerg_live = Cardinality(owned)
  BY <1>0, <1>2, EmergNext DEF Placing, EmergInv, EmergData
<1>4. CASE emerg_set[b] = Empty
  <2>0. PICK c : c = Set!Frame("chain", p, Set!Next1(a))
    OBVIOUS
  <2>1. call' = [call EXCEPT ![k] = c] /\ emerg_set' = [emerg_set EXCEPT ![b] = q]
    BY <1>0, <1>4, <2>0 DEF Set!Place, Set!PlaceIf, Set!Goto
  <2>2. /\ emerg_set \in [Set!Cells -> Ptrs \cup {Empty}] /\ Empty \notin Ptrs
        /\ \A d, e \in Set!Cells : emerg_set[d] = emerg_set[e] /\ emerg_set[d] # Empty => d = e
    BY EmergSize DEF EmergInv, EmergData
  <2>3. \A d \in Set!Cells : emerg_set'[d] = IF d = b THEN q ELSE emerg_set[d]
    BY <1>3, <2>1, <2>2
  <2>4. \A d \in Set!Cells : emerg_set[d] # q
    BY <1>3 DEF Has
  <2>5. EmergData'
    <3>1. emerg_set' \in [Set!Cells -> Ptrs \cup {Empty}]
      BY <1>3, <2>1, <2>2
    <3>2. \A d, e \in Set!Cells : emerg_set'[d] = emerg_set'[e] /\ emerg_set'[d] # Empty => d = e
      BY <2>2, <2>3, <2>4
    <3>3. QED
      BY <1>1, <3>1, <3>2 DEF EmergInv, EmergData
  <2>6. Has(owned)'
    <3>1. ASSUME NEW r \in Ptrs PROVE r \in owned' <=> \E d \in Set!Cells : emerg_set'[d] = r
      <4>1. CASE r = q
        BY <1>1, <1>3, <2>3, <4>1
      <4>2. CASE r # q
        BY <1>1, <1>3, <1>4, <2>2, <2>3, <4>2 DEF Has
      <4>3. QED
        BY <4>1, <4>2
    <3>2. QED
      BY <3>1 DEF Has
  <2>7. FoundOrFrom(Set!Next1(a))'
    <3>1. ASSUME NEW d \in Set!Cells, emerg_set'[d] # Empty
          PROVE  Found(d)' \/ Taken(Set!Next1(a), d)'
      <4>1. CASE d = b
        <5>1. \A e \in Set!Cells : Dist(hash[q], e) < Dist(hash[q], b) => emerg_set'[e] # Empty
          BY <1>3, <2>2, <2>3 DEF Taken
        <5>2. QED
          BY <1>1, <2>3, <4>1, <5>1 DEF Found, Taken
      <4>2. CASE d # b
        <5>1. emerg_set'[d] = emerg_set[d] /\ emerg_set[d] # Empty
          BY <2>3, <3>1, <4>2
        <5>2. CASE Found(d)
          BY <1>1, <1>3, <2>2, <2>3, <5>1, <5>2 DEF Found, Taken
        <5>3. CASE Taken(Set!Next1(a), d)
          BY <1>3, <2>2, <2>3, <5>3 DEF Taken
        <5>4. QED
          BY <1>3, <5>1, <5>2, <5>3 DEF FoundOrFrom
      <4>3. QED
        BY <4>1, <4>2
    <3>2. QED
      BY <3>1 DEF FoundOrFrom
  <2>8. c.pc = "chain" /\ c.ptr = p /\ c.at = Set!Next1(a) /\ c \in EmergCalls
    <3>1. "chain" \in Set!Pcs
      BY DEF Set!Pcs
    <3>2. QED
      BY <1>3, <2>0, <3>1, EmergFramed
  <2>9. Chaining(c)'
    BY <1>1, <1>3, <2>6, <2>7, <2>8 DEF Chaining
  <2>10. QED
    BY <2>1, <2>5, <2>8, <2>9, EmergFrame DEF Working
<1>5. CASE emerg_set[b] # Empty
  <2>0. PICK c : c = [call[k] EXCEPT !.to = Set!Next1(b)]
    OBVIOUS
  <2>1. call' = [call EXCEPT ![k] = c] /\ UNCHANGED emerg_set
    BY <1>0, <1>5, <2>0 DEF Set!Place, Set!PlaceIf, EmergInv
  <2>2. call[k] \in [pc : {"place"}, ptr : Ptrs, at : Set!Cells, lifted : Ptrs, to : Set!Cells]
    BY <1>1 DEF EmergInv, EmergCalls, Set!Idle, Set!Pcs
  <2>3. /\ c.pc = "place" /\ c.ptr = p /\ c.at = a /\ c.lifted = q /\ c.to = Set!Next1(b)
        /\ c \in EmergCalls
    BY <1>0, <1>3, <2>0, <2>2 DEF EmergCalls
  <2>4. Taken(hash[q], Set!Next1(b))
    BY <1>3, <1>5, TakenNext
  <2>5. Placing(c)'
    BY <1>1, <1>3, <2>1, <2>3, <2>4 DEF Placing, Has, FoundOrFrom, Found, Taken
  <2>6. EmergData'
    BY <1>1, <2>1, EmergSame
  <2>7. QED
    BY <2>1, <2>3, <2>5, <2>6, EmergFrame DEF Working
<1>6. QED
  BY <1>4, <1>5

LEMMA EmergCard == \A S : Set!Cardinality(S) = Cardinality(S)
  BY DEF Set!Cardinality, Cardinality

LEMMA EmergInit ==
  ASSUME NEW k, Callers = {k}, Set!Init
  PROVE  EmergInv
<1>1. /\ hash \in [Ptrs -> Set!Cells] /\ emerg_set = [i \in Set!Cells |-> Empty]
      /\ emerg_live = 0 /\ owned = {} /\ call = [t \in Callers |-> Set!Idle]
  BY DEF Set!Init
<1>2. IsFiniteSet(owned) /\ Cardinality(owned) = 0
  BY <1>1, FS_EmptySet
<1>3. \A c \in Set!Cells : emerg_set[c] = Empty
  BY <1>1
<1>4. EmergData
  <2>1. emerg_set \in [Set!Cells -> Ptrs \cup {Empty}] /\ owned \subseteq Ptrs
    BY <1>1
  <2>2. emerg_live \in 0..SetSize \div 2
    BY <1>1, EmergSize
  <2>3. QED
    BY <1>1, <1>2, <1>3, <2>1, <2>2 DEF EmergData
<1>5. Has(owned) /\ AllFound
  BY <1>1, <1>3, EmergSize DEF Has, AllFound
<1>6. \A t \in Callers : call[t] = Set!Idle
  BY <1>1
<1>7. \A t \in Callers : call[t] \in EmergCalls /\ Working(call[t])
  BY <1>1, <1>2, <1>5, <1>6 DEF EmergCalls, Working, Resting
<1>8. call = [t \in Callers |-> call[t]]
  BY <1>1
<1>9. QED
  BY <1>4, <1>7, <1>8 DEF EmergInv

LEMMA EmergStep ==
  ASSUME NEW k, Callers = {k}, EmergInv, [Set!Next]_(Set!vars)
  PROVE  EmergInv'
<1>1. CASE UNCHANGED Set!vars
  <2>1. UNCHANGED <<hash, emerg_set, emerg_live, owned, call>>
    BY <1>1 DEF Set!vars
  <2>2. EmergData'
    BY <2>1, EmergSame
  <2>3. \A t \in Callers : Working(call[t])'
    BY <2>1 DEF EmergInv, Working, Resting, Probing, Counting, Finding, Removing, Chaining, Placing,
                Has, AllFound, FoundOrFrom, Found, Taken
  <2>4. EmergCalls' = EmergCalls
    BY DEF EmergCalls
  <2>5. QED
    BY <2>1, <2>2, <2>3, <2>4 DEF EmergInv
<1>2. CASE Set!Next
  <2>1. Set!Work(k) \/ \E p \in Ptrs : Set!Alloc(k, p) \/ Set!Free(k, p)
    BY <1>2 DEF Set!Next
  <2>2. CASE Set!Work(k)
    BY <2>2, EmergProbe, EmergStore, EmergCount, EmergFind, EmergUncount, EmergHole, EmergLift,
       EmergPlace DEF Set!Work
  <2>3. CASE \E p \in Ptrs : Set!Alloc(k, p) \/ Set!Free(k, p)
    BY <2>3, EmergAlloc, EmergFree
  <2>4. QED
    BY <2>1, <2>2, <2>3
<1>3. QED
  BY <1>1, <1>2

\* Steps from a cell on, and the cell they lead to.
LEMMA DistRound ==
  ASSUME NEW a \in Set!Cells, NEW c \in Set!Cells
  PROVE  /\ (a + c) % SetSize \in Set!Cells /\ Dist(a, (a + c) % SetSize) = c
         /\ (a + Dist(a, c)) % SetSize = c
<1>1. SetSize \in Nat \ {0} /\ Set!Cells = 0..SetSize - 1
  BY EmergSize
<1>2. \A e \in 0..2 * SetSize - 1 : e % SetSize = IF e < SetSize THEN e ELSE e - SetSize
  BY <1>1, Remainder
<1>3. Dist(a, c) \in Set!Cells
  BY DistType
<1>4. (a + c) % SetSize = IF a + c < SetSize THEN a + c ELSE a + c - SetSize
  <2>1. PICK e \in 0..2 * SetSize - 1 : e = a + c
    BY <1>1
  <2>2. e % SetSize = IF e < SetSize THEN e ELSE e - SetSize
    BY <1>2
  <2>3. QED
    BY <1>1, <1>3, <2>1, <2>2
<1>5. (a + Dist(a, c)) % SetSize
         = IF a + Dist(a, c) < SetSize THEN a + Dist(a, c) ELSE a + Dist(a, c) - SetSize
  <2>1. PICK e \in 0..2 * SetSize - 1 : e = a + Dist(a, c)
    BY <1>1, <1>3
  <2>2. e % SetSize = IF e < SetSize THEN e ELSE e - SetSize
    BY <1>2
  <2>3. QED
    BY <1>1, <1>3, <2>1, <2>2
<1>6. (a + c) % SetSize \in Set!Cells /\ Dist(a, (a + c) % SetSize) = c
  BY <1>1, <1>4 DEF Dist
<1>7. (a + Dist(a, c)) % SetSize = c
  BY <1>1, <1>5 DEF Dist
<1>8. QED
  BY <1>6, <1>7

LEMMA EmergReach ==
  ASSUME EmergInv, Has(owned), AllFound, NEW p \in owned
  PROVE  Set!Reachable(p)
<1>1. p \in Ptrs /\ hash[p] \in Set!Cells
  BY DEF EmergInv, EmergData
<1>2. PICK c \in Set!Cells : emerg_set[c] = p
  BY <1>1 DEF Has
<1>3. Taken(hash[p], c)
  BY <1>1, <1>2, EmergSize DEF AllFound, Found
<1>4. PICK d \in Set!Cells : d = Dist(hash[p], c)
  BY <1>1, DistType
<1>5. (hash[p] + d) % SetSize = c
  BY <1>1, <1>4, DistRound
<1>6. ASSUME NEW m \in 0..d - 1 PROVE emerg_set[(hash[p] + m) % SetSize] # Empty
  <2>1. m \in Set!Cells /\ m < d
    BY <1>4, EmergSize
  <2>2. PICK e \in Set!Cells : e = (hash[p] + m) % SetSize /\ Dist(hash[p], e) = m
    BY <1>1, <2>1, DistRound
  <2>3. QED
    BY <1>3, <1>4, <2>1, <2>2 DEF Taken
<1>7. QED
  BY <1>2, <1>5, <1>6 DEF Set!Reachable

\* As many cells are taken as pointers are there.
LEMMA EmergTaken ==
  ASSUME EmergInv, Has(owned)
  PROVE  Cardinality({i \in Set!Cells : emerg_set[i] # Empty}) = Cardinality(owned)
<1> DEFINE Full == {i \in Set!Cells : emerg_set[i] # Empty}
           At == [i \in Full |-> emerg_set[i]]
<1>1. /\ emerg_set \in [Set!Cells -> Ptrs \cup {Empty}] /\ Empty \notin Ptrs /\ owned \subseteq Ptrs
      /\ \A c, e \in Set!Cells : emerg_set[c] = emerg_set[e] /\ emerg_set[c] # Empty => c = e
      /\ IsFiniteSet(owned)
  BY EmergSize DEF EmergInv, EmergData
<1>2. \A i \in Full : At[i] \in owned
  BY <1>1 DEF Has
<1>3. \A q \in owned : \E i \in Full : At[i] = q
  BY <1>1 DEF Has
<1>4. At \in Bijection(Full, owned)
  <2>1. At \in [Full -> owned]
    BY <1>2
  <2>2. \A i, j \in Full : At[i] = At[j] => i = j
    BY <1>1
  <2>3. At \in Injection(Full, owned)
    BY <2>1, <2>2, Zenon DEF Injection, IsInjective
  <2>4. At \in Surjection(Full, owned)
    BY <1>3, <2>1, Zenon DEF Surjection
  <2>5. QED
    BY <2>3, <2>4, Zenon DEF Bijection
<1>5. Full \subseteq Set!Cells /\ IsFiniteSet(Set!Cells)
  BY EmergSize, FS_Interval
<1>6. IsFiniteSet(Full)
  BY <1>5, FS_Subset
<1>7. ExistsBijection(Full, owned)
  BY <1>4, Zenon DEF ExistsBijection
<1>8. QED
  BY <1>6, <1>7, FS_Bijection

LEMMA EmergIs ==
  ASSUME NEW k, Callers = {k}, EmergInv
  PROVE  EmergencyKnown
<1>1. Set!TypeOK
  BY DEF EmergInv, EmergData, EmergCalls, Set!TypeOK
<1>2. Set!TellsApart
  BY EmergPc DEF Set!TellsApart, Set!In
<1>3. Set!Findable
  <2>1. SUFFICES ASSUME \A t \in Callers : call[t] = Set!Idle
        PROVE  /\ \A p \in owned : Set!Reachable(p)
               /\ Cardinality(owned) = emerg_live
               /\ Cardinality({i \in Set!Cells : emerg_set[i] # Empty}) = emerg_live
    BY EmergCard DEF Set!Findable
  <2>2. Resting(call[k])
    BY <2>1, EmergPc DEF Set!Idle
  <2>3. QED
    BY <2>2, EmergReach, EmergTaken DEF Resting
<1>4. QED
  BY <1>1, <1>2, <1>3 DEF EmergencyKnown

\* The emergency set has types, never hands a pointer of its own to newlib, and
\* at rest finds every pointer the game has, counts them and takes no other cell
\* (default_dynlib.c:365-388): for any number of cells, pointers and collisions.
\* This is a lemma and no theorem of the program: it is for one caller, and the
\* code takes no lock here though every thread of the engine allocates.
LEMMA EmergencyOfOneCaller ==
  ASSUME NEW k, Callers = {k}
  PROVE  AllSpec => []EmergencyKnown
<1>1. AllInit => EmergInv
  BY EmergInit DEF AllInit
<1>2. EmergInv /\ [AllNext]_allVars => EmergInv'
  BY Parts, EmergStep
<1>3. EmergInv => EmergencyKnown
  BY EmergIs
<1>4. QED
  BY <1>1, <1>2, <1>3, PTL DEF AllSpec

----------------------------------------------------------------------------
(* Render's account, for one caller.  What is asked for is owed to the     *)
(* account from the moment the engine has the block, and what is given     *)
(* back is taken off before.                                               *)

AcctCall(c) ==
    /\ c.pc \in Acct!Pcs /\ (c.pc = "idle" => c = Acct!Idle)
    /\ c.pc # "idle" => c.blk \in Blocks
    /\ acct_depth = IF c.pc \in {"orig5", "leave", "left"} \/ (c.pc = "alloc2" /\ c.then = "leave") THEN 1 ELSE 0
    /\ c.pc = "enter" => c.got = 0
    /\ c.pc = "left" => c.got = 1
    /\ c.pc \in {"enter", "orig5", "alloc2"} => c.blk \notin live
    /\ c.pc = "alloc2" => c.then \in {"idle", "leave"} /\ (c.counts <=> c.then = "idle")
    /\ c.pc \in {"read", "write"} => c.then \in {"idle", "free"} /\ c.blk \in Render
    /\ c.pc \in {"read", "write", "free"} => c.blk \in live
    /\ c.pc = "write" => c.got = render_live /\ known
    /\ c.pc = "free" \/ (c.pc \in {"read", "write"} /\ c.then = "free") => frees < MaxFrees

\* The block is not on the account yet, or no more.
Owed(c) ==
    /\ c.pc \in {"leave", "left", "read", "write"} /\ c.blk \in live \cap Render
    /\ c.pc \in {"read", "write"} => c.then = "idle"
Paid(c) == c.pc = "free" /\ c.blk \in Render

Due(c) == IF Owed(c) THEN Size[c.blk] ELSE 0
Off(c, f) == IF Paid(c) THEN f[c.blk] ELSE 0

AcctNumbers(c) ==
    /\ render_live + Due(c) <= Acct!Bytes(live) - Off(c, Size)
    /\ render_live + Due(c) >= Acct!Bytes(live) - Off(c, Usable) - drift
    /\ Acct!Bytes(live) <= most /\ render_peak <= most
    /\ most - drift <= render_peak \/ (Owed(c) /\ most = Acct!Bytes(live))
    /\ \A b \in live \cap Render : known \/ (Owed(c) /\ b = c.blk)

AcctTypes ==
    /\ acctCall = [t \in Callers |-> acctCall[t]]
    /\ render_live \in Nat /\ render_peak \in Nat /\ known \in BOOLEAN
    /\ live \subseteq Blocks /\ most \in Nat /\ drift \in Nat /\ frees \in 0..MaxFrees
    /\ IsFiniteSet(Acct!Cells(live))

AcctInv == AcctTypes /\ \A t \in Callers : AcctCall(acctCall[t]) /\ AcctNumbers(acctCall[t])

\* What a block adds to the bytes of a set.
LEMMA AcctMore ==
  ASSUME NEW S, NEW b \in Blocks, b \notin S, IsFiniteSet(Acct!Cells(S))
  PROVE  /\ IsFiniteSet(Acct!Cells(S \cup {b}))
         /\ Acct!Bytes(S \cup {b}) = Acct!Bytes(S) + (IF b \in Render THEN Size[b] ELSE 0)
         /\ Acct!Bytes(S) \in Nat
<1>1. PICK old, new : old = Acct!Cells(S) /\ new = {b} \X (1..Size[b])
  OBVIOUS
<1>2. \A T : Acct!Bytes(T) = Cardinality(Acct!Cells(T))
  BY DEF Acct!Bytes, Acct!Cardinality, Cardinality
<1>3. IsFiniteSet(old) /\ Cardinality(old) \in Nat
  BY <1>1, FS_CardinalityType
<1>4. Size[b] \in Nat
  BY AcctAssumption DEF Acct!AcctAssumption
<1>5. IsFiniteSet(new) /\ Cardinality(new) = Size[b]
  <2>1. IsFiniteSet({b}) /\ Cardinality({b}) = 1
    BY FS_Singleton
  <2>2. IsFiniteSet(1..Size[b]) /\ Cardinality(1..Size[b]) = Size[b]
    BY <1>4, FS_Interval
  <2>3. IsFiniteSet(new) /\ Cardinality(new) = Cardinality({b}) * Cardinality(1..Size[b])
    BY <1>1, <2>1, <2>2, FS_Product
  <2>4. QED
    BY <1>4, <2>1, <2>2, <2>3
<1>6. CASE b \in Render
  <2>1. Acct!Cells(S \cup {b}) = old \cup new
    BY <1>1, <1>6 DEF Acct!Cells
  <2>2. old \cap new = {}
    BY <1>1 DEF Acct!Cells
  <2>3. IsFiniteSet(old \cup new) /\ Cardinality(old \cup new) = Cardinality(old) + Cardinality(new) - Cardinality(old \cap new)
    BY <1>3, <1>5, FS_Union
  <2>4. Cardinality(old \cap new) = 0
    BY <2>2, FS_EmptySet
  <2>5. Cardinality(old \cup new) = Cardinality(old) + Size[b]
    BY <1>3, <1>4, <1>5, <2>3, <2>4
  <2>6. Acct!Bytes(S \cup {b}) = Acct!Bytes(S) + Size[b]
    BY <1>1, <1>2, <2>1, <2>5
  <2>7. IsFiniteSet(Acct!Cells(S \cup {b})) /\ Acct!Bytes(S) \in Nat
    BY <1>1, <1>2, <1>3, <2>1, <2>3
  <2>8. QED
    BY <1>6, <2>6, <2>7
<1>7. CASE b \notin Render
  <2>1. Acct!Cells(S \cup {b}) = old
    BY <1>1, <1>7 DEF Acct!Cells
  <2>2. QED
    BY <1>1, <1>2, <1>3, <1>7, <2>1
<1>8. QED
  BY <1>6, <1>7

LEMMA AcctLess ==
  ASSUME NEW S, NEW b \in Blocks, b \in S, IsFiniteSet(Acct!Cells(S))
  PROVE  /\ IsFiniteSet(Acct!Cells(S \ {b}))
         /\ Acct!Bytes(S \ {b}) = Acct!Bytes(S) - (IF b \in Render THEN Size[b] ELSE 0)
         /\ Acct!Bytes(S \ {b}) \in Nat
<1>1. PICK T : T = S \ {b}
  OBVIOUS
<1>2. T \cup {b} = S /\ b \notin T
  BY <1>1
<1>3. IsFiniteSet(Acct!Cells(T))
  <2>1. Acct!Cells(T) \in SUBSET Acct!Cells(S)
    BY <1>1 DEF Acct!Cells
  <2>2. QED
    BY <2>1, FS_Subset
<1>4. Acct!Bytes(S) = Acct!Bytes(T) + (IF b \in Render THEN Size[b] ELSE 0) /\ Acct!Bytes(T) \in Nat
  BY <1>2, <1>3, AcctMore
<1>5. Size[b] \in Nat
  BY AcctAssumption DEF Acct!AcctAssumption
<1>6. QED
  BY <1>1, <1>3, <1>4, <1>5

LEMMA AcctInit == Acct!Init => AcctInv
<1>1. SUFFICES ASSUME Acct!Init PROVE AcctInv
  OBVIOUS
<1>2. Acct!Cells(live) = {}
  BY <1>1 DEF Acct!Init, Acct!Cells
<1>3. IsFiniteSet(Acct!Cells(live)) /\ Acct!Bytes(live) = 0
  BY <1>2, FS_EmptySet DEF Acct!Bytes, Acct!Cardinality, Cardinality
<1>4. MaxFrees \in Nat
  BY AcctAssumption DEF Acct!AcctAssumption
<1>5. AcctTypes
  <2>1. acctCall = [t \in Callers |-> acctCall[t]]
    BY <1>1 DEF Acct!Init
  <2>2. known \in BOOLEAN /\ live \subseteq Blocks
    BY <1>1 DEF Acct!Init
  <2>3. render_live \in Nat /\ render_peak \in Nat /\ most \in Nat /\ drift \in Nat /\ frees \in 0..MaxFrees
    BY <1>1, <1>4 DEF Acct!Init
  <2>4. QED
    BY <1>3, <2>1, <2>2, <2>3 DEF AcctTypes
<1>6. ASSUME NEW t \in Callers PROVE AcctCall(acctCall[t]) /\ AcctNumbers(acctCall[t])
  <2>1. PICK c : c = acctCall[t]
    OBVIOUS
  <2>2. c = Acct!Idle /\ c.pc = "idle"
    BY <1>1, <2>1 DEF Acct!Init, Acct!Idle
  <2>3. AcctCall(c)
    BY <1>1, <2>2 DEF AcctCall, Acct!Pcs, Acct!Init
  <2>4. ~Owed(c) /\ ~Paid(c)
    BY <2>2 DEF Owed, Paid
  <2>5. Due(c) = 0 /\ Off(c, Size) = 0 /\ Off(c, Usable) = 0
    BY <2>4 DEF Due, Off
  <2>6. /\ render_live = 0 /\ render_peak = 0 /\ most = 0 /\ drift = 0 /\ live = {}
    BY <1>1 DEF Acct!Init
  <2>7. AcctNumbers(c)
    BY <1>3, <2>5, <2>6 DEF AcctNumbers
  <2>8. QED
    BY <2>1, <2>3, <2>7
<1>7. QED
  BY <1>5, <1>6 DEF AcctInv

\* The one caller's step: it is enough to look at its call.
LEMMA AcctGoes ==
  ASSUME AcctInv, NEW t, Callers = {t}, NEW d, acctCall' = [acctCall EXCEPT ![t] = d],
         render_live' \in Nat, render_peak' \in Nat, known' \in BOOLEAN,
         live' \subseteq Blocks, most' \in Nat, drift' \in Nat, frees' \in 0..MaxFrees,
         IsFiniteSet(Acct!Cells(live')),
         AcctCall(d)', AcctNumbers(d)'
  PROVE  AcctInv'
<1>1. acctCall' = [u \in Callers |-> acctCall'[u]] /\ acctCall'[t] = d
  BY DEF AcctInv, AcctTypes
<1>2. AcctTypes'
  BY <1>1 DEF AcctTypes, Acct!Cells
<1>3. \A u \in Callers : AcctCall(acctCall[u])' /\ AcctNumbers(acctCall[u])'
  BY <1>1
<1>4. QED
  BY <1>2, <1>3 DEF AcctInv

\* The steps that leave the account and the blocks alone.
LEMMA AcctAside ==
  ASSUME AcctInv, NEW t, Callers = {t}, NEW c, NEW d, c = acctCall[t],
         acctCall' = [acctCall EXCEPT ![t] = d],
         UNCHANGED <<render_live, render_peak, live, most, drift, frees>>,
         known' \in BOOLEAN, known => known',
         AcctCall(d)',
         Owed(c) <=> Owed(d), Paid(c) <=> Paid(d), Owed(c) \/ Paid(c) => d.blk = c.blk
  PROVE  AcctInv'
<1>1. AcctTypes /\ AcctNumbers(c)
  BY DEF AcctInv
<1>2. (Owed(d)' <=> Owed(c)) /\ (Paid(d)' <=> Paid(c)) /\ Acct!Bytes(live)' = Acct!Bytes(live)
  BY DEF Owed, Paid
<1>3. Due(d)' = Due(c) /\ Off(d, Size)' = Off(c, Size) /\ Off(d, Usable)' = Off(c, Usable)
  BY <1>2 DEF Due, Off, Owed, Paid
<1>4. AcctNumbers(d)'
  BY <1>1, <1>2, <1>3 DEF AcctNumbers, Owed, Paid
<1>5. QED
  BY <1>1, <1>4, AcctGoes DEF AcctTypes

LEMMA AcctEnters ==
  ASSUME AcctInv, NEW t, Callers = {t}, NEW b \in Blocks,
         Acct!CatAlloc5(t, b) \/ Acct!CatAlloc2(t, b)
  PROVE  AcctInv'
<1>1. PICK c, d : c = acctCall[t] /\ d = acctCall'[t]
  OBVIOUS
<1>2. c.pc = "idle" /\ b \notin live /\ acct_depth = 0
  BY <1>1 DEF AcctInv, AcctCall, Acct!CatAlloc5, Acct!CatAlloc2, Acct!Busy, Acct!Idle
<1>3. /\ UNCHANGED <<acct_depth, render_live, render_peak, known, live, most, drift, frees>>
      /\ \/ acctCall' = [acctCall EXCEPT ![t] = [pc |-> "enter", blk |-> b, got |-> 0]]
         \/ acctCall' = [acctCall EXCEPT ![t] = [pc |-> "alloc2", blk |-> b, then |-> "idle", counts |-> TRUE]]
  BY <1>2 DEF Acct!CatAlloc5, Acct!CatAlloc2, Acct!GoAlloc2, Acct!Goto, Acct!Counts, Acct!account, Acct!history
<1>4. /\ acctCall' = [acctCall EXCEPT ![t] = d]
      /\ \/ d = [pc |-> "enter", blk |-> b, got |-> 0]
         \/ d = [pc |-> "alloc2", blk |-> b, then |-> "idle", counts |-> TRUE]
  BY <1>1, <1>3 DEF AcctInv, AcctTypes
<1>5. d.pc \in {"enter", "alloc2"}
  BY <1>4
<1>6. ~Owed(c) /\ ~Paid(c) /\ ~Owed(d) /\ ~Paid(d)
  BY <1>2, <1>5 DEF Owed, Paid
<1>7. AcctCall(d)'
  BY <1>2, <1>3, <1>4 DEF AcctCall, Acct!Pcs
<1>8. QED
  BY <1>1, <1>3, <1>4, <1>6, <1>7, AcctAside DEF AcctInv, AcctTypes

LEMMA AcctDepth ==
  ASSUME AcctInv, NEW t, Callers = {t}, Acct!Enter(t) \/ Acct!Through(t) \/ Acct!Leave(t)
  PROVE  AcctInv'
<1>1. PICK c, d : c = acctCall[t] /\ d = acctCall'[t]
  OBVIOUS
<1>2. AcctCall(c) /\ acctCall = [u \in Callers |-> acctCall[u]] /\ known \in BOOLEAN
  BY <1>1 DEF AcctInv, AcctTypes
<1>3. CASE Acct!Enter(t)
  <2>1. /\ c.pc = "enter" /\ acct_depth' = c.got + 1
        /\ acctCall' = [acctCall EXCEPT ![t] = [pc |-> "orig5", blk |-> c.blk]]
        /\ UNCHANGED <<render_live, render_peak, known, live, most, drift, frees>>
    BY <1>1, <1>3 DEF Acct!Enter, Acct!In, Acct!Goto, Acct!account, Acct!history
  <2>2. acctCall' = [acctCall EXCEPT ![t] = d] /\ d = [pc |-> "orig5", blk |-> c.blk]
    BY <1>1, <1>2, <2>1
  <2>3. AcctCall(d)'
    BY <1>2, <2>1, <2>2 DEF AcctCall, Acct!Pcs
  <2>4. ~Owed(c) /\ ~Paid(c) /\ ~Owed(d) /\ ~Paid(d)
    BY <2>1, <2>2 DEF Owed, Paid
  <2>5. QED
    BY <1>1, <1>2, <2>1, <2>2, <2>3, <2>4, AcctAside
<1>4. CASE Acct!Through(t)
  <2>1. /\ c.pc = "orig5"
        /\ acctCall' = [acctCall EXCEPT ![t] =
               [pc |-> "alloc2", blk |-> c.blk, then |-> "leave", counts |-> (acct_depth = 0)]]
        /\ UNCHANGED <<acct_depth, render_live, render_peak, known, live, most, drift, frees>>
    BY <1>1, <1>4 DEF Acct!Through, Acct!In, Acct!GoAlloc2, Acct!Goto, Acct!Counts, Acct!account, Acct!history
  <2>2. /\ acctCall' = [acctCall EXCEPT ![t] = d]
        /\ d = [pc |-> "alloc2", blk |-> c.blk, then |-> "leave", counts |-> (acct_depth = 0)]
    BY <1>1, <1>2, <2>1
  <2>3. acct_depth = 1
    BY <1>2, <2>1 DEF AcctCall
  <2>4. d.pc = "alloc2" /\ d.blk = c.blk /\ d.then = "leave" /\ ~d.counts
    <3>1. d.pc = "alloc2" /\ d.blk = c.blk /\ d.then = "leave" /\ d.counts = (acct_depth = 0)
      BY <2>2, Zenon
    <3>2. acct_depth # 0
      BY <2>3
    <3>3. QED
      BY <3>1, <3>2, Zenon
  <2>5. AcctCall(d)'
    BY <1>2, <2>1, <2>3, <2>4 DEF AcctCall, Acct!Pcs
  <2>6. ~Owed(c) /\ ~Paid(c) /\ ~Owed(d) /\ ~Paid(d)
    BY <2>1, <2>4 DEF Owed, Paid
  <2>7. QED
    BY <1>1, <1>2, <2>1, <2>2, <2>5, <2>6, AcctAside
<1>5. CASE Acct!Leave(t)
  <2>1. /\ c.pc = "leave"
        /\ acctCall' = [acctCall EXCEPT ![t] = [pc |-> "left", blk |-> c.blk, got |-> acct_depth]]
        /\ UNCHANGED <<acct_depth, render_live, render_peak, known, live, most, drift, frees>>
    BY <1>1, <1>5 DEF Acct!Leave, Acct!In, Acct!Goto, Acct!account, Acct!history
  <2>2. acctCall' = [acctCall EXCEPT ![t] = d] /\ d = [pc |-> "left", blk |-> c.blk, got |-> acct_depth]
    BY <1>1, <1>2, <2>1
  <2>3. AcctCall(d)'
    BY <1>2, <2>1, <2>2 DEF AcctCall, Acct!Pcs
  <2>4. (Owed(c) <=> Owed(d)) /\ ~Paid(c) /\ ~Paid(d) /\ d.blk = c.blk
    BY <2>1, <2>2 DEF Owed, Paid
  <2>5. QED
    BY <1>1, <1>2, <2>1, <2>2, <2>3, <2>4, AcctAside
<1>6. QED
  BY <1>3, <1>4, <1>5

\* acct_depth is back at 0, and a block that is there goes on the account.
LEMMA AcctLeft ==
  ASSUME AcctInv, NEW t, Callers = {t}, Acct!Left(t)
  PROVE  AcctInv'
<1>1. PICK c, d : c = acctCall[t] /\ d = acctCall'[t]
  OBVIOUS
<1>2. AcctCall(c) /\ acctCall = [u \in Callers |-> acctCall[u]] /\ known \in BOOLEAN
  BY <1>1 DEF AcctInv, AcctTypes
<1>3. /\ c.pc = "left" /\ acct_depth' = c.got - 1
      /\ UNCHANGED <<render_live, render_peak, known, live, most, drift, frees>>
      /\ acctCall' = [acctCall EXCEPT ![t] =
             IF c.blk \in live /\ c.blk \in Render THEN [pc |-> "read", blk |-> c.blk, then |-> "idle"]
             ELSE Acct!Idle]
  BY <1>1 DEF Acct!Left, Acct!LeftAfter, Acct!In, Acct!Acct, Acct!After, Acct!Goto, Acct!account, Acct!history
<1>4. /\ acctCall' = [acctCall EXCEPT ![t] = d]
      /\ d = IF c.blk \in live /\ c.blk \in Render THEN [pc |-> "read", blk |-> c.blk, then |-> "idle"]
             ELSE Acct!Idle
  BY <1>1, <1>2, <1>3
<1>5. acct_depth' = 0
  BY <1>2, <1>3 DEF AcctCall
<1>6. CASE c.blk \in live /\ c.blk \in Render
  <2>1. d.pc = "read" /\ d.blk = c.blk /\ d.then = "idle"
    BY <1>4, <1>6
  <2>2. AcctCall(d)'
    BY <1>2, <1>3, <1>5, <1>6, <2>1 DEF AcctCall, Acct!Pcs
  <2>3. Owed(c) /\ Owed(d) /\ ~Paid(c) /\ ~Paid(d)
    BY <1>3, <1>6, <2>1 DEF Owed, Paid
  <2>4. QED
    BY <1>1, <1>2, <1>3, <1>4, <2>1, <2>2, <2>3, AcctAside
<1>7. CASE ~(c.blk \in live /\ c.blk \in Render)
  <2>1. d = Acct!Idle /\ d.pc = "idle"
    BY <1>4, <1>7 DEF Acct!Idle
  <2>2. AcctCall(d)'
    BY <1>5, <2>1 DEF AcctCall, Acct!Pcs
  <2>3. ~Owed(c) /\ ~Owed(d) /\ ~Paid(c) /\ ~Paid(d)
    BY <1>3, <1>7, <2>1 DEF Owed, Paid
  <2>4. QED
    BY <1>1, <1>2, <1>3, <1>4, <2>2, <2>3, AcctAside
<1>8. QED
  BY <1>6, <1>7

LEMMA AcctRead ==
  ASSUME AcctInv, NEW t, Callers = {t}, Acct!Read(t)
  PROVE  AcctInv'
<1>1. PICK c, d : c = acctCall[t] /\ d = acctCall'[t]
  OBVIOUS
<1>2. AcctCall(c) /\ acctCall = [u \in Callers |-> acctCall[u]]
  BY <1>1 DEF AcctInv, AcctTypes
<1>3. /\ c.pc = "read" /\ known' = TRUE
      /\ UNCHANGED <<acct_depth, render_live, render_peak, live, most, drift, frees>>
      /\ acctCall' = [acctCall EXCEPT ![t] = [pc |-> "write", blk |-> c.blk, then |-> c.then, got |-> render_live]]
  BY <1>1 DEF Acct!Read, Acct!In, Acct!Goto, Acct!history
<1>4. /\ acctCall' = [acctCall EXCEPT ![t] = d]
      /\ d = [pc |-> "write", blk |-> c.blk, then |-> c.then, got |-> render_live]
  BY <1>1, <1>2, <1>3
<1>5. d.pc = "write" /\ d.blk = c.blk /\ d.then = c.then /\ d.got = render_live
  BY <1>4
<1>6. AcctCall(d)'
  BY <1>2, <1>3, <1>5 DEF AcctCall, Acct!Pcs
<1>7. (Owed(c) <=> Owed(d)) /\ ~Paid(c) /\ ~Paid(d)
  BY <1>3, <1>5 DEF Owed, Paid
<1>8. known' \in BOOLEAN /\ (known => known')
  BY <1>3
<1>9. QED
  BY <1>1, <1>3, <1>4, <1>5, <1>6, <1>7, <1>8, AcctAside

\* The engine is given a block: it is owed to the account if it is Render's.
LEMMA AcctGiven ==
  ASSUME AcctInv, NEW t, Callers = {t}, NEW c, NEW d, c = acctCall[t],
         acctCall' = [acctCall EXCEPT ![t] = d],
         UNCHANGED <<render_live, render_peak, known>>,
         NEW b, b = c.blk, c.pc \in {"orig5", "alloc2"}, Acct!Given(b),
         d.pc = "leave" \/ (d.pc = "read" /\ d.then = "idle") \/ (d.pc = "idle" /\ b \notin Render),
         d.pc # "idle" => d.blk = b,
         AcctCall(d)'
  PROVE  AcctInv'
<1>1. AcctCall(c) /\ AcctNumbers(c) /\ AcctTypes
  BY DEF AcctInv
<1>2. b = c.blk /\ (d.pc # "idle" => d.blk = b)
  OBVIOUS
<1>3. b \in Blocks /\ b \notin live
  BY <1>1, <1>2 DEF AcctCall
<1>4. PICK held, now, size : held = Acct!Bytes(live) /\ now = Acct!Bytes(live') /\ size = (IF b \in Render THEN Size[b] ELSE 0)
  OBVIOUS
<1>5. live' = live \cup {b} /\ most' = (IF most > now THEN most ELSE now) /\ UNCHANGED <<drift, frees>>
  BY <1>2, <1>4 DEF Acct!Given, Acct!Larger
<1>6. IsFiniteSet(Acct!Cells(live')) /\ now = held + size /\ held \in Nat
  BY <1>1, <1>3, <1>4, <1>5, AcctMore DEF AcctTypes
<1>7. size \in Nat
  BY <1>3, <1>4, AcctAssumption DEF Acct!AcctAssumption
<1>8. ~Owed(c) /\ ~Paid(c) /\ ~Paid(d)' /\ Acct!Bytes(live)' = now
  BY <1>4 DEF Owed, Paid
<1>9. Owed(d)' <=> b \in Render
  BY <1>2, <1>5 DEF Owed
<1>10. AcctNumbers(d)'
  <2>1. Due(c) = 0 /\ Off(c, Size) = 0 /\ Off(c, Usable) = 0
    BY <1>8 DEF Due, Off
  <2>2. /\ render_live \in Nat /\ render_peak \in Nat /\ most \in Nat /\ drift \in Nat
    BY <1>1 DEF AcctTypes
  <2>3. /\ render_live <= held /\ render_live >= held - drift
        /\ held <= most /\ render_peak <= most /\ most - drift <= render_peak
        /\ \A x \in live \cap Render : known
    <3>1. /\ render_live + Due(c) <= held - Off(c, Size)
          /\ render_live + Due(c) >= held - Off(c, Usable) - drift
          /\ held <= most /\ render_peak <= most /\ most - drift <= render_peak
          /\ \A x \in live \cap Render : known
      BY <1>1, <1>4, <1>8 DEF AcctNumbers
    <3>2. QED
      BY <1>6, <2>1, <2>2, <3>1
  <2>4. Due(d)' = size /\ Off(d, Size)' = 0 /\ Off(d, Usable)' = 0
    <3>1. Off(d, Size)' = 0 /\ Off(d, Usable)' = 0
      BY <1>8 DEF Off
    <3>2. Due(d)' = IF Owed(d)' THEN Size[d.blk] ELSE 0
      BY DEF Due
    <3>3. b \in Render => d.blk = b
      BY <1>2
    <3>4. QED
      BY <1>4, <1>9, <3>1, <3>2, <3>3
  <2>5. /\ render_live' + size <= now - 0 /\ render_live' + size >= now - 0 - drift'
        /\ now <= most' /\ render_peak' <= most'
        /\ most' - drift' <= render_peak' \/ (b \in Render /\ most' = now)
    <3>1. b \notin Render => now = held
      BY <1>4, <1>6
    <3>2. QED
      BY <1>5, <1>6, <1>7, <2>2, <2>3, <3>1
  <2>6. \A x \in live' \cap Render : known' \/ (Owed(d)' /\ x = d.blk)
    <3>1. b \in Render => Owed(d)' /\ d.blk = b
      BY <1>2, <1>9
    <3>2. QED
      BY <1>5, <2>3, <3>1
  <2>7. QED
    BY <1>8, <1>9, <2>4, <2>5, <2>6 DEF AcctNumbers
<1>11. most' \in Nat /\ live' \subseteq Blocks
  BY <1>1, <1>3, <1>5, <1>6, <1>7 DEF AcctTypes
<1>12. QED
  BY <1>1, <1>5, <1>6, <1>10, <1>11, AcctGoes DEF AcctTypes

LEMMA AcctAlloc ==
  ASSUME AcctInv, NEW t, Callers = {t}, Acct!Alloc2(t) \/ Acct!Direct(t)
  PROVE  AcctInv'
<1>1. PICK c, d : c = acctCall[t] /\ d = acctCall'[t]
  OBVIOUS
<1>2. AcctCall(c) /\ acctCall = [u \in Callers |-> acctCall[u]] /\ known \in BOOLEAN
  BY <1>1 DEF AcctInv, AcctTypes
<1>3. PICK b : b = c.blk
  OBVIOUS
<1>4. CASE Acct!Direct(t)
  <2>1. /\ c.pc = "orig5" /\ UNCHANGED <<acct_depth, render_live, render_peak, known>>
        /\ acctCall' = [acctCall EXCEPT ![t] = [pc |-> "leave", blk |-> b]]
        /\ Acct!Given(b) \/ UNCHANGED <<live, most, drift, frees>>
    BY <1>1, <1>3, <1>4 DEF Acct!Direct, Acct!In, Acct!Goto, Acct!account, Acct!history
  <2>2. acctCall' = [acctCall EXCEPT ![t] = d] /\ d = [pc |-> "leave", blk |-> b]
    BY <1>1, <1>2, <2>1
  <2>3. d.pc = "leave" /\ d.blk = b
    BY <2>2
  <2>4. AcctCall(d)'
    BY <1>2, <1>3, <2>1, <2>3 DEF AcctCall, Acct!Pcs
  <2>5. CASE Acct!Given(b)
    <3>1. UNCHANGED <<render_live, render_peak, known>> /\ c.pc \in {"orig5", "alloc2"} /\ c = acctCall[t]
      BY <1>1, <2>1
    <3>2. acctCall' = [acctCall EXCEPT ![t] = d]
      BY <2>2
    <3>3. QED
      BY <1>3, <2>3, <2>4, <2>5, <3>1, <3>2, AcctGiven
  <2>6. CASE UNCHANGED <<live, most, drift, frees>>
    <3>1. b \notin live
      BY <1>2, <1>3, <2>1 DEF AcctCall
    <3>2. ~Owed(c) /\ ~Paid(c) /\ ~Owed(d) /\ ~Paid(d)
      BY <2>1, <2>3, <3>1 DEF Owed, Paid
    <3>3. QED
      BY <1>1, <1>2, <2>1, <2>2, <2>4, <2>6, <3>2, AcctAside
  <2>7. QED
    BY <2>1, <2>5, <2>6
<1>5. CASE Acct!Alloc2(t)
  <2>1. PICK outcome, read : /\ outcome = IF c.then = "idle" THEN Acct!Idle ELSE [pc |-> c.then, blk |-> b]
                             /\ read = [pc |-> "read", blk |-> b, then |-> c.then]
    OBVIOUS
  <2>2. /\ c.pc = "alloc2" /\ UNCHANGED <<acct_depth, render_live, render_peak, known>>
        /\ \/ /\ Acct!Given(b)
              /\ acctCall' = [acctCall EXCEPT ![t] = IF c.counts /\ b \in Render THEN read ELSE outcome]
           \/ acctCall' = [acctCall EXCEPT ![t] = outcome] /\ UNCHANGED <<live, most, drift, frees>>
    BY <1>1, <1>3, <1>5, <2>1, SMTT(30) DEF Acct!Alloc2, Acct!In, Acct!Acct, Acct!After, Acct!Goto, Acct!account, Acct!history
  <2>3. /\ c.then \in {"idle", "leave"} /\ (c.counts <=> c.then = "idle") /\ b \in Blocks /\ b \notin live
        /\ acct_depth = IF c.then = "leave" THEN 1 ELSE 0
    BY <1>2, <1>3, <2>2 DEF AcctCall
  <2>4. /\ c.then = "idle" => outcome = Acct!Idle /\ outcome.pc = "idle"
        /\ c.then = "leave" => outcome.pc = "leave" /\ outcome.blk = b
        /\ read.pc = "read" /\ read.blk = b /\ read.then = c.then
    BY <2>1, SMTT(30) DEF Acct!Idle
  <2>5. AcctCall(outcome)'
    BY <2>2, <2>3, <2>4 DEF AcctCall, Acct!Pcs
  <2>6. CASE Acct!Given(b) /\ acctCall' = [acctCall EXCEPT ![t] = IF c.counts /\ b \in Render THEN read ELSE outcome]
    <3>1. b \in live'
      BY <2>6 DEF Acct!Given
    <3>2. CASE c.then = "idle" /\ b \in Render
      <4>1. AcctCall(read)'
        BY <2>2, <2>3, <2>4, <3>1, <3>2 DEF AcctCall, Acct!Pcs
      <4>2. acctCall' = [acctCall EXCEPT ![t] = read]
        BY <2>3, <2>6, <3>2
      <4>3. UNCHANGED <<render_live, render_peak, known>> /\ c.pc \in {"orig5", "alloc2"} /\ c = acctCall[t]
        BY <1>1, <2>2
      <4>4. read.pc = "read" /\ read.then = "idle" /\ read.blk = b /\ Acct!Given(b)
        BY <2>4, <2>6, <3>2
      <4>5. QED
        BY <1>3, <4>1, <4>2, <4>3, <4>4, AcctGiven
    <3>3. CASE ~(c.then = "idle" /\ b \in Render)
      <4>1. acctCall' = [acctCall EXCEPT ![t] = outcome]
        BY <2>3, <2>6, <3>3
      <4>2. outcome.pc = "leave" \/ (outcome.pc = "idle" /\ b \notin Render)
        BY <2>3, <2>4, <3>3
      <4>3. outcome.pc # "idle" => outcome.blk = b
        BY <2>3, <2>4
      <4>4. QED
        BY <1>1, <1>3, <2>2, <2>5, <2>6, <4>1, <4>2, <4>3, AcctGiven
    <3>4. QED
      BY <3>2, <3>3
  <2>7. CASE acctCall' = [acctCall EXCEPT ![t] = outcome] /\ UNCHANGED <<live, most, drift, frees>>
    <3>1. ~Owed(c) /\ ~Paid(c) /\ ~Owed(outcome) /\ ~Paid(outcome)
      BY <2>2, <2>3, <2>4 DEF Owed, Paid
    <3>2. QED
      BY <1>1, <1>2, <2>2, <2>5, <2>7, <3>1, AcctAside
  <2>8. QED
    BY <2>2, <2>6, <2>7
<1>6. QED
  BY <1>4, <1>5

\* The sum is written: the block is on the account, or off it.
LEMMA AcctWrite ==
  ASSUME AcctInv, NEW t, Callers = {t}, Acct!Write(t)
  PROVE  AcctInv'
<1>1. PICK c, d, b : c = acctCall[t] /\ d = acctCall'[t] /\ b = c.blk
  OBVIOUS
<1>2. AcctCall(c) /\ AcctNumbers(c) /\ AcctTypes
  BY <1>1 DEF AcctInv
<1>3. PICK new : new = IF c.then = "free" THEN (IF Usable[b] > render_live THEN 0 ELSE render_live - Usable[b])
                       ELSE render_live + Size[b]
  OBVIOUS
<1>4. c.pc = "write" /\ c.got = render_live /\ known /\ c.then \in {"idle", "free"} /\ b \in Render /\ b \in live /\ b \in Blocks
  BY <1>1, <1>2 DEF Acct!Write, Acct!WriteKeeping, Acct!In, AcctCall
<1>5. /\ UNCHANGED <<acct_depth, known, live, most, drift, frees>>
      /\ render_live' = new /\ render_peak' = IF new > render_peak THEN new ELSE render_peak
      /\ acctCall' = [acctCall EXCEPT ![t] = IF c.then = "idle" THEN Acct!Idle ELSE [pc |-> c.then, blk |-> b]]
  BY <1>1, <1>3, <1>4 DEF Acct!Write, Acct!WriteKeeping, Acct!LowerDrop, Acct!Larger, Acct!After, Acct!Goto, Acct!history
<1>6. /\ acctCall' = [acctCall EXCEPT ![t] = d]
      /\ d = IF c.then = "idle" THEN Acct!Idle ELSE [pc |-> c.then, blk |-> b]
  BY <1>1, <1>2, <1>5 DEF AcctTypes
<1>7. Size[b] \in Nat /\ Usable[b] \in Nat /\ Size[b] <= Usable[b]
  BY <1>4, AcctAssumption DEF Acct!AcctAssumption
<1>8. PICK held : held = Acct!Bytes(live)
  OBVIOUS
<1>9. held \in Nat /\ Size[b] <= held
  <2>1. PICK rest : rest = Acct!Bytes(live \ {b})
    OBVIOUS
  <2>2. rest \in Nat /\ rest = held - Size[b]
    BY <1>2, <1>4, <1>8, <2>1, AcctLess DEF AcctTypes
  <2>3. held \in Nat
    <3>1. (live \ {b}) \cup {b} = live /\ IsFiniteSet(Acct!Cells(live \ {b}))
      BY <1>2, <1>4, AcctLess DEF AcctTypes
    <3>2. held = rest + Size[b]
      BY <1>4, <1>8, <2>1, <3>1, AcctMore
    <3>3. QED
      BY <1>7, <2>2, <3>2
  <2>4. QED
    BY <1>7, <2>2, <2>3
<1>10. acct_depth = 0 /\ Acct!Bytes(live)' = held
  BY <1>2, <1>4, <1>5, <1>8 DEF AcctCall
<1>11. /\ render_live \in Nat /\ render_peak \in Nat /\ most \in Nat /\ drift \in Nat
       /\ held <= most /\ render_peak <= most
  BY <1>2, <1>8 DEF AcctTypes, AcctNumbers
<1>12. ~Paid(c) /\ (Owed(c) <=> c.then = "idle")
  BY <1>1, <1>4 DEF Owed, Paid
<1>13. CASE c.then = "idle"
  <2>1. d = Acct!Idle /\ d.pc = "idle"
    BY <1>6, <1>13 DEF Acct!Idle
  <2>2. AcctCall(d)'
    BY <1>5, <1>10, <2>1 DEF AcctCall, Acct!Pcs
  <2>3. ~Owed(d)' /\ ~Paid(d)'
    BY <2>1 DEF Owed, Paid
  <2>4. /\ render_live + Size[b] <= held /\ render_live + Size[b] >= held - drift
        /\ most - drift <= render_peak \/ most = held
    <3>1. Due(c) = Size[b] /\ Off(c, Size) = 0 /\ Off(c, Usable) = 0
      BY <1>1, <1>12, <1>13 DEF Due, Off
    <3>2. /\ render_live + Due(c) <= held - Off(c, Size)
          /\ render_live + Due(c) >= held - Off(c, Usable) - drift
          /\ most - drift <= render_peak \/ most = held
      BY <1>2, <1>8 DEF AcctNumbers
    <3>3. QED
      BY <1>9, <1>11, <3>1, <3>2
  <2>5. new = render_live + Size[b]
    BY <1>3, <1>13
  <2>6. /\ new <= held /\ new >= held - drift
        /\ render_peak' <= most /\ most - drift <= render_peak'
    BY <1>5, <1>7, <1>9, <1>11, <2>4, <2>5
  <2>7. AcctNumbers(d)'
    <3>1. Due(d)' = 0 /\ Off(d, Size)' = 0 /\ Off(d, Usable)' = 0
      BY <2>3 DEF Due, Off
    <3>2. new + 0 <= held - 0 /\ new + 0 >= held - 0 - drift
      BY <1>9, <1>11, <2>4, <2>5, <2>6
    <3>3. QED
      BY <1>4, <1>5, <1>10, <1>11, <2>6, <3>1, <3>2 DEF AcctNumbers
  <2>8. render_live' \in Nat /\ render_peak' \in Nat
    BY <1>5, <1>7, <1>11, <2>5
  <2>9. QED
    BY <1>2, <1>5, <1>6, <2>2, <2>7, <2>8, AcctGoes DEF AcctTypes
<1>14. CASE c.then = "free"
  <2>1. d.pc = "free" /\ d.blk = b
    BY <1>6, <1>14
  <2>2. AcctCall(d)'
    <3>1. frees < MaxFrees
      BY <1>2, <1>4, <1>14 DEF AcctCall
    <3>2. QED
      BY <1>4, <1>5, <1>10, <2>1, <3>1 DEF AcctCall, Acct!Pcs
  <2>3. ~Owed(d)' /\ Paid(d)'
    BY <1>4, <2>1 DEF Owed, Paid
  <2>4. /\ render_live <= held /\ render_live >= held - drift
        /\ most - drift <= render_peak
    <3>1. Due(c) = 0 /\ Off(c, Size) = 0 /\ Off(c, Usable) = 0 /\ ~Owed(c)
      BY <1>1, <1>12, <1>14 DEF Due, Off
    <3>2. /\ render_live + Due(c) <= held - Off(c, Size)
          /\ render_live + Due(c) >= held - Off(c, Usable) - drift
          /\ most - drift <= render_peak
      BY <1>2, <1>8, <3>1 DEF AcctNumbers
    <3>3. QED
      BY <1>9, <1>11, <3>1, <3>2
  <2>5. new = IF Usable[b] > render_live THEN 0 ELSE render_live - Usable[b]
    BY <1>3, <1>14
  <2>6. /\ new <= held - Size[b] /\ new >= held - Usable[b] - drift
        /\ render_peak' <= most /\ most - drift <= render_peak'
    BY <1>5, <1>7, <1>9, <1>11, <2>4, <2>5
  <2>7. AcctNumbers(d)'
    <3>1. Due(d)' = 0 /\ Off(d, Size)' = Size[b] /\ Off(d, Usable)' = Usable[b]
      BY <2>1, <2>3 DEF Due, Off
    <3>2. new + 0 <= held - Size[b] /\ new + 0 >= held - Usable[b] - drift
      BY <1>7, <1>9, <1>11, <2>5, <2>6
    <3>3. QED
      BY <1>4, <1>5, <1>10, <1>11, <2>6, <3>1, <3>2 DEF AcctNumbers
  <2>8. render_live' \in Nat /\ render_peak' \in Nat
    BY <1>5, <1>7, <1>11, <2>5
  <2>9. QED
    BY <1>2, <1>5, <1>6, <2>2, <2>7, <2>8, AcctGoes DEF AcctTypes
<1>15. QED
  BY <1>4, <1>13, <1>14

LEMMA AcctFrees ==
  ASSUME AcctInv, NEW t, Callers = {t}, NEW b \in Blocks, Acct!CatFree(t, b)
  PROVE  AcctInv'
<1>1. PICK c, d : c = acctCall[t] /\ d = acctCall'[t]
  OBVIOUS
<1>2. AcctCall(c) /\ AcctNumbers(c) /\ AcctTypes
  BY <1>1 DEF AcctInv
<1>3. /\ c.pc = "idle" /\ b \in live /\ frees < MaxFrees
      /\ UNCHANGED <<acct_depth, render_live, render_peak, known, live, most, drift, frees>>
  BY <1>1 DEF Acct!CatFree, Acct!Idle, Acct!account, Acct!history
<1>4. ~Owed(c) /\ ~Paid(c)
  BY <1>3 DEF Owed, Paid
<1>5. acct_depth = 0 /\ (b \in Render => known)
  BY <1>2, <1>3, <1>4 DEF AcctCall, AcctNumbers
<1>6. acctCall' = [acctCall EXCEPT ![t] =
          IF known /\ b \in Render THEN [pc |-> "read", blk |-> b, then |-> "free"]
          ELSE [pc |-> "free", blk |-> b]]
  BY DEF Acct!CatFree, Acct!Acct, Acct!After, Acct!Goto
<1>7. /\ acctCall' = [acctCall EXCEPT ![t] = d]
      /\ d = IF known /\ b \in Render THEN [pc |-> "read", blk |-> b, then |-> "free"]
             ELSE [pc |-> "free", blk |-> b]
  BY <1>1, <1>2, <1>6 DEF AcctTypes
<1>8. /\ d.blk = b
      /\ \/ d.pc = "read" /\ d.then = "free" /\ b \in Render
         \/ d.pc = "free" /\ b \notin Render
  BY <1>5, <1>7
<1>9. AcctCall(d)'
  BY <1>2, <1>3, <1>5, <1>8 DEF AcctCall, Acct!Pcs
<1>10. ~Owed(d) /\ ~Paid(d)
  BY <1>8 DEF Owed, Paid
<1>11. QED
  BY <1>1, <1>2, <1>3, <1>4, <1>7, <1>9, <1>10, AcctAside DEF AcctTypes

\* What was taken off before is now gone; drift is what was too much of it.
LEMMA AcctFreed ==
  ASSUME AcctInv, NEW t, Callers = {t}, Acct!Free(t)
  PROVE  AcctInv'
<1>1. PICK c, d, b : c = acctCall[t] /\ d = acctCall'[t] /\ b = c.blk
  OBVIOUS
<1>2. AcctCall(c) /\ AcctNumbers(c) /\ AcctTypes
  BY <1>1 DEF AcctInv
<1>3. PICK size, usable : /\ size = (IF b \in Render THEN Size[b] ELSE 0)
                          /\ usable = (IF b \in Render THEN Usable[b] ELSE 0)
  OBVIOUS
<1>4. /\ c.pc = "free" /\ b \in live /\ b \in Blocks
      /\ UNCHANGED <<acct_depth, render_live, render_peak, known, most>>
      /\ live' = live \ {b} /\ frees' = frees + 1 /\ frees < MaxFrees
      /\ acctCall' = [acctCall EXCEPT ![t] = Acct!Idle]
  BY <1>1, <1>2 DEF Acct!Free, Acct!In, Acct!Goto, Acct!account, AcctCall
<1>5. Size[b] \in Nat /\ Usable[b] \in Nat /\ Size[b] <= Usable[b] /\ MaxFrees \in Nat
  BY <1>4, AcctAssumption DEF Acct!AcctAssumption
<1>6. drift' = drift + (usable - size)
  <2>1. drift' = drift + IF b \in Render THEN Usable[b] - Size[b] ELSE 0
    BY <1>1 DEF Acct!Free
  <2>2. CASE b \in Render
    BY <1>3, <2>1, <2>2
  <2>3. CASE b \notin Render
    <3>1. usable - size = 0
      BY <1>3, <2>3
    <3>2. QED
      BY <2>1, <2>3, <3>1
  <2>4. QED
    BY <2>2, <2>3
<1>7. acctCall' = [acctCall EXCEPT ![t] = d] /\ d = Acct!Idle /\ d.pc = "idle"
  BY <1>1, <1>2, <1>4 DEF AcctTypes, Acct!Idle
<1>8. AcctCall(d)'
  BY <1>2, <1>4, <1>7 DEF AcctCall, Acct!Pcs
<1>9. PICK held, now : held = Acct!Bytes(live) /\ now = Acct!Bytes(live')
  OBVIOUS
<1>10. IsFiniteSet(Acct!Cells(live')) /\ now = held - size /\ now \in Nat
  BY <1>2, <1>3, <1>4, <1>9, AcctLess DEF AcctTypes
<1>11. /\ render_live \in Nat /\ render_peak \in Nat /\ most \in Nat /\ drift \in Nat
       /\ size \in Nat /\ usable \in Nat /\ size <= usable
  BY <1>2, <1>3, <1>5 DEF AcctTypes
<1>12. held \in Nat
  <2>1. (live \ {b}) \cup {b} = live /\ IsFiniteSet(Acct!Cells(live \ {b}))
    BY <1>4, <1>10
  <2>2. held = now + size
    BY <1>3, <1>4, <1>9, <2>1, AcctMore
  <2>3. QED
    BY <1>10, <1>11, <2>2
<1>13. ~Owed(c) /\ (Paid(c) <=> b \in Render) /\ ~Owed(d)' /\ ~Paid(d)' /\ Acct!Bytes(live)' = now
  BY <1>1, <1>4, <1>7, <1>9 DEF Owed, Paid
<1>14. AcctNumbers(d)'
  <2>1. Due(c) = 0 /\ Off(c, Size) = size /\ Off(c, Usable) = usable
    BY <1>1, <1>3, <1>13 DEF Due, Off
  <2>2. Due(d)' = 0 /\ Off(d, Size)' = 0 /\ Off(d, Usable)' = 0
    BY <1>13 DEF Due, Off
  <2>3. /\ render_live + 0 <= held - size /\ render_live + 0 >= held - usable - drift
        /\ held <= most /\ render_peak <= most /\ most - drift <= render_peak
        /\ \A x \in live \cap Render : known
    <3>1. /\ render_live + Due(c) <= held - Off(c, Size)
          /\ render_live + Due(c) >= held - Off(c, Usable) - drift
          /\ held <= most /\ render_peak <= most /\ most - drift <= render_peak
          /\ \A x \in live \cap Render : known
      BY <1>2, <1>9, <1>13 DEF AcctNumbers
    <3>2. QED
      BY <2>1, <3>1
  <2>4. /\ render_live' + 0 <= now - 0 /\ render_live' + 0 >= now - 0 - drift'
        /\ now <= most' /\ render_peak' <= most' /\ most' - drift' <= render_peak'
    BY <1>4, <1>6, <1>10, <1>11, <1>12, <2>3
  <2>5. \A x \in live' \cap Render : known'
    BY <1>4, <2>3
  <2>6. QED
    BY <1>13, <2>2, <2>4, <2>5 DEF AcctNumbers
<1>15. drift' \in Nat /\ frees' \in 0..MaxFrees /\ live' \subseteq Blocks
  <2>1. frees \in 0..MaxFrees /\ live \subseteq Blocks
    BY <1>2 DEF AcctTypes
  <2>2. QED
    BY <1>4, <1>5, <1>6, <1>11, <2>1
<1>16. QED
  BY <1>2, <1>4, <1>7, <1>8, <1>10, <1>14, <1>15, AcctGoes DEF AcctTypes

LEMMA AcctStep ==
  ASSUME AcctInv, NEW k, Callers = {k}, [Acct!Next]_(Acct!vars)
  PROVE  AcctInv'
<1>1. CASE UNCHANGED Acct!vars
  <2>1. UNCHANGED <<acct_depth, render_live, render_peak, known, acctCall, live, most, drift, frees>>
    BY <1>1 DEF Acct!vars, Acct!account, Acct!history
  <2>2. AcctTypes'
    BY <2>1 DEF AcctInv, AcctTypes
  <2>3. \A t \in Callers : AcctCall(acctCall[t])' /\ AcctNumbers(acctCall[t])'
    BY <2>1 DEF AcctInv, AcctCall, AcctNumbers, Due, Off, Owed, Paid
  <2>4. QED
    BY <2>2, <2>3 DEF AcctInv
<1>2. ASSUME NEW b \in Blocks, Acct!CatAlloc5(k, b) \/ Acct!CatAlloc2(k, b) PROVE AcctInv'
  BY <1>2, AcctEnters
<1>3. ASSUME NEW b \in Blocks, Acct!CatFree(k, b) PROVE AcctInv'
  BY <1>3, AcctFrees
<1>4. CASE Acct!Enter(k) \/ Acct!Through(k) \/ Acct!Leave(k)
  BY <1>4, AcctDepth
<1>5. CASE Acct!Left(k)
  BY <1>5, AcctLeft
<1>6. CASE Acct!Direct(k) \/ Acct!Alloc2(k)
  BY <1>6, AcctAlloc
<1>7. CASE Acct!Read(k)
  BY <1>7, AcctRead
<1>8. CASE Acct!Write(k)
  BY <1>8, AcctWrite
<1>9. CASE Acct!Free(k)
  BY <1>9, AcctFreed
<1>10. QED
  BY <1>1, <1>2, <1>3, <1>4, <1>5, <1>6, <1>7, <1>8, <1>9 DEF Acct!Next

LEMMA AcctIs ==
  ASSUME AcctInv, NEW k, Callers = {k}
  PROVE  CountedOnce
<1>1. PICK c : c = acctCall[k]
  OBVIOUS
<1>2. AcctTypes /\ AcctCall(c) /\ AcctNumbers(c)
  BY <1>1 DEF AcctInv
<1>3. Acct!TypeOK
  <2>1. acct_depth \in 0..1 /\ \A t \in Callers : acctCall[t].pc \in Acct!Pcs
    BY <1>1, <1>2 DEF AcctCall
  <2>2. QED
    BY <1>2, <2>1 DEF AcctTypes, Acct!TypeOK
<1>4. ASSUME Acct!Quiet
      PROVE  /\ render_live \in (Acct!Bytes(live) - drift)..Acct!Bytes(live)
             /\ render_peak \in (most - drift)..most
  <2>1. c.pc = "idle"
    BY <1>1, <1>4 DEF Acct!Quiet, Acct!Idle
  <2>2. ~Owed(c) /\ ~Paid(c)
    BY <2>1 DEF Owed, Paid
  <2>3. Due(c) = 0 /\ Off(c, Size) = 0 /\ Off(c, Usable) = 0
    BY <2>2 DEF Due, Off
  <2>4. PICK held : held = Acct!Bytes(live)
    OBVIOUS
  <2>5. held \in Nat
    <3>1. IsFiniteSet(Acct!Cells(live)) /\ held = Cardinality(Acct!Cells(live))
      BY <1>2, <2>4 DEF AcctTypes, Acct!Bytes, Acct!Cardinality, Cardinality
    <3>2. QED
      BY <3>1, FS_CardinalityType
  <2>6. /\ render_live + 0 <= held - 0 /\ render_live + 0 >= held - 0 - drift
        /\ render_peak <= most /\ most - drift <= render_peak
    BY <1>2, <2>2, <2>3, <2>4 DEF AcctNumbers
  <2>7. render_live \in Nat /\ render_peak \in Nat /\ most \in Nat /\ drift \in Nat
    BY <1>2 DEF AcctTypes
  <2>8. render_live \in (held - drift)..held /\ render_peak \in (most - drift)..most
    BY <2>5, <2>6, <2>7
  <2>9. QED
    BY <2>4, <2>8
<1>5. QED
  BY <1>3, <1>4 DEF CountedOnce, Acct!CountedOnce, Acct!PeakReal

\* Between calls, the account is what the engine holds of Render and its peak
\* the most it ever held, but for what cat_usable said too much of blocks that
\* were freed; acct_depth is 0 or 1 (main.c:356-377): for any blocks and sizes,
\* nested calls and failed allocations included.  This is a lemma and no theorem
\* of the program: it is for one caller, and acct_depth is one counter of all
\* the threads.
LEMMA CountedOfOneCaller ==
  ASSUME NEW k, Callers = {k}
  PROVE  AllSpec => []CountedOnce
<1>1. AllInit => AcctInv
  BY AcctInit DEF AllInit
<1>2. AcctInv /\ [AllNext]_allVars => AcctInv'
  BY Parts, AcctStep
<1>3. AcctInv => CountedOnce
  BY AcctIs
<1>4. QED
  BY <1>1, <1>2, <1>3, PTL DEF AllSpec
=============================================================================

-------------------------- MODULE PthreadSem_proofs --------------------------
(***************************************************************************)
(* The semaphores, for any number of threads and slots, any counts and any *)
(* units of time.  The handle in a slot is a live one that no other slot   *)
(* has, and stays while any call is on the slot, so a handle that was read *)
(* is still the slot's when the kernel is called with it; and posts under  *)
(* way fit the count's bound, by the game's rules.  A timed wait needs the *)
(* arithmetic of its deadline: what two roundings lose is below a          *)
(* microsecond, however the divisions fall.                                *)
(***************************************************************************)
EXTENDS PthreadSem, FiniteSetTheorems, TLAPS

Ops == {"post", "wait", "trywait", "timedwait", "init"}
Outcomes == {"none", "done", "posted", "taken", "failed"}
Entered == [pc : {"look", "lock", "again", "got"}, op : Ops, sem : Sems, until : Nat]
InKernel ==
    [pc : {"kernel"}, op : Ops \ {"init"}, sem : Sems, until : Nat, id : Ids, expires : Nat]

TypeInv ==
    /\ slot \in [Sems -> 0..MaxCount \cup Ids]
    /\ bridge_lock \in Threads \cup {NoThread}
    /\ kernel \in [Ids -> -1..MaxCount]
    /\ created \in 0..MaxHandles /\ fails \in 0..MaxFails /\ clock \in 0..MaxNow
    /\ call \in [Threads -> {Idle} \cup Entered \cup InKernel]
    /\ outcome \in [Threads -> Outcomes]

\* A handle in a slot is live and in no other slot, and live ones are in slots.
HandleInv ==
    /\ \A s \in Sems : slot[s] >= First => slot[s] < First + created /\ kernel[slot[s]] >= 0
    /\ \A r, s \in Sems : slot[s] >= First /\ slot[r] = slot[s] => r = s
    /\ \A id \in Ids : kernel[id] >= 0 => \E s \in Sems : slot[s] = id

\* The posts under way have room.
Posters(s) == {t \in Threads : Uses(t, s) /\ call[t].op = "post"}
RoomInv ==
    \A s \in Sems :
        IsFiniteSet(Posters(s)) /\ Cardinality(Posters(s)) + Count(s) <= MaxCount

\* A call in the kernel has the handle of its slot, and its time is not too short.
KernelInv ==
    \A t \in Threads :
        /\ call[t] # Idle => outcome[t] = "none"
        /\ In(t, "kernel") => call[t].id = slot[call[t].sem]
        /\ In(t, "kernel") /\ call[t].op = "timedwait" =>
              call[t].expires + NanosPerMicro > call[t].until

IInv == TypeInv /\ HandleInv /\ RoomInv /\ KernelInv

----------------------------------------------------------------------------
(* The arithmetic of the deadline. *)

LEMMA DivMod ==
  ASSUME NEW a \in Int, NEW n \in Nat \ {0}
  PROVE  a % n \in 0..(n - 1) /\ (a \div n) \in Int /\ a = (n * (a \div n)) + (a % n)
  BY SMT

\* Rounded towards zero, a quotient is less than one above what it stands for.
LEMMA QuotBound ==
  ASSUME NEW a \in Int, NEW n \in Nat \ {0}
  PROVE  Quot(a, n) \in Int /\ n * Quot(a, n) + n > a
<1>1. CASE a >= 0
  <2> DEFINE q == a \div n
  <2>1. q \in Int /\ a % n \in 0..(n - 1) /\ a = n * q + (a % n)
    BY DivMod
  <2>2. Quot(a, n) = q
    BY <1>1 DEF Quot
  <2> HIDE DEF q
  <2>3. n * q + n > a
    BY <2>1
  <2>4. QED
    BY <2>1, <2>2, <2>3
<1>2. CASE a < 0
  <2> DEFINE q == (-a) \div n
             x == (-a) % n
  <2>1. -a \in Int
    OBVIOUS
  <2>2. q \in Int /\ x \in 0..(n - 1) /\ -a = n * q + x
    BY <2>1, DivMod
  <2>3. Quot(a, n) = -q
    BY <1>2 DEF Quot
  <2> HIDE DEF q, x
  <2>4. n * (-q) = -(n * q)
    BY <2>2
  <2>5. n * q \in Int
    BY <2>2
  <2>6. n * (-q) + n > a
    BY <2>2, <2>4, <2>5
  <2>7. QED
    BY <2>2, <2>3, <2>6
<1>3. QED
  BY <1>1, <1>2

\* The microseconds to a deadline, one more of them, reach beyond it.
LEMMA MicrosBound ==
  ASSUME SemAssumption, NEW until \in Nat, NEW now \in Nat
  PROVE  /\ MicrosUntil(until, now) \in Int
         /\ NanosPerMicro * MicrosUntil(until, now) + NanosPerMicro > until - now
<1> DEFINE N == NanosPerMicro
           M == MicrosPerSec
           P == N * M
           qu == until \div P
           qn == now \div P
           ru == until % P
           rn == now % P
           k == Quot(ru - rn, N)
<1>1. N \in Nat \ {0} /\ M \in Nat \ {0}
  BY DEF SemAssumption
<1>2. P \in Nat \ {0}
  <2> HIDE DEF N, M
  <2>1. QED
    BY <1>1
<1>3. MicrosUntil(until, now) = (qu - qn) * M + k
  BY DEF MicrosUntil, Sec, Nsec
<1> HIDE DEF P
<1>4. qu \in Int /\ ru \in Int /\ until = P * qu + ru
  BY <1>2, DivMod
<1>5. qn \in Int /\ rn \in Int /\ now = P * qn + rn
  BY <1>2, DivMod
<1> HIDE DEF qu, qn, ru, rn
<1>6. k \in Int /\ N * k + N > ru - rn
  BY <1>1, <1>4, <1>5, QuotBound
<1> HIDE DEF N, M, k
<1>7. (qu - qn) * M \in Int /\ N * ((qu - qn) * M) = P * qu - P * qn
  BY <1>1, <1>4, <1>5 DEF P
<1>8. N * ((qu - qn) * M + k) = N * ((qu - qn) * M) + N * k
  BY <1>1, <1>6, <1>7
<1>9. P * qu \in Int /\ P * qn \in Int /\ N * k \in Int
  BY <1>1, <1>2, <1>4, <1>5, <1>6
<1>10. N * ((qu - qn) * M + k) + N > until - now
  BY <1>1, <1>4, <1>5, <1>6, <1>7, <1>8, <1>9
<1>11. QED
  BY <1>3, <1>6, <1>7, <1>10 DEF N

----------------------------------------------------------------------------
(* Calls and counts. *)

LEMMA CallFacts ==
  ASSUME NEW c \in {Idle} \cup Entered \cup InKernel
  PROVE  /\ c # Idle => c.op \in Ops /\ c.sem \in Sems /\ c.until \in Nat
         /\ c = Idle <=> c.pc = "idle"
         /\ c.pc \in {"look", "lock", "again", "got"} <=> c \in Entered
         /\ c.pc = "kernel" <=> c \in InKernel
         /\ c.pc = "kernel" => c.id \in Ids /\ c.expires \in Nat /\ c.op # "init"
  BY DEF Idle, Entered, InKernel

LEMMA GotoFacts ==
  ASSUME NEW c \in Entered, NEW p \in {"look", "lock", "again", "got"}
  PROVE  /\ [c EXCEPT !.pc = p] \in Entered
         /\ [c EXCEPT !.pc = p].op = c.op /\ [c EXCEPT !.pc = p].sem = c.sem
         /\ [c EXCEPT !.pc = p].pc = p
  BY DEF Entered

LEMMA IdFacts ==
  ASSUME SemAssumption
  PROVE  /\ First \in Nat /\ MaxCount \in Nat /\ MaxHandles \in Nat /\ MaxFails \in Nat
         /\ MaxNow \in Nat /\ MaxCount < First
         /\ \A id \in Ids : id \in Nat /\ id >= First
         /\ \A v \in 0..MaxCount : v < First /\ v \notin Ids
         /\ \A n \in 0..MaxHandles : n < MaxHandles => First + n \in Ids
  BY DEF SemAssumption, Ids

LEMMA SlotFacts ==
  ASSUME SemAssumption, TypeInv, NEW s \in Sems
  PROVE  /\ slot[s] \in Nat
         /\ slot[s] < First => slot[s] \in 0..MaxCount
         /\ slot[s] >= First <=> slot[s] \in Ids
  BY IdFacts DEF TypeInv

\* A slot counts as before when neither it nor what is behind it changes.
LEMMA CountKept ==
  ASSUME SemAssumption, TypeInv, NEW s \in Sems, slot'[s] = slot[s],
         slot[s] >= First => kernel'[slot[s]] = kernel[slot[s]]
  PROVE  Count(s)' = Count(s)
<1>1. CASE slot[s] < First
  BY <1>1 DEF Count
<1>2. CASE slot[s] >= First
  <2>1. ~(slot[s] < First) /\ ~(slot'[s] < First)
    BY <1>2, SlotFacts, IdFacts
  <2>2. QED
    BY <1>2, <2>1 DEF Count
<1>3. QED
  BY <1>1, <1>2, SlotFacts, IdFacts

\* What a thread does that is in a call already adds no post.
LEMMA FewerPosters ==
  ASSUME SemAssumption, TypeInv, NEW t \in Threads, NEW c,
         call' = [call EXCEPT ![t] = c],
         c = Idle \/ (c.sem = call[t].sem /\ (c.op = "post" => call[t].op = "post")),
         call[t] # Idle, NEW s \in Sems
  PROVE  Posters(s)' \subseteq Posters(s)
  BY DEF Posters, Uses, TypeInv

LEMMA RoomKept ==
  ASSUME SemAssumption, TypeInv, RoomInv, NEW s \in Sems,
         Posters(s)' \subseteq Posters(s), Count(s)' \in Int, Count(s) \in Int,
         Count(s)' <= Count(s)
  PROVE  IsFiniteSet(Posters(s)') /\ Cardinality(Posters(s)') + Count(s)' <= MaxCount
<1>1. IsFiniteSet(Posters(s)) /\ Cardinality(Posters(s)) + Count(s) <= MaxCount
  BY DEF RoomInv
<1>2. IsFiniteSet(Posters(s)') /\ Cardinality(Posters(s)') <= Cardinality(Posters(s))
  BY <1>1, FS_Subset
<1>3. Cardinality(Posters(s)) \in Nat /\ Cardinality(Posters(s)') \in Nat
  BY <1>1, <1>2, FS_CardinalityType
<1>4. QED
  BY <1>1, <1>2, <1>3, IdFacts

LEMMA CountType ==
  ASSUME SemAssumption, TypeInv, HandleInv, NEW s \in Sems
  PROVE  Count(s) \in 0..MaxCount
  BY SlotFacts, IdFacts DEF Count, TypeInv, HandleInv

LEMMA InitInv == ASSUME SemAssumption, Init PROVE IInv
<1>1. TypeInv
  BY IdFacts DEF Init, TypeInv, Outcomes
<1>2. HandleInv
  BY <1>1, IdFacts, SlotFacts DEF Init, HandleInv
<1>3. RoomInv
  <2>1. \A s \in Sems : Posters(s) = {}
    BY DEF Init, Posters, Uses
  <2>2. \A s \in Sems : Count(s) \in 0..MaxCount
    BY <1>1, <1>2, CountType
  <2>3. QED
    BY <2>1, <2>2, FS_EmptySet, IdFacts DEF RoomInv
<1>4. KernelInv
  BY DEF Init, KernelInv, In, Idle
<1>5. QED
  BY <1>1, <1>2, <1>3, <1>4 DEF IInv

----------------------------------------------------------------------------
(* The steps, one by one. *)

\* Entering, for Call and sem_timedwait.
LEMMA EnterInv ==
  ASSUME SemAssumption, IInv, NEW t \in Threads, NEW op \in Ops, NEW s \in Sems,
         NEW until \in Nat, call[t] = Idle,
         Enter(t, [pc |-> "look", op |-> op, sem |-> s, until |-> until]),
         op = "post" => Legal("post", s),
         UNCHANGED <<slot, bridge_lock, kernel, created, fails, clock>>
  PROVE  IInv'
<1> DEFINE c == [pc |-> "look", op |-> op, sem |-> s, until |-> until]
<1>1. c \in Entered /\ c.pc = "look" /\ c.op = op /\ c.sem = s /\ c # Idle
  BY DEF Entered, Idle
<1>2. call' = [call EXCEPT ![t] = c] /\ outcome' = [outcome EXCEPT ![t] = "none"]
  BY DEF Enter
<1> HIDE DEF c
<1>3. TypeInv'
  BY <1>1, <1>2 DEF IInv, TypeInv, Outcomes, Ids
<1>4. HandleInv'
  BY DEF IInv, HandleInv, Ids
<1>5. KernelInv'
  BY <1>1, <1>2 DEF IInv, TypeInv, KernelInv, In
<1>6. ASSUME NEW r \in Sems
      PROVE  IsFiniteSet(Posters(r)') /\ Cardinality(Posters(r)') + Count(r)' <= MaxCount
  <2>1. Count(r)' = Count(r) /\ Count(r) \in 0..MaxCount
    BY CountKept, CountType DEF IInv
  <2>2. CASE op = "post" /\ r = s
    <3>1. Posters(s)' = Posters(s) \cup {t} /\ t \notin Posters(s)
      BY <1>1, <1>2, <2>2 DEF IInv, TypeInv, Posters, Uses
    <3>2. Posters(s) = {u \in Threads : Uses(u, s) /\ call[u].op = "post"}
      BY DEF Posters
    <3>3. Cardinality(Posters(s)) + Count(s) < MaxCount
      BY <2>2, <3>2 DEF Legal
    <3>4. IsFiniteSet(Posters(s)) /\ Cardinality(Posters(s)) \in Nat
      BY FS_CardinalityType DEF IInv, RoomInv
    <3>5. IsFiniteSet(Posters(s)') /\ Cardinality(Posters(s)') = Cardinality(Posters(s)) + 1
      BY <3>1, <3>4, FS_AddElement
    <3>6. QED
      BY <2>1, <2>2, <3>3, <3>4, <3>5, IdFacts
  <2>3. CASE ~(op = "post" /\ r = s)
    <3>1. Posters(r)' \subseteq Posters(r)
      BY <1>1, <1>2, <2>3 DEF IInv, TypeInv, Posters, Uses
    <3>2. QED
      BY <2>1, <3>1, RoomKept DEF IInv
  <2>4. QED
    BY <2>2, <2>3
<1>7. RoomInv'
  BY <1>6 DEF RoomInv
<1>8. QED
  BY <1>3, <1>4, <1>5, <1>7 DEF IInv

LEMMA SemInitInv ==
  ASSUME SemAssumption, IInv, NEW t \in Threads, NEW s \in Sems, NEW v \in 0..MaxCount,
         sem_init(t, s, v)
  PROVE  IInv'
<1> DEFINE c == [pc |-> "look", op |-> "init", sem |-> s, until |-> 0]
<1>1. c \in Entered /\ c.pc = "look" /\ c.op = "init" /\ c.sem = s /\ c # Idle
  BY DEF Entered, Idle, Ops
<1>2. /\ call[t] = Idle /\ \A u \in Threads : ~Uses(u, s)
      /\ slot[s] < First /\ slot' = [slot EXCEPT ![s] = v]
      /\ call' = [call EXCEPT ![t] = c] /\ outcome' = [outcome EXCEPT ![t] = "none"]
      /\ UNCHANGED <<bridge_lock, kernel, created, fails, clock>>
  BY DEF sem_init, Legal, Enter
<1> HIDE DEF c
<1>3. TypeInv'
  BY <1>1, <1>2 DEF IInv, TypeInv, Outcomes, Ids
<1>4. HandleInv'
  <2>1. v < First /\ First \in Nat /\ v \in Nat
    BY IdFacts
  <2>2. \A r \in Sems : slot'[r] = IF r = s THEN v ELSE slot[r]
    BY <1>2 DEF IInv, TypeInv
  <2>3. \A id \in Ids : id >= First
    BY IdFacts
  <2>4. \A r \in Sems : slot'[r] >= First => r # s /\ slot'[r] = slot[r]
    BY <2>1, <2>2
  <2>5. \A r \in Sems : slot[r] >= First => slot'[r] = slot[r]
    BY <1>2, <2>1, <2>2, SlotFacts DEF IInv
  <2>6. \A r, q \in Sems : slot'[r] >= First /\ slot'[q] = slot'[r] => q = r
    BY <2>4 DEF IInv, HandleInv
  <2>7. \A id \in Ids : kernel'[id] >= 0 => \E r \in Sems : slot'[r] = id
    BY <1>2, <2>3, <2>5 DEF IInv, HandleInv
  <2>8. QED
    BY <1>2, <2>4, <2>6, <2>7 DEF IInv, HandleInv, Ids
<1>5. KernelInv'
  <2>1. \A u \in Threads : call'[u] = IF u = t THEN c ELSE call[u]
    BY <1>2 DEF IInv, TypeInv
  <2>2. \A u \in Threads : outcome'[u] = IF u = t THEN "none" ELSE outcome[u]
    BY <1>2 DEF IInv, TypeInv
  <2>3. ASSUME NEW u \in Threads, call[u].pc = "kernel"
        PROVE  slot'[call[u].sem] = slot[call[u].sem]
    BY <1>2, <2>3, CallFacts DEF IInv, TypeInv, Uses, Idle
  <2>4. QED
    BY <1>1, <2>1, <2>2, <2>3 DEF IInv, KernelInv, In
<1>6. ASSUME NEW r \in Sems
      PROVE  IsFiniteSet(Posters(r)') /\ Cardinality(Posters(r)') + Count(r)' <= MaxCount
  <2>1. Posters(r)' \subseteq Posters(r)
    BY <1>1, <1>2 DEF IInv, TypeInv, Posters, Uses
  <2>2. CASE r # s
    <3>1. Count(r)' = Count(r) /\ Count(r) \in 0..MaxCount
      BY <1>2, <2>2, CountKept, CountType DEF IInv, TypeInv
    <3>2. QED
      BY <2>1, <3>1, RoomKept DEF IInv
  <2>3. CASE r = s
    <3>1. Posters(s) = {}
      BY <1>2 DEF Posters
    <3>2. Posters(s)' = {}
      BY <2>1, <2>3, <3>1
    <3>3. Count(s)' \in 0..MaxCount
      BY <1>2, IdFacts DEF IInv, TypeInv, Count
    <3>4. QED
      BY <2>3, <3>2, <3>3, FS_EmptySet, IdFacts
  <2>4. QED
    BY <2>2, <2>3
<1>7. RoomInv'
  BY <1>6 DEF RoomInv
<1>8. QED
  BY <1>3, <1>4, <1>5, <1>7 DEF IInv

LEMMA SemDestroyInv ==
  ASSUME SemAssumption, IInv, NEW t \in Threads, NEW s \in Sems, sem_destroy(t, s)
  PROVE  IInv'
<1>1. /\ \A u \in Threads : ~Uses(u, s)
      /\ slot[s] >= First /\ slot' = [slot EXCEPT ![s] = 0]
      /\ kernel' = [kernel EXCEPT ![slot[s]] = -1]
      /\ UNCHANGED <<bridge_lock, created, fails, clock, call, outcome>>
  BY DEF sem_destroy, Legal
<1>2. slot[s] \in Ids /\ 0 \in 0..MaxCount /\ 0 < First /\ First \in Nat /\ -1 \in -1..MaxCount
  BY <1>1, SlotFacts, IdFacts DEF IInv
<1>3. TypeInv'
  BY <1>1, <1>2 DEF IInv, TypeInv, Ids
<1>4. HandleInv'
  <2>1. \A r \in Sems : slot'[r] = IF r = s THEN 0 ELSE slot[r]
    BY <1>1 DEF IInv, TypeInv
  <2>2. \A r \in Sems : slot'[r] >= First => r # s /\ slot'[r] = slot[r] /\ slot[r] # slot[s]
    BY <1>1, <1>2, <2>1 DEF IInv, HandleInv
  <2>3. \A id \in Ids : kernel'[id] = IF id = slot[s] THEN -1 ELSE kernel[id]
    BY <1>1, <1>2 DEF IInv, TypeInv
  <2>4. \A id \in Ids : id >= First /\ id \in Nat
    BY IdFacts
  <2>5. \A r \in Sems : slot'[r] >= First => slot'[r] < First + created' /\ kernel'[slot'[r]] >= 0
    BY <1>1, <2>2, <2>3, SlotFacts DEF IInv, HandleInv
  <2>6. \A q, r \in Sems : slot'[r] >= First /\ slot'[q] = slot'[r] => q = r
    BY <2>2 DEF IInv, HandleInv
  <2>7. ASSUME NEW id \in Ids, kernel'[id] >= 0 PROVE \E r \in Sems : slot'[r] = id
    <3>1. id # slot[s] /\ kernel[id] >= 0
      BY <2>3, <2>7
    <3>2. PICK r \in Sems : slot[r] = id
      BY <3>1 DEF IInv, HandleInv
    <3>3. QED
      BY <2>1, <3>1, <3>2
  <2>8. QED
    BY <2>5, <2>6, <2>7 DEF HandleInv, Ids
<1>5. KernelInv'
  BY <1>1, CallFacts DEF IInv, TypeInv, KernelInv, In, Uses, Idle
<1>6. ASSUME NEW r \in Sems
      PROVE  IsFiniteSet(Posters(r)') /\ Cardinality(Posters(r)') + Count(r)' <= MaxCount
  <2>1. Posters(r)' \subseteq Posters(r)
    BY <1>1 DEF Posters, Uses
  <2>2. CASE r # s
    <3>1. slot'[r] = slot[r] /\ (slot[r] >= First => kernel'[slot[r]] = kernel[slot[r]])
      BY <1>1, <1>2, <2>2, SlotFacts DEF IInv, TypeInv, HandleInv
    <3>2. Count(r)' = Count(r) /\ Count(r) \in 0..MaxCount
      BY <3>1, CountKept, CountType DEF IInv
    <3>3. QED
      BY <2>1, <3>2, RoomKept DEF IInv
  <2>3. CASE r = s
    <3>1. Count(s)' = 0 /\ Count(s) \in 0..MaxCount
      BY <1>1, <1>2, CountType DEF IInv, TypeInv, Count
    <3>2. QED
      BY <2>1, <2>3, <3>1, RoomKept, IdFacts DEF IInv
  <2>4. QED
    BY <2>2, <2>3
<1>7. RoomInv'
  BY <1>6 DEF RoomInv
<1>8. QED
  BY <1>3, <1>4, <1>5, <1>7 DEF IInv

\* A step of ksem_get that creates nothing.
LEMMA MoveInv ==
  ASSUME SemAssumption, IInv, NEW t \in Threads, NEW p \in {"look", "lock", "again", "got"},
         call[t] \in Entered, call' = [call EXCEPT ![t].pc = p],
         UNCHANGED <<slot, kernel, created, clock, outcome>>,
         bridge_lock' \in Threads \cup {NoThread}, fails' \in 0..MaxFails
  PROVE  IInv'
<1> DEFINE c == [call[t] EXCEPT !.pc = p]
<1>1. c \in Entered /\ c.pc = p /\ c.op = call[t].op /\ c.sem = call[t].sem
  BY GotoFacts
<1>2. call[t] # Idle /\ call' = [call EXCEPT ![t] = c]
  BY DEF Entered, Idle
<1> HIDE DEF c
<1>3. TypeInv'
  BY <1>1, <1>2 DEF IInv, TypeInv, Ids
<1>4. HandleInv'
  BY DEF IInv, HandleInv, Ids
<1>5. KernelInv'
  BY <1>1, <1>2 DEF IInv, TypeInv, KernelInv, In
<1>6. ASSUME NEW r \in Sems
      PROVE  IsFiniteSet(Posters(r)') /\ Cardinality(Posters(r)') + Count(r)' <= MaxCount
  <2>1. Posters(r)' \subseteq Posters(r)
    BY <1>1, <1>2, FewerPosters DEF IInv
  <2>2. Count(r)' = Count(r) /\ Count(r) \in 0..MaxCount
    BY CountKept, CountType DEF IInv
  <2>3. QED
    BY <2>1, <2>2, RoomKept DEF IInv
<1>7. RoomInv'
  BY <1>6 DEF RoomInv
<1>8. QED
  BY <1>3, <1>4, <1>5, <1>7 DEF IInv

\* The creation: the slot counts as before, its handle is new.
LEMMA CreateInv ==
  ASSUME SemAssumption, IInv, NEW t \in Threads, In(t, "again"),
         slot[call[t].sem] < First, created < MaxHandles,
         kernel' = [kernel EXCEPT ![First + created] = slot[call[t].sem]],
         slot' = [slot EXCEPT ![call[t].sem] = First + created],
         created' = created + 1, bridge_lock' = NoThread, Goto(t, "got"),
         UNCHANGED <<fails, clock, outcome>>
  PROVE  IInv' /\ \A r \in Sems : Count(r)' = Count(r)
<1> DEFINE c == [call[t] EXCEPT !.pc = "got"]
           s == call[t].sem
           h == First + created
<1>1. call[t] \in Entered /\ call[t] # Idle /\ s \in Sems
  BY CallFacts DEF IInv, TypeInv, In, Entered, Idle
<1>2. c \in Entered /\ c.pc = "got" /\ c.op = call[t].op /\ c.sem = call[t].sem
  BY <1>1, GotoFacts
<1>3. call' = [call EXCEPT ![t] = c]
  BY DEF Goto
<1>4. h \in Ids /\ h \in Nat /\ First \in Nat /\ created \in Nat /\ h >= First
  BY IdFacts DEF IInv, TypeInv
<1>5. slot[s] \in 0..MaxCount /\ slot[s] < First
  BY <1>1, SlotFacts DEF IInv
<1>6. \A r \in Sems : slot[r] # h /\ slot[r] \in Nat
  BY <1>4, SlotFacts DEF IInv, HandleInv
<1> HIDE DEF c
<1>7. \A r \in Sems : slot'[r] = IF r = s THEN h ELSE slot[r]
  BY DEF IInv, TypeInv
<1>8. \A id \in Ids : kernel'[id] = IF id = h THEN slot[s] ELSE kernel[id]
  BY <1>4 DEF IInv, TypeInv
<1>9. TypeInv'
  <2>1. slot' \in [Sems -> 0..MaxCount \cup Ids] /\ kernel' \in [Ids -> -1..MaxCount]
    <3>1. slot[s] \in -1..MaxCount
      BY <1>5, IdFacts
    <3>2. kernel' = [kernel EXCEPT ![h] = slot[s]] /\ slot' = [slot EXCEPT ![s] = h]
      OBVIOUS
    <3> HIDE DEF s, h
    <3>3. kernel' \in [Ids -> -1..MaxCount]
      BY <3>1, <3>2 DEF IInv, TypeInv
    <3>4. slot' \in [Sems -> 0..MaxCount \cup Ids]
      BY <1>4, <3>2 DEF IInv, TypeInv
    <3>5. QED
      BY <3>3, <3>4
  <2>2. created' \in 0..MaxHandles
    BY <1>4, IdFacts DEF IInv, TypeInv
  <2>3. QED
    BY <1>2, <1>3, <2>1, <2>2 DEF IInv, TypeInv, Ids
<1> HIDE DEF s, h
<1>10. HandleInv'
  <2>1. \A r \in Sems : slot'[r] >= First => slot'[r] < First + created'
    BY <1>4, <1>6, <1>7 DEF IInv, HandleInv, h
  <2>2. \A r \in Sems : slot'[r] >= First => kernel'[slot'[r]] >= 0
    BY <1>5, <1>4, <1>6, <1>7, <1>8, SlotFacts DEF IInv, HandleInv
  <2>3. \A q, r \in Sems : slot'[r] >= First /\ slot'[q] = slot'[r] => q = r
    BY <1>6, <1>7 DEF IInv, HandleInv
  <2>4. ASSUME NEW id \in Ids, kernel'[id] >= 0 PROVE \E r \in Sems : slot'[r] = id
    <3>1. CASE id = h
      BY <1>1, <1>7, <3>1
    <3>2. CASE id # h
      <4>1. PICK r \in Sems : slot[r] = id
        BY <1>8, <2>4, <3>2 DEF IInv, HandleInv
      <4>2. r # s
        BY <1>5, <4>1, IdFacts
      <4>3. QED
        BY <1>7, <4>1, <4>2
    <3>3. QED
      BY <3>1, <3>2
  <2>5. QED
    BY <2>1, <2>2, <2>3, <2>4 DEF HandleInv, Ids
<1>11. ASSUME NEW r \in Sems
       PROVE  Count(r)' = Count(r) /\ Count(r) \in 0..MaxCount
  <2>1. Count(r) \in 0..MaxCount
    BY CountType DEF IInv
  <2>2. CASE r = s
    <3>1. ~(slot'[r] < First) /\ kernel'[slot'[r]] = slot[s]
      BY <1>4, <1>7, <1>8, <2>2
    <3>2. QED
      BY <1>5, <2>1, <2>2, <3>1 DEF Count
  <2>3. CASE r # s
    <3>1. slot'[r] = slot[r] /\ (slot[r] >= First => kernel'[slot[r]] = kernel[slot[r]])
      BY <1>6, <1>7, <1>8, <2>3, SlotFacts DEF IInv
    <3>2. QED
      BY <2>1, <3>1, CountKept DEF IInv
  <2>4. QED
    BY <2>2, <2>3
<1>12. RoomInv'
  <2>1. ASSUME NEW r \in Sems
        PROVE  IsFiniteSet(Posters(r)') /\ Cardinality(Posters(r)') + Count(r)' <= MaxCount
    <3>1. Posters(r)' \subseteq Posters(r)
      BY <1>1, <1>2, <1>3, FewerPosters DEF IInv
    <3>2. QED
      BY <1>11, <3>1, RoomKept DEF IInv
  <2>2. QED
    BY <2>1 DEF RoomInv
<1>13. KernelInv'
  <2>1. \A u \in Threads : call'[u] = IF u = t THEN c ELSE call[u]
    BY <1>3 DEF IInv, TypeInv
  <2>2. ASSUME NEW u \in Threads, call[u].pc = "kernel"
        PROVE  slot'[call[u].sem] = slot[call[u].sem]
    <3>1. call[u].id = slot[call[u].sem] /\ call[u].id \in Ids /\ call[u].sem \in Sems
      BY <2>2, CallFacts DEF IInv, TypeInv, KernelInv, In, Idle
    <3>2. call[u].sem # s
      BY <1>5, <3>1, IdFacts
    <3>3. QED
      BY <1>7, <3>1, <3>2
  <2>3. QED
    BY <1>1, <1>2, <2>1, <2>2 DEF IInv, KernelInv, In
<1>14. QED
  BY <1>9, <1>10, <1>11, <1>12, <1>13 DEF IInv

\* The end of a call that changes nothing in the kernel.
LEMMA ReturnInv ==
  ASSUME SemAssumption, IInv, NEW t \in Threads, NEW how \in Outcomes, call[t] # Idle,
         Return(t, how), UNCHANGED <<slot, bridge_lock, kernel, created, fails, clock>>
  PROVE  IInv'
<1>1. call' = [call EXCEPT ![t] = Idle] /\ outcome' = [outcome EXCEPT ![t] = how]
  BY DEF Return
<1>2. TypeInv'
  BY <1>1 DEF IInv, TypeInv, Ids
<1>3. HandleInv'
  BY DEF IInv, HandleInv, Ids
<1>4. KernelInv'
  BY <1>1 DEF IInv, TypeInv, KernelInv, In, Idle
<1>5. ASSUME NEW r \in Sems
      PROVE  IsFiniteSet(Posters(r)') /\ Cardinality(Posters(r)') + Count(r)' <= MaxCount
  <2>1. Posters(r)' \subseteq Posters(r)
    BY <1>1 DEF IInv, TypeInv, Posters, Uses
  <2>2. Count(r)' = Count(r) /\ Count(r) \in 0..MaxCount
    BY CountKept, CountType DEF IInv
  <2>3. QED
    BY <2>1, <2>2, RoomKept DEF IInv
<1>6. RoomInv'
  BY <1>5 DEF RoomInv
<1>7. QED
  BY <1>2, <1>3, <1>4, <1>6 DEF IInv

\* The slot read again: a timed wait gets its time here.
LEMMA GotInv ==
  ASSUME SemAssumption, IInv, NEW t \in Threads, Got(t)
  PROVE  IInv'
<1> DEFINE id == slot[call[t].sem]
           us == MicrosUntil(call[t].until, clock)
           timed == call[t].op = "timedwait" /\ us <= Forever
           wait == (IF timed THEN TimeoutOf(us) ELSE 0) * NanosPerMicro
           c == [pc |-> "kernel",
                 op |-> IF call[t].op = "timedwait" /\ ~timed THEN "wait" ELSE call[t].op,
                 sem |-> call[t].sem, until |-> call[t].until, id |-> id,
                 expires |-> clock + wait]
<1>1. call[t] \in Entered /\ call[t] # Idle /\ call[t].sem \in Sems /\ call[t].until \in Nat
  BY CallFacts DEF IInv, TypeInv, Got, In, Entered, Idle
<1>2. UNCHANGED <<slot, bridge_lock, kernel, created, fails, clock>>
  BY DEF Got
<1>3. \/ Return(t, "done") \/ Return(t, "failed")
      \/ /\ call[t].op # "init" /\ Alive(id)
         /\ call' = [call EXCEPT ![t] = c] /\ UNCHANGED outcome
  BY DEF Got
<1>4. CASE Return(t, "done") \/ Return(t, "failed")
  BY <1>1, <1>2, <1>4, ReturnInv DEF Outcomes
<1>5. CASE /\ call[t].op # "init" /\ Alive(id)
           /\ call' = [call EXCEPT ![t] = c] /\ UNCHANGED outcome
  <2>1. clock \in Nat /\ us \in Int
        /\ NanosPerMicro * us + NanosPerMicro > call[t].until - clock
    BY <1>1, MicrosBound, IdFacts DEF IInv, TypeInv
  <2>2. NanosPerMicro \in Nat \ {0}
    BY DEF SemAssumption
  <2>3. call[t].op \in Ops /\ id \in Ids
    BY <1>1, <1>5 DEF Entered, Alive
  <2> HIDE DEF us
  <2>4. TimeoutOf(us) \in Nat /\ TimeoutOf(us) >= us
    BY <2>1 DEF TimeoutOf
  <2>5. wait \in Nat
    <3>1. TimeoutOf(us) * NanosPerMicro \in Nat
      BY <2>2, <2>4
    <3>2. QED
      BY <2>2, <3>1
  <2>6. timed => clock + wait + NanosPerMicro > call[t].until
    <3> SUFFICES ASSUME timed PROVE clock + wait + NanosPerMicro > call[t].until
      OBVIOUS
    <3> DEFINE n == TimeoutOf(us)
    <3>1. wait = n * NanosPerMicro
      OBVIOUS
    <3>2. n \in Nat /\ n >= us
      BY <2>4
    <3> HIDE DEF n, wait, timed
    <3>3. n * NanosPerMicro = NanosPerMicro * us + NanosPerMicro * (n - us)
      BY <2>1, <2>2, <3>2
    <3>4. NanosPerMicro * (n - us) >= 0
      BY <2>1, <2>2, <3>2
    <3>5. n * NanosPerMicro \in Nat /\ NanosPerMicro * us \in Int
          /\ NanosPerMicro * (n - us) \in Int
      BY <2>1, <2>2, <3>2
    <3>6. QED
      BY <1>1, <2>1, <2>2, <3>1, <3>3, <3>4, <3>5
  <2>7. c.op \in Ops \ {"init"} /\ (c.op = "timedwait" => timed)
    BY <1>5, <2>3 DEF Ops
  <2> HIDE DEF wait, timed
  <2>8. c \in InKernel
    BY <1>1, <2>1, <2>3, <2>5, <2>7 DEF InKernel
  <2>9. c.pc = "kernel" /\ c.sem = call[t].sem /\ c.id = id /\ c # Idle
        /\ c.expires = clock + wait /\ c.until = call[t].until
        /\ (c.op = "post" => call[t].op = "post")
    BY DEF Idle
  <2> HIDE DEF c
  <2>10. TypeInv'
    BY <1>2, <1>5, <2>8 DEF IInv, TypeInv, Ids
  <2>11. HandleInv'
    BY <1>2 DEF IInv, HandleInv, Ids
  <2>12. KernelInv'
    BY <1>1, <1>2, <1>5, <2>6, <2>7, <2>9 DEF IInv, TypeInv, KernelInv, In
  <2>13. ASSUME NEW r \in Sems
         PROVE  IsFiniteSet(Posters(r)') /\ Cardinality(Posters(r)') + Count(r)' <= MaxCount
    <3>1. Posters(r)' \subseteq Posters(r)
      BY <1>1, <1>5, <2>9, FewerPosters DEF IInv
    <3>2. Count(r)' = Count(r) /\ Count(r) \in 0..MaxCount
      BY <1>2, CountKept, CountType DEF IInv
    <3>3. QED
      BY <3>1, <3>2, RoomKept DEF IInv
  <2>14. RoomInv'
    BY <2>13 DEF RoomInv
  <2>15. QED
    BY <2>10, <2>11, <2>12, <2>14 DEF IInv
<1>6. QED
  BY <1>3, <1>4, <1>5

\* What a call in the kernel changes is the count of its own slot.
LEMMA KernelFacts ==
  ASSUME SemAssumption, IInv, NEW t \in Threads, In(t, "kernel")
  PROVE  /\ call[t] \in InKernel /\ call[t] # Idle
         /\ call[t].sem \in Sems /\ call[t].id \in Ids /\ call[t].id = slot[call[t].sem]
         /\ slot[call[t].sem] >= First
         /\ Count(call[t].sem) = kernel[call[t].id]
         /\ kernel[call[t].id] \in 0..MaxCount
<1>1. call[t] \in InKernel /\ call[t] # Idle /\ call[t].sem \in Sems /\ call[t].id \in Ids
  BY CallFacts DEF IInv, TypeInv, In, InKernel, Idle
<1>2. call[t].id = slot[call[t].sem]
  BY DEF IInv, KernelInv
<1>3. slot[call[t].sem] >= First /\ ~(slot[call[t].sem] < First)
  BY <1>1, <1>2, IdFacts
<1>4. Count(call[t].sem) = kernel[call[t].id]
  BY <1>2, <1>3 DEF Count
<1>5. QED
  BY <1>1, <1>2, <1>3, <1>4, CountType DEF IInv

LEMMA ChangeInv ==
  ASSUME SemAssumption, IInv, NEW t \in Threads, In(t, "kernel"), NEW how \in Outcomes,
         NEW k \in 0..MaxCount, k <= Count(call[t].sem) \/
            (call[t].op = "post" /\ k = Count(call[t].sem) + 1),
         kernel' = [kernel EXCEPT ![call[t].id] = k],
         Return(t, how), UNCHANGED <<slot, bridge_lock, created, fails, clock>>
  PROVE  /\ IInv'
         /\ \A r \in Sems : Count(r)' = IF r = call[t].sem THEN k ELSE Count(r)
<1> DEFINE s == call[t].sem
<1>1. /\ call[t] \in InKernel /\ call[t] # Idle /\ s \in Sems
      /\ call[t].id \in Ids /\ call[t].id = slot[s] /\ slot[s] >= First
  BY KernelFacts
<1>2. call' = [call EXCEPT ![t] = Idle] /\ outcome' = [outcome EXCEPT ![t] = how]
  BY DEF Return
<1>3. k \in -1..MaxCount /\ First \in Nat
  BY IdFacts
<1> HIDE DEF s
<1>4. \A id \in Ids : kernel'[id] = IF id = slot[s] THEN k ELSE kernel[id]
  BY <1>1 DEF IInv, TypeInv
<1>5. TypeInv'
  BY <1>1, <1>2, <1>3 DEF IInv, TypeInv, Ids
<1>6. HandleInv'
  <2>1. \A r \in Sems : slot[r] >= First => kernel'[slot[r]] >= 0
    BY <1>4, SlotFacts DEF IInv, HandleInv
  <2>2. ASSUME NEW id \in Ids, kernel'[id] >= 0 PROVE \E r \in Sems : slot[r] = id
    BY <1>1, <1>4, <2>2 DEF IInv, HandleInv
  <2>3. QED
    BY <2>1, <2>2 DEF IInv, HandleInv, Ids
<1>7. KernelInv'
  BY <1>2 DEF IInv, TypeInv, KernelInv, In, Idle
<1>8. ASSUME NEW r \in Sems
      PROVE  /\ Count(r)' = IF r = s THEN k ELSE Count(r)
             /\ Count(r) \in 0..MaxCount
  <2>1. Count(r) \in 0..MaxCount
    BY CountType DEF IInv
  <2>2. CASE r = s
    <3>1. ~(slot'[s] < First) /\ kernel'[slot'[s]] = k
      BY <1>1, <1>3, <1>4, SlotFacts DEF IInv
    <3>2. QED
      BY <2>1, <2>2, <3>1 DEF Count
  <2>3. CASE r # s
    <3>1. slot[r] >= First => kernel'[slot[r]] = kernel[slot[r]]
      BY <1>1, <1>4, <2>3, SlotFacts DEF IInv, HandleInv
    <3>2. QED
      BY <2>1, <2>3, <3>1, CountKept DEF IInv
  <2>4. QED
    BY <2>2, <2>3
<1>9. RoomInv'
  <2>1. ASSUME NEW r \in Sems
        PROVE  IsFiniteSet(Posters(r)') /\ Cardinality(Posters(r)') + Count(r)' <= MaxCount
    <3>1. Posters(r)' \subseteq Posters(r)
      BY <1>2 DEF IInv, TypeInv, Posters, Uses
    <3>2. CASE r # s \/ k <= Count(r)
      BY <1>8, <3>1, <3>2, RoomKept DEF IInv
    <3>3. CASE r = s /\ call[t].op = "post" /\ k = Count(r) + 1
      <4>1. t \in Posters(r) /\ Posters(r)' = Posters(r) \ {t}
        BY <1>1, <1>2, <3>3 DEF IInv, TypeInv, Posters, Uses, s
      <4>2. IsFiniteSet(Posters(r)) /\ Cardinality(Posters(r)) \in Nat
            /\ Cardinality(Posters(r)) + Count(r) <= MaxCount
        BY FS_CardinalityType DEF IInv, RoomInv
      <4>3. IsFiniteSet(Posters(r)') /\ Cardinality(Posters(r)') = Cardinality(Posters(r)) - 1
        BY <4>1, <4>2, FS_RemoveElement
      <4>4. QED
        BY <1>8, <3>3, <4>2, <4>3, IdFacts
    <3>4. QED
      BY <3>2, <3>3 DEF s
  <2>2. QED
    BY <2>1 DEF RoomInv
<1>10. QED
  BY <1>5, <1>6, <1>7, <1>8, <1>9 DEF IInv, s

LEMMA PostSemaInv ==
  ASSUME SemAssumption, IInv, NEW t \in Threads, PostSema(t)
  PROVE  /\ IInv' /\ call[t] # Idle /\ call[t].sem \in Sems
         /\ \A r \in Sems :
               Count(r)' = IF r = call[t].sem THEN Count(call[t].sem) + 1 ELSE Count(r)
<1> DEFINE s == call[t].sem
           k == Count(s) + 1
<1>1. In(t, "kernel") /\ call[t].op = "post" /\ Return(t, "posted")
      /\ kernel' = [kernel EXCEPT ![call[t].id] = @ + 1]
      /\ UNCHANGED <<slot, bridge_lock, created, fails, clock>>
  BY DEF PostSema, PostOf
<1>2. call[t] # Idle /\ s \in Sems /\ call[t].id \in Ids /\ Count(s) = kernel[call[t].id]
      /\ Count(s) \in 0..MaxCount
  BY <1>1, KernelFacts
<1>3. kernel' = [kernel EXCEPT ![call[t].id] = k]
  BY <1>1, <1>2 DEF IInv, TypeInv
<1>4. k \in 0..MaxCount
  <2>1. t \in Posters(s)
    BY <1>1, <1>2 DEF Posters, Uses
  <2>2. IsFiniteSet(Posters(s)) /\ Cardinality(Posters(s)) + Count(s) <= MaxCount
    BY <1>2 DEF IInv, RoomInv
  <2>3. Cardinality(Posters(s)) \in Nat /\ Cardinality(Posters(s)) # 0
    BY <2>1, <2>2, FS_CardinalityType, FS_EmptySet
  <2>4. QED
    BY <1>2, <2>2, <2>3, IdFacts
<1>5. QED
  BY <1>1, <1>2, <1>3, <1>4, ChangeInv DEF Outcomes

LEMMA WaitSemaInv ==
  ASSUME SemAssumption, IInv, NEW t \in Threads, WaitSema(t)
  PROVE  /\ IInv' /\ call[t] # Idle /\ call[t].sem \in Sems /\ Count(call[t].sem) > 0
         /\ \A r \in Sems :
               Count(r)' = IF r = call[t].sem THEN Count(call[t].sem) - 1 ELSE Count(r)
<1> DEFINE s == call[t].sem
           k == Count(s) - 1
<1>1. In(t, "kernel") /\ kernel[call[t].id] > 0 /\ Return(t, "taken")
      /\ kernel' = [kernel EXCEPT ![call[t].id] = @ - 1]
      /\ UNCHANGED <<slot, bridge_lock, created, fails, clock>>
  BY DEF WaitSema
<1>2. call[t] # Idle /\ s \in Sems /\ call[t].id \in Ids /\ Count(s) = kernel[call[t].id]
      /\ Count(s) \in 0..MaxCount
  BY <1>1, KernelFacts
<1>3. kernel' = [kernel EXCEPT ![call[t].id] = k]
  BY <1>1, <1>2 DEF IInv, TypeInv
<1>4. k \in 0..MaxCount /\ k <= Count(s)
  BY <1>1, <1>2, IdFacts
<1>5. QED
  BY <1>1, <1>2, <1>3, <1>4, ChangeInv DEF Outcomes

LEMMA LookLockInv ==
  ASSUME SemAssumption, IInv, NEW t \in Threads, Look(t) \/ Lock(t)
  PROVE  IInv' /\ call[t] \in Entered /\ \E p \in {"lock", "again", "got"} : Goto(t, p)
<1>1. call[t] \in Entered
  BY CallFacts DEF IInv, TypeInv, Look, Lock, In, Entered, Idle
<1>2. CASE Look(t)
  <2>1. PICK p \in {"lock", "got"} : Goto(t, p)
    BY <1>2 DEF Look
  <2>2. bridge_lock' \in Threads \cup {NoThread} /\ fails' \in 0..MaxFails
    BY <1>2 DEF Look, IInv, TypeInv
  <2>3. IInv'
    BY <1>1, <1>2, <2>1, <2>2, MoveInv DEF Look, Goto
  <2>4. QED
    BY <1>1, <2>1, <2>3
<1>3. CASE Lock(t)
  <2>1. Goto(t, "again") /\ bridge_lock' \in Threads \cup {NoThread} /\ fails' \in 0..MaxFails
    BY <1>3 DEF Lock, IInv, TypeInv
  <2>2. IInv'
    BY <1>1, <1>3, <2>1, MoveInv DEF Lock, Goto
  <2>3. QED
    BY <1>1, <2>1, <2>2
<1>4. QED
  BY <1>2, <1>3

LEMMA CreateStepInv ==
  ASSUME SemAssumption, IInv, NEW t \in Threads, Create(t)
  PROVE  /\ IInv' /\ call[t] \in Entered /\ Goto(t, "got")
         /\ \A r \in Sems : Count(r)' = Count(r)
<1>1. call[t] \in Entered /\ In(t, "again") /\ Goto(t, "got") /\ bridge_lock' = NoThread
      /\ UNCHANGED <<clock, outcome>>
  BY CallFacts DEF IInv, TypeInv, Create, CreateIf, In, Entered, Idle
<1>2. CASE UNCHANGED <<slot, kernel, created>> /\ fails' \in 0..MaxFails
  <2>1. IInv'
    BY <1>1, <1>2, MoveInv DEF Goto
  <2>2. \A r \in Sems : Count(r)' = Count(r)
    BY <1>2, CountKept DEF IInv
  <2>3. QED
    BY <1>1, <2>1, <2>2
<1>3. CASE /\ SlotOf(t) < First /\ created < MaxHandles
           /\ kernel' = [kernel EXCEPT ![First + created] = SlotOf(t)]
           /\ slot' = [slot EXCEPT ![call[t].sem] = First + created]
           /\ created' = created + 1 /\ UNCHANGED fails
  BY <1>1, <1>3, CreateInv DEF SlotOf
<1>4. fails \in 0..MaxFails /\ (fails < MaxFails => fails + 1 \in 0..MaxFails)
  BY IdFacts DEF IInv, TypeInv
<1>5. QED
  BY <1>2, <1>3, <1>4 DEF Create, CreateIf

LEMMA TimeoutInv ==
  ASSUME SemAssumption, IInv, NEW t \in Threads, Timeout(t)
  PROVE  IInv' /\ call[t] # Idle
  BY KernelFacts, ReturnInv DEF Timeout, Outcomes

LEMMA TickInv ==
  ASSUME SemAssumption, IInv, Tick
  PROVE  IInv'
<1>1. clock' \in 0..MaxNow /\ UNCHANGED <<slot, bridge_lock, kernel, created, fails, call, outcome>>
  BY IdFacts DEF Tick, IInv, TypeInv
<1>2. TypeInv' /\ HandleInv' /\ KernelInv'
  BY <1>1 DEF IInv, TypeInv, HandleInv, KernelInv, Ids, In
<1>3. RoomInv'
  BY <1>1 DEF IInv, RoomInv, Posters, Uses, Count
<1>4. QED
  BY <1>2, <1>3 DEF IInv

LEMMA CallInv ==
  ASSUME SemAssumption, IInv, NEW t \in Threads, NEW s \in Sems,
         \/ \E op \in {"post", "wait", "trywait"} : Call(t, op, s)
         \/ \E d \in 0..MaxNow : sem_timedwait(t, s, d)
  PROVE  IInv'
<1>1. ASSUME NEW op \in {"post", "wait", "trywait"}, Call(t, op, s) PROVE IInv'
  BY <1>1, EnterInv DEF Call, Ops
<1>2. ASSUME NEW d \in 0..MaxNow, sem_timedwait(t, s, d) PROVE IInv'
  <2>1. d \in Nat
    BY IdFacts
  <2>2. QED
    BY <1>2, <2>1, EnterInv DEF sem_timedwait, Ops
<1>3. QED
  BY <1>1, <1>2

LEMMA StepCases ==
  ASSUME [Next]_vars
  PROVE  \/ UNCHANGED vars
         \/ Tick
         \/ \E t \in Threads :
               \/ Look(t) \/ Lock(t) \/ Create(t) \/ Got(t)
               \/ PostSema(t) \/ WaitSema(t) \/ Timeout(t)
         \/ \E t \in Threads, s \in Sems :
               \/ \E op \in {"post", "wait", "trywait"} : Call(t, op, s)
               \/ \E d \in 0..MaxNow : sem_timedwait(t, s, d)
               \/ \E v \in 0..MaxCount : sem_init(t, s, v)
               \/ sem_destroy(t, s)
  BY DEF Next, Step

LEMMA NextInv == ASSUME SemAssumption, IInv, [Next]_vars PROVE IInv'
<1>1. CASE UNCHANGED vars
  BY <1>1 DEF vars, IInv, TypeInv, HandleInv, RoomInv, KernelInv, Posters, Uses, Count, In, Ids
<1>2. CASE Tick
  BY <1>2, TickInv
<1>3. ASSUME NEW t \in Threads,
             \/ Look(t) \/ Lock(t) \/ Create(t) \/ Got(t)
             \/ PostSema(t) \/ WaitSema(t) \/ Timeout(t)
      PROVE  IInv'
  BY <1>3, LookLockInv, CreateStepInv, GotInv, PostSemaInv, WaitSemaInv, TimeoutInv
<1>4. ASSUME NEW t \in Threads, NEW s \in Sems,
             \/ \E op \in {"post", "wait", "trywait"} : Call(t, op, s)
             \/ \E d \in 0..MaxNow : sem_timedwait(t, s, d)
             \/ \E v \in 0..MaxCount : sem_init(t, s, v)
             \/ sem_destroy(t, s)
      PROVE  IInv'
  BY <1>4, CallInv, SemInitInv, SemDestroyInv
<1>5. QED
  BY <1>1, <1>2, <1>3, <1>4, StepCases

----------------------------------------------------------------------------
(* What holds of the semaphores. *)

LEMMA Invariant == ASSUME SemAssumption PROVE Spec => []IInv
<1>1. Init => IInv
  BY InitInv
<1>2. IInv /\ [Next]_vars => IInv'
  BY NextInv
<1>3. QED
  BY <1>1, <1>2, PTL DEF Spec

(* Every kernel semaphore is the one in a slot: threads that use a slot first
   never create two of which one would swallow posts, and one that is destroyed
   leaves none behind (pthread_bridge.c:182-190). *)
THEOREM NoneStray == ASSUME SemAssumption PROVE Spec => [](TypeOK /\ NoStray)
<1>1. IInv => TypeOK
  <2> SUFFICES ASSUME IInv PROVE TypeOK
    OBVIOUS
  <2>1. ASSUME NEW t \in Threads
        PROVE  call[t].pc \in {"idle", "look", "lock", "again", "got", "kernel"}
    BY DEF IInv, TypeInv, Entered, InKernel, Idle
  <2>2. QED
    BY <2>1 DEF IInv, TypeInv, TypeOK, Outcomes
<1>2. IInv => NoStray
  <2> SUFFICES ASSUME IInv, NEW id \in Ids, kernel[id] >= 0
               PROVE  Cardinality({s \in Sems : slot[s] = id}) = 1
    BY DEF NoStray
  <2>1. PICK s \in Sems : slot[s] = id
    BY DEF IInv, HandleInv
  <2>2. slot[s] >= First
    BY <2>1, SlotFacts DEF IInv
  <2>3. {r \in Sems : slot[r] = id} = {s}
    BY <2>1, <2>2 DEF IInv, HandleInv
  <2>4. QED
    BY <2>3, FS_Singleton
<1>3. QED
  BY <1>1, <1>2, Invariant, PTL

(* A timed wait that gives up does so no earlier than a microsecond before its
   deadline, whatever the two roundings do (pthread_bridge.c:195-204). *)
THEOREM OnTime == ASSUME SemAssumption PROVE Spec => NotEarly
<1> DEFINE Early(t) == In(t, "kernel") /\ call[t].op = "timedwait" /\ outcome'[t] = "failed"
<1>1. ASSUME IInv, [Next]_vars, NEW t \in Threads, Early(t)
      PROVE  clock + NanosPerMicro > call[t].until
  <2>1. call[t] # Idle /\ outcome[t] = "none" /\ call[t] \in InKernel
    BY <1>1, KernelFacts DEF IInv, KernelInv
  <2>2. ASSUME NEW u \in Threads, u # t,
               \/ Look(u) \/ Lock(u) \/ Create(u) \/ Got(u)
               \/ PostSema(u) \/ WaitSema(u) \/ Timeout(u)
        PROVE  outcome'[t] = outcome[t]
    BY <1>1, <2>2 DEF IInv, TypeInv, Look, Lock, Create, CreateIf, Got, PostSema, PostOf, WaitSema,
       Timeout, Return
  <2>3. ASSUME NEW u \in Threads, NEW s \in Sems,
               \/ \E op \in {"post", "wait", "trywait"} : Call(u, op, s)
               \/ \E d \in 0..MaxNow : sem_timedwait(u, s, d)
               \/ \E v \in 0..MaxCount : sem_init(u, s, v)
               \/ sem_destroy(u, s)
        PROVE  outcome'[t] = outcome[t]
    BY <1>1, <2>1, <2>3 DEF IInv, TypeInv, Call, sem_timedwait, sem_init, sem_destroy, Enter
  <2>4. UNCHANGED vars \/ Tick => outcome'[t] = outcome[t]
    BY DEF vars, Tick
  <2>5. ~Look(t) /\ ~Lock(t) /\ ~Create(t) /\ ~Got(t) /\ ~PostSema(t)
    BY <1>1 DEF In, Look, Lock, Create, Got, PostSema, PostOf
  <2>6. ~WaitSema(t)
    BY <1>1 DEF WaitSema, Return, IInv, TypeInv
  <2>7. Timeout(t)
    BY <1>1, <2>1, <2>2, <2>3, <2>4, <2>5, <2>6, StepCases
  <2>8. clock >= call[t].expires /\ call[t].expires + NanosPerMicro > call[t].until
    BY <1>1, <2>7 DEF Timeout, IInv, KernelInv
  <2>9. clock \in Nat /\ call[t].expires \in Nat /\ call[t].until \in Nat /\ NanosPerMicro \in Nat
    BY <1>1, <2>1, IdFacts DEF IInv, TypeInv, InKernel, SemAssumption
  <2>10. QED
    BY <2>8, <2>9
<1>2. IInv /\ [Next]_vars =>
        [\A t \in Threads :
            In(t, "kernel") /\ call[t].op = "timedwait" /\ outcome'[t] = "failed" =>
                clock + NanosPerMicro > call[t].until]_vars
  BY <1>1
<1>3. QED
  BY <1>2, Invariant, PTL DEF Spec, NotEarly

----------------------------------------------------------------------------
(* The refinement of CountingSem.  Its variables, over those of the slots: *)

GValue == [s \in Sems |-> Count(s)]
GUsing == [t \in Threads |-> IF call[t] = Idle THEN NoSem ELSE call[t].sem]

LEMMA Stutters ==
  ASSUME GValue' = GValue, GUsing' = GUsing, UNCHANGED outcome
  PROVE  UNCHANGED Abstract!vars
  BY DEF GValue, GUsing, Abstract!vars

\* A slot that counts as before everywhere is the same to the game.
LEMMA ValueKept ==
  ASSUME \A s \in Sems : Count(s)' = Count(s)
  PROVE  GValue' = GValue
  BY DEF GValue

LEMMA ValueOfKept ==
  ASSUME SemAssumption, IInv, UNCHANGED <<slot, kernel>>
  PROVE  GValue' = GValue
  BY ValueKept, CountKept DEF IInv

LEMMA UsingFacts ==
  ASSUME SemAssumption, IInv
  PROVE  \A t \in Threads, s \in Sems : GUsing[t] = s <=> Uses(t, s)
  BY CallFacts DEF IInv, TypeInv, GUsing, Uses, SemAssumption

\* Where a thread stays in its call, and where it leaves it.
LEMMA UsingKept ==
  ASSUME SemAssumption, IInv, NEW t \in Threads, NEW c, call[t] # Idle, c # Idle,
         c.sem = call[t].sem, call' = [call EXCEPT ![t] = c]
  PROVE  GUsing' = GUsing
  BY DEF IInv, TypeInv, GUsing

LEMMA UsingEnds ==
  ASSUME SemAssumption, IInv, NEW t \in Threads, NEW how, call[t] # Idle, Return(t, how)
  PROVE  /\ GUsing[t] # NoSem /\ GUsing[t] = call[t].sem
         /\ GUsing' = [GUsing EXCEPT ![t] = NoSem]
         /\ outcome' = [outcome EXCEPT ![t] = how]
<1>1. call[t].sem \in Sems
  BY CallFacts DEF IInv, TypeInv
<1>2. QED
  BY <1>1 DEF IInv, TypeInv, GUsing, Return, SemAssumption

LEMMA UsingBegins ==
  ASSUME SemAssumption, IInv, NEW t \in Threads, NEW c, NEW s \in Sems, call[t] = Idle, c # Idle,
         c.sem = s, Enter(t, c)
  PROVE  /\ GUsing[t] = NoSem
         /\ GUsing' = [GUsing EXCEPT ![t] = s]
         /\ outcome' = [outcome EXCEPT ![t] = "none"]
  BY DEF IInv, TypeInv, GUsing, Enter

\* The steps of ksem_get, and the one that hands the handle to the kernel.
LEMMA GetStutters ==
  ASSUME SemAssumption, IInv, NEW t \in Threads, Look(t) \/ Lock(t) \/ Create(t)
  PROVE  UNCHANGED Abstract!vars
<1>1. call[t] \in Entered /\ UNCHANGED outcome
  BY LookLockInv, CreateStepInv DEF Look, Lock, Create, CreateIf
<1>2. PICK p \in {"lock", "again", "got"} : Goto(t, p)
  BY LookLockInv, CreateStepInv
<1>3. GUsing' = GUsing
  <2> DEFINE c == [call[t] EXCEPT !.pc = p]
  <2>1. c # Idle /\ c.sem = call[t].sem /\ call[t] # Idle
    BY <1>1, GotoFacts DEF Idle, Entered
  <2>2. QED
    BY <1>2, <2>1, UsingKept DEF Goto
<1>4. GValue' = GValue
  <2>1. CASE Look(t) \/ Lock(t)
    BY <2>1, ValueOfKept DEF Look, Lock
  <2>2. CASE Create(t)
    BY <2>2, CreateStepInv, ValueKept
  <2>3. QED
    BY <2>1, <2>2
<1>5. QED
  BY <1>1, <1>3, <1>4, Stutters

LEMMA AbstractReturn ==
  ASSUME SemAssumption, IInv, NEW t \in Threads, NEW how \in {"done", "failed"}, call[t] # Idle,
         Return(t, how), UNCHANGED <<slot, kernel>>
  PROVE  Abstract!Next
<1>1. Abstract!Return(t, how)
  BY UsingEnds, ValueOfKept DEF Abstract!Return, Abstract!Ends, GValue, GUsing
<1>2. QED
  BY <1>1 DEF Abstract!Next

LEMMA GotMaps ==
  ASSUME SemAssumption, IInv, NEW t \in Threads, Got(t)
  PROVE  Abstract!Next \/ UNCHANGED Abstract!vars
<1>1. call[t] # Idle /\ UNCHANGED <<slot, kernel>>
  BY CallFacts DEF IInv, TypeInv, Got, In, Idle
<1>2. CASE Return(t, "done") \/ Return(t, "failed")
  BY <1>1, <1>2, AbstractReturn
<1>3. ASSUME NEW c, c.pc = "kernel", c.sem = call[t].sem, call' = [call EXCEPT ![t] = c],
             UNCHANGED outcome
      PROVE  UNCHANGED Abstract!vars
  <2>1. c # Idle
    BY <1>3 DEF Idle
  <2>2. GUsing' = GUsing
    BY <1>1, <1>3, <2>1, UsingKept
  <2>3. GValue' = GValue
    BY <1>1, ValueOfKept
  <2>4. QED
    BY <1>3, <2>2, <2>3, Stutters
<1>4. QED
  BY <1>2, <1>3 DEF Got

LEMMA PostMaps ==
  ASSUME SemAssumption, IInv, NEW t \in Threads, PostSema(t)
  PROVE  Abstract!Next
<1>1. Return(t, "posted")
  BY DEF PostSema, PostOf
<1>2. GValue' = [GValue EXCEPT ![GUsing[t]] = @ + 1]
  <2>1. \A r \in Sems :
          Count(r)' = IF r = call[t].sem THEN Count(call[t].sem) + 1 ELSE Count(r)
    BY PostSemaInv
  <2>2. GUsing[t] = call[t].sem
    BY <1>1, PostSemaInv, UsingEnds
  <2>3. QED
    BY <2>1, <2>2, PostSemaInv DEF GValue
<1>3. Abstract!Post(t)
  BY <1>1, <1>2, PostSemaInv, UsingEnds DEF Abstract!Post, Abstract!Ends, GValue, GUsing
<1>4. QED
  BY <1>3 DEF Abstract!Next

LEMMA WaitMaps ==
  ASSUME SemAssumption, IInv, NEW t \in Threads, WaitSema(t)
  PROVE  Abstract!Next
<1>1. Return(t, "taken")
  BY DEF WaitSema
<1>2. GUsing[t] = call[t].sem
  BY <1>1, WaitSemaInv, UsingEnds
<1>3. GValue' = [GValue EXCEPT ![GUsing[t]] = @ - 1] /\ GValue[GUsing[t]] > 0
  <2>1. \A r \in Sems :
          Count(r)' = IF r = call[t].sem THEN Count(call[t].sem) - 1 ELSE Count(r)
    BY WaitSemaInv
  <2>2. QED
    BY <1>2, <2>1, WaitSemaInv DEF GValue
<1>4. Abstract!Take(t)
  BY <1>1, <1>3, WaitSemaInv, UsingEnds DEF Abstract!Take, Abstract!Ends, GValue, GUsing
<1>5. QED
  BY <1>4 DEF Abstract!Next

LEMMA CallMaps ==
  ASSUME SemAssumption, IInv, NEW t \in Threads, NEW s \in Sems,
         \/ \E op \in {"post", "wait", "trywait"} : Call(t, op, s)
         \/ \E d \in 0..MaxNow : sem_timedwait(t, s, d)
  PROVE  Abstract!Next
<1>1. PICK op, d : /\ call[t] = Idle
                   /\ Enter(t, [pc |-> "look", op |-> op, sem |-> s, until |-> d])
                   /\ UNCHANGED <<slot, kernel>>
  BY DEF Call, sem_timedwait
<1>2. [pc |-> "look", op |-> op, sem |-> s, until |-> d] # Idle
  BY DEF Idle
<1>3. Abstract!Call(t, s)
  BY <1>1, <1>2, UsingBegins, ValueOfKept DEF Abstract!Call, Abstract!Begin, GValue, GUsing
<1>4. QED
  BY <1>3 DEF Abstract!Next

LEMMA InitMaps ==
  ASSUME SemAssumption, IInv, NEW t \in Threads, NEW s \in Sems, NEW v \in 0..MaxCount,
         sem_init(t, s, v)
  PROVE  Abstract!Next
<1>1. /\ call[t] = Idle /\ \A u \in Threads : ~Uses(u, s)
      /\ slot' = [slot EXCEPT ![s] = v] /\ UNCHANGED kernel
      /\ Enter(t, [pc |-> "look", op |-> "init", sem |-> s, until |-> 0])
  BY DEF sem_init, Legal
<1>2. [pc |-> "look", op |-> "init", sem |-> s, until |-> 0] # Idle
  BY DEF Idle
<1>3. Count(s)' = v /\ v \in Nat
  BY <1>1, IdFacts DEF IInv, TypeInv, Count
<1>4. \A r \in Sems : r # s => Count(r)' = Count(r)
  BY <1>1, CountKept DEF IInv, TypeInv
<1>5. GValue' = [GValue EXCEPT ![s] = GValue'[s]] /\ GValue'[s] \in Nat
  BY <1>3, <1>4 DEF GValue
<1>6. \A u \in Threads : GUsing[u] # s
  BY <1>1, UsingFacts
<1>7. Abstract!Initialise(t, s)
  BY <1>1, <1>2, <1>5, <1>6, UsingBegins
  DEF Abstract!Initialise, Abstract!Set, Abstract!Begin, GValue, GUsing
<1>8. QED
  BY <1>7 DEF Abstract!Next

LEMMA DestroyMaps ==
  ASSUME SemAssumption, IInv, NEW t \in Threads, NEW s \in Sems, sem_destroy(t, s)
  PROVE  Abstract!Next
<1>1. /\ \A u \in Threads : ~Uses(u, s)
      /\ slot[s] >= First /\ slot' = [slot EXCEPT ![s] = 0]
      /\ kernel' = [kernel EXCEPT ![slot[s]] = -1] /\ UNCHANGED <<call, outcome>>
  BY DEF sem_destroy, Legal
<1>2. slot[s] \in Ids /\ 0 < First
  BY <1>1, SlotFacts, IdFacts DEF IInv
<1>3. Count(s)' = 0
  BY <1>1, <1>2 DEF IInv, TypeInv, Count
<1>4. ASSUME NEW r \in Sems, r # s PROVE Count(r)' = Count(r)
  <2>1. slot'[r] = slot[r] /\ (slot[r] >= First => kernel'[slot[r]] = kernel[slot[r]])
    BY <1>1, <1>2, <1>4, SlotFacts DEF IInv, TypeInv, HandleInv
  <2>2. QED
    BY <2>1, CountKept DEF IInv
<1>5. GValue' = [GValue EXCEPT ![s] = GValue'[s]] /\ GValue'[s] = 0
  BY <1>3, <1>4 DEF GValue
<1>6. \A u \in Threads : GUsing[u] # s
  BY <1>1, UsingFacts
<1>7. GUsing' = GUsing
  BY <1>1 DEF GUsing
<1>8. Abstract!Destroy(s)
  BY <1>1, <1>5, <1>6, <1>7 DEF Abstract!Destroy, Abstract!Set, GValue, GUsing
<1>9. QED
  BY <1>8 DEF Abstract!Next

LEMMA StepMaps ==
  ASSUME SemAssumption, IInv, [Next]_vars
  PROVE  [Abstract!Next]_(Abstract!vars)
<1>1. CASE UNCHANGED vars \/ Tick
  BY <1>1, ValueOfKept, Stutters DEF vars, Tick, GUsing
<1>2. ASSUME NEW t \in Threads,
             \/ Look(t) \/ Lock(t) \/ Create(t) \/ Got(t)
             \/ PostSema(t) \/ WaitSema(t) \/ Timeout(t)
      PROVE  Abstract!Next \/ UNCHANGED Abstract!vars
  <2>1. CASE Timeout(t)
    BY <2>1, TimeoutInv, AbstractReturn DEF Timeout
  <2>2. QED
    BY <1>2, <2>1, GetStutters, GotMaps, PostMaps, WaitMaps
<1>3. ASSUME NEW t \in Threads, NEW s \in Sems,
             \/ \E op \in {"post", "wait", "trywait"} : Call(t, op, s)
             \/ \E d \in 0..MaxNow : sem_timedwait(t, s, d)
             \/ \E v \in 0..MaxCount : sem_init(t, s, v)
             \/ sem_destroy(t, s)
      PROVE  Abstract!Next
  BY <1>3, CallMaps, InitMaps, DestroyMaps
<1>4. QED
  BY <1>1, <1>2, <1>3, StepCases

(* The slots are counting semaphores: before, during and after the creation of
   what is behind them, also when the kernel refuses to create it, each call
   takes effect at once and at most once (pthread_bridge.c:172-206). *)
THEOREM Refinement == ASSUME SemAssumption PROVE Spec => ImplementsSemaphore
<1>1. Init => Abstract!Init
  <2> SUFFICES ASSUME Init PROVE Abstract!Init
    OBVIOUS
  <2>1. \A s \in Sems : Count(s) \in Nat
    BY IdFacts DEF Init, Count
  <2>2. GValue \in [Sems -> Nat] /\ GUsing = [t \in Threads |-> NoSem]
    BY <2>1 DEF Init, GValue, GUsing
  <2>3. QED
    BY <2>2 DEF Abstract!Init, Init, GValue, GUsing
<1>2. IInv /\ [Next]_vars => [Abstract!Next]_(Abstract!vars)
  BY StepMaps
<1>3. QED
  BY <1>1, <1>2, Invariant, PTL DEF Spec, ImplementsSemaphore, Abstract!Spec
=============================================================================

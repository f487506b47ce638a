------------------------ MODULE PthreadBridge_proofs ------------------------
(***************************************************************************)
(* Mutex and condition slots, for any number of threads and slots.  Three  *)
(* things carry the argument: a slot that is being initialised or          *)
(* destroyed is in no other call (the game's side of the bargain); what a  *)
(* thread that holds bridge_lock makes is seen by nobody before it is      *)
(* stored; and once a slot is bridged it stays so, with the same object,   *)
(* while any call is on it.  The refinement of Monitor adds what the       *)
(* objects hold.                                                           *)
(*                                                                         *)
(* Then the parts that MCPthreadClients and MCPthreadBridge compose with   *)
(* them: the once slots, the creation of threads, and the semaphores, for  *)
(* which PthreadSem_proofs has the argument.                               *)
(***************************************************************************)
EXTENDS MCPthreadBridge, MCPthreadClients, FiniteSetTheorems, SequenceTheorems, WellFoundedInduction, TLAPS

Objects == [mutex : BOOLEAN, kind : Kinds, live : BOOLEAN, owner : Threads \cup {NoThread},
            depth : Int, waiting : SUBSET Threads, woken : SUBSET Threads]

TypeInv ==
    /\ heap \in Seq(Objects)
    /\ TypeOK
    /\ call \in [Threads -> Calls \cup {NoCall}]

Locking == {"create", "publish", "release"}
Getting == Locking \cup {"acquire", "reread"}

\* Who is where.  A thread in mutex_get is about a slot of its call.
PcInv ==
    \A t \in Threads :
        /\ pc[t] = "idle" <=> call[t] = NoCall
        /\ todo[t] \subseteq SlotsOf(call[t])
        /\ pc[t] \in Getting => cur[t] \in todo[t]
        /\ pc[t] = "asleep" => call[t].op \in WaitOps /\ todo[t] = {}
        /\ call[t].op = "destroy" => pc[t] = "resolve" /\ todo[t] = {}
        /\ pc[t] \in Locking <=> lock = t

\* The slot of an init or a destroy is in no other call.
OneHolder ==
    \A t, u \in Threads : \A s \in SlotsOf(call[t]) \cap SlotsOf(call[u]) :
        call[t].op \in ResetOps => t = u

\* An object is behind one slot at most, and then it is live.
SlotInv ==
    /\ \A s \in Slots : Bridged(s) => heap[slot[s].obj].live
    /\ \A s, r \in Slots : Bridged(s) /\ slot[s].obj = slot[r].obj => s = r

\* What a thread is making, that it made, or that it found made.
MakeInv ==
    \A t \in Threads :
        /\ pc[t] \in {"create", "publish"} => ~Bridged(cur[t])
        /\ pc[t] \in {"release", "reread"} => Bridged(cur[t])
        /\ pc[t] = "publish" =>
              LET o == got[t][cur[t]] IN
              /\ o # 0 /\ heap[o] = Object(cur[t], KindOf(slot[cur[t]].init))
              /\ \A s \in Slots : slot[s].obj # o

\* What a thread has got is the object of the slot, except in the midst of
\* making it; it has got all that it has not still to do.
GotInv ==
    \A t \in Threads, s \in Slots :
        /\ got[t][s] # 0 =>
              /\ s \in SlotsOf(call[t]) /\ call[t].op # "destroy"
              /\ s \in todo[t] => s = cur[t] /\ pc[t] \in {"publish", "release", "reread"}
              /\ ~(pc[t] = "publish" /\ s = cur[t]) => got[t][s] = slot[s].obj
        /\ s \in SlotsOf(call[t]) \ todo[t] /\ call[t].op # "destroy" => got[t][s] # 0

BridgeInv == TypeInv /\ PcInv /\ OneHolder /\ SlotInv /\ MakeInv /\ GotInv
IInv == BridgeInv /\ NoOrphan

----------------------------------------------------------------------------
(* Calls, objects and the heap. *)

LEMMA CallFacts ==
  ASSUME NEW k \in Calls
  PROVE  /\ k # NoCall /\ k.op # "none" /\ SlotsOf(k) \subseteq Slots
         /\ k.op \in MutexOps => k.m \in Mutexes /\ SlotsOf(k) = {k.m}
         /\ k.op \in ResetOps => k.m \in Slots /\ SlotsOf(k) = {k.m}
         /\ k.op \in CondOps => k.c \in Conds /\ SlotsOf(k) = {k.c}
         /\ k.op \in WaitOps => k.c \in Conds /\ k.m \in Mutexes /\ SlotsOf(k) = {k.c, k.m}
         /\ k.op \in MutexOps \cup ResetOps \cup CondOps \cup WaitOps
<1> USE DEF NoCall, SlotsOf, Slots, MutexOps, ResetOps, CondOps, WaitOps
<1>1. CASE k \in [op : MutexOps, m : Mutexes]
  BY <1>1
<1>2. CASE k \in [op : {"init"}, m : Mutexes, type : 0..2]
  BY <1>2
<1>3. CASE k \in [op : {"init"}, m : Conds, type : {0}]
  BY <1>3
<1>4. CASE k \in [op : {"destroy"}, m : Slots]
  BY <1>4
<1>5. CASE k \in [op : CondOps, c : Conds]
  BY <1>5
<1>6. CASE k \in [op : WaitOps, c : Conds, m : Mutexes]
  BY <1>6
<1>7. QED
  BY <1>1, <1>2, <1>3, <1>4, <1>5, <1>6 DEF Calls

LEMMA NoCallFacts == SlotsOf(NoCall) = {} /\ NoCall.op = "none"
  BY DEF SlotsOf, NoCall

LEMMA InitCallType ==
  ASSUME NEW k \in Calls, k.op = "init"
  PROVE  WordOf(k.type) \in Words /\ KindOf(WordOf(k.type)) \in Kinds
  BY DEF WordOf, Words, KindOf, Kinds

LEMMA KindType == \A w : KindOf(w) \in Kinds
  BY DEF KindOf, Kinds

LEMMA ObjectType == \A s : \A k \in Kinds : Object(s, k) \in Objects
  BY DEF Object, Objects

\* A heap whose objects are changed in place.
LEMMA SeqUpdate ==
  ASSUME NEW S, NEW q \in Seq(S), NEW r, r = [i \in DOMAIN q |-> r[i]],
         \A i \in 1..Len(q) : r[i] \in S
  PROVE  r \in Seq(S) /\ Len(r) = Len(q)
<1>1. DOMAIN q = 1..Len(q) /\ Len(q) \in Nat
  OBVIOUS
<1>2. r \in [1..Len(q) -> S]
  BY <1>1
<1>3. QED
  BY <1>1, <1>2

LEMMA InitInv == Init => IInv
<1> SUFFICES ASSUME Init PROVE IInv
  OBVIOUS
<1>1. heap \in Seq(Objects) /\ Len(heap) = 0
  BY DEF Init
<1>2. TypeInv
  BY <1>1, NoCallFacts DEF Init, TypeInv, TypeOK, Words, Slots
<1>3. \A s \in Slots : slot[s].obj = 0
  BY DEF Init
<1>4. PcInv
  BY ModelAssumption, NoCallFacts DEF Init, PcInv, Getting, Locking
<1>5. OneHolder
  BY NoCallFacts DEF Init, OneHolder
<1>6. SlotInv
  BY <1>3 DEF SlotInv, Bridged
<1>7. MakeInv /\ GotInv
  BY NoCallFacts DEF Init, MakeInv, GotInv
<1>8. NoOrphan
  BY <1>1 DEF NoOrphan
<1>9. QED
  BY <1>2, <1>4, <1>5, <1>6, <1>7, <1>8 DEF IInv, BridgeInv

----------------------------------------------------------------------------
(* The entry of a call. *)

LEMMA CallInv ==
  ASSUME IInv, NEW t \in Threads, NEW k \in Calls, Call(t, k)
  PROVE  IInv'
<1>1. /\ pc[t] = "idle" /\ Legal(t, k)
      /\ pc' = [pc EXCEPT ![t] = "resolve"]
      /\ call' = [call EXCEPT ![t] = k]
      /\ todo' = [todo EXCEPT ![t] = IF k.op = "destroy" THEN {} ELSE SlotsOf(k)]
      /\ slot' = IF k.op = "init" THEN [slot EXCEPT ![k.m].init = WordOf(k.type)] ELSE slot
      /\ UNCHANGED <<lock, heap, cur, got>>
  BY DEF Call
<1>2. /\ k # NoCall /\ k.op # "none" /\ SlotsOf(k) \subseteq Slots
      /\ k.op \in ResetOps => k.m \in Slots /\ SlotsOf(k) = {k.m}
  BY CallFacts
<1>3. call[t] = NoCall /\ SlotsOf(call[t]) = {} /\ todo[t] = {}
  BY <1>1, NoCallFacts DEF IInv, BridgeInv, PcInv
<1>4. \A s \in Slots : got[t][s] = 0
  BY <1>3 DEF IInv, BridgeInv, GotInv
\* Neither is the slot of a reset in another call, nor that of another in a reset.
<1>5. \A u \in Threads, s \in SlotsOf(k) :
         s \in SlotsOf(call[u]) => call[u].op \notin ResetOps /\ k.op \notin ResetOps
  BY <1>1, <1>2 DEF Legal, BeingReset, InUse, ResetOps
<1>6. /\ call'[t] = k /\ pc'[t] = "resolve"
      /\ todo'[t] = IF k.op = "destroy" THEN {} ELSE SlotsOf(k)
      /\ \A u \in Threads : u # t => call'[u] = call[u] /\ pc'[u] = pc[u] /\ todo'[u] = todo[u]
  BY <1>1 DEF IInv, BridgeInv, TypeInv, TypeOK
<1>7. /\ slot' \in [Slots -> [init : Words, obj : 0..Len(heap)]]
      /\ \A s \in Slots : slot'[s].obj = slot[s].obj
      /\ \A s \in Slots : ~(k.op = "init" /\ s = k.m) => slot'[s] = slot[s]
  <2>1. CASE k.op = "init"
    <3>1. k.m \in Slots /\ WordOf(k.type) \in Words
      BY <1>2, <2>1, InitCallType DEF ResetOps
    <3>2. slot \in [Slots -> [init : Words, obj : 0..Len(heap)]]
      BY DEF IInv, BridgeInv, TypeInv, TypeOK
    <3>3. slot' = [slot EXCEPT ![k.m] = [slot[k.m] EXCEPT !.init = WordOf(k.type)]]
      BY <1>1, <2>1
    <3>4. LET v == [slot[k.m] EXCEPT !.init = WordOf(k.type)] IN
          v \in [init : Words, obj : 0..Len(heap)] /\ v.obj = slot[k.m].obj
      BY <3>1, <3>2
    <3>5. slot'[k.m].obj = slot[k.m].obj /\ \A s \in Slots : s # k.m => slot'[s] = slot[s]
      BY <3>1, <3>2, <3>3
    <3>6. slot' \in [Slots -> [init : Words, obj : 0..Len(heap)]]
      BY <3>2, <3>3, <3>4
    <3>7. QED
      BY <2>1, <3>5, <3>6
  <2>2. CASE k.op # "init"
    BY <1>1, <2>2 DEF IInv, BridgeInv, TypeInv, TypeOK
  <2>3. QED
    BY <2>1, <2>2
<1>8. TypeInv'
  BY <1>1, <1>2, <1>7 DEF IInv, BridgeInv, TypeInv, TypeOK
<1>9. PcInv'
  BY <1>1, <1>2, <1>3, <1>6 DEF IInv, BridgeInv, PcInv, Getting, Locking, WaitOps
<1>10. OneHolder'
  BY <1>2, <1>3, <1>5, <1>6 DEF IInv, BridgeInv, OneHolder
<1>11. SlotInv'
  BY <1>1, <1>7 DEF IInv, BridgeInv, SlotInv, Bridged
<1>12. MakeInv'
  <2>1. \A u \in Threads : pc[u] \in Getting => cur[u] \in Slots /\ slot'[cur[u]] = slot[cur[u]]
    <3>1. SUFFICES ASSUME NEW u \in Threads, pc[u] \in Getting
                   PROVE  cur[u] \in Slots /\ slot'[cur[u]] = slot[cur[u]]
      OBVIOUS
    <3>2. cur[u] \in SlotsOf(call[u]) /\ cur[u] \in Slots
      BY <3>1 DEF IInv, BridgeInv, PcInv, TypeInv, TypeOK
    <3>3. ~(k.op = "init" /\ cur[u] = k.m)
      BY <1>2, <1>5, <3>2 DEF ResetOps
    <3>4. QED
      BY <1>7, <3>2, <3>3
  <2>2. \A u \in Threads : pc'[u] \in Getting => pc[u] = pc'[u]
    BY <1>6 DEF Getting, Locking
  <2>3. QED
    BY <1>1, <1>7, <2>1, <2>2 DEF IInv, BridgeInv, MakeInv, Bridged, Getting, Locking
<1>13. GotInv'
  BY <1>1, <1>2, <1>4, <1>6, <1>7 DEF IInv, BridgeInv, GotInv
<1>14. NoOrphan'
  BY <1>1, <1>6, <1>7 DEF IInv, NoOrphan
<1>15. QED
  BY <1>8, <1>9, <1>10, <1>11, <1>12, <1>13, <1>14 DEF IInv, BridgeInv

----------------------------------------------------------------------------
(* mutex_get and cond_get. *)

\* Who is making an object keeps it.
LEMMA NoOrphanKept ==
  ASSUME NoOrphan, UNCHANGED <<slot, heap>>,
         \A u \in Threads : pc[u] = "publish" =>
            pc'[u] = "publish" /\ got'[u][cur'[u]] = got[u][cur[u]]
  PROVE  NoOrphan'
<1>1. SUFFICES ASSUME NEW o \in 1..Len(heap), heap[o].live
               PROVE  \/ \E s \in Slots : slot[s].obj = o
                      \/ \E u \in Threads : pc'[u] = "publish" /\ got'[u][cur'[u]] = o
  BY DEF NoOrphan
<1>2. QED
  BY <1>1 DEF NoOrphan

\* A thread that looks at a bridged slot of its call has its object.
LEMMA ResolvedGot ==
  ASSUME IInv, NEW t \in Threads, NEW s \in todo[t], Resolved(t, s), Bridged(s),
         call[t].op # "destroy", UNCHANGED <<slot, call>>,
         pc'[t] = "resolve", \A u \in Threads : u # t => pc'[u] = pc[u] /\ cur'[u] = cur[u],
         pc[t] \in {"resolve", "reread"}, pc[t] = "reread" => s = cur[t]
  PROVE  /\ GotInv'
         /\ todo' \in [Threads -> SUBSET Slots] /\ todo'[t] = todo[t] \ {s}
         /\ got' \in [Threads -> [Slots -> 0..Len(heap)]]
         /\ \A u \in Threads : u # t => got'[u] = got[u] /\ todo'[u] = todo[u]
<1>1. /\ got' = [got EXCEPT ![t][s] = slot[s].obj]
      /\ todo' = [todo EXCEPT ![t] = todo[t] \ {s}]
  BY DEF Resolved
<1>2. /\ s \in Slots /\ s \in SlotsOf(call[t])
      /\ slot[s].obj \in 0..Len(heap) /\ slot[s].obj # 0
  BY DEF IInv, BridgeInv, TypeInv, TypeOK, PcInv, Bridged
<1>3. /\ todo' \in [Threads -> SUBSET Slots] /\ todo'[t] = todo[t] \ {s}
      /\ got' \in [Threads -> [Slots -> 0..Len(heap)]]
      /\ \A u \in Threads : u # t => got'[u] = got[u] /\ todo'[u] = todo[u]
      /\ got'[t][s] = slot[s].obj
      /\ \A r \in Slots : r # s => got'[t][r] = got[t][r]
  BY <1>1, <1>2 DEF IInv, BridgeInv, TypeInv, TypeOK
<1>4. ASSUME NEW u \in Threads, u # t, NEW r \in Slots
      PROVE  /\ got'[u][r] # 0 =>
                   /\ r \in SlotsOf(call'[u]) /\ call'[u].op # "destroy"
                   /\ r \in todo'[u] => r = cur'[u] /\ pc'[u] \in {"publish", "release", "reread"}
                   /\ ~(pc'[u] = "publish" /\ r = cur'[u]) => got'[u][r] = slot'[r].obj
             /\ r \in SlotsOf(call'[u]) \ todo'[u] /\ call'[u].op # "destroy" => got'[u][r] # 0
  <2>1. /\ got'[u] = got[u] /\ todo'[u] = todo[u] /\ pc'[u] = pc[u] /\ cur'[u] = cur[u]
        /\ call' = call /\ slot' = slot
    BY <1>3, <1>4
  <2>2. GotInv
    BY DEF IInv, BridgeInv
  <2>3. QED
    BY <2>1, <2>2 DEF GotInv
<1>5. ASSUME NEW r \in Slots
      PROVE  /\ got'[t][r] # 0 =>
                   /\ r \in SlotsOf(call'[t]) /\ call'[t].op # "destroy"
                   /\ r \notin todo'[t] /\ got'[t][r] = slot'[r].obj
             /\ r \in SlotsOf(call'[t]) \ todo'[t] => got'[t][r] # 0
  <2>1. CASE r = s
    BY <1>2, <1>3, <2>1
  <2>2. CASE r # s
    BY <1>3, <2>2 DEF IInv, BridgeInv, GotInv
  <2>3. QED
    BY <2>1, <2>2
<1>6. GotInv'
  BY <1>4, <1>5 DEF GotInv
<1>7. QED
  BY <1>3, <1>6

LEMMA FastPathInv ==
  ASSUME IInv, NEW t \in Threads, NEW s \in Slots, FastPath(t, s)
  PROVE  IInv'
<1>1. /\ pc[t] = "resolve" /\ s \in todo[t] /\ Bridged(s) /\ Resolved(t, s)
      /\ UNCHANGED <<slot, lock, heap, pc, call, cur>>
  BY DEF FastPath
<1>2. call[t].op # "destroy"
  BY <1>1 DEF IInv, BridgeInv, PcInv
<1>3. /\ GotInv'
      /\ todo' \in [Threads -> SUBSET Slots] /\ todo'[t] = todo[t] \ {s}
      /\ got' \in [Threads -> [Slots -> 0..Len(heap)]]
      /\ \A u \in Threads : u # t => got'[u] = got[u] /\ todo'[u] = todo[u]
  BY <1>1, <1>2, ResolvedGot
<1>4. TypeInv'
  BY <1>1, <1>3 DEF IInv, BridgeInv, TypeInv, TypeOK
<1>5. PcInv'
  BY <1>1, <1>2, <1>3 DEF IInv, BridgeInv, PcInv, Getting, Locking
<1>6. OneHolder' /\ SlotInv'
  BY <1>1 DEF IInv, BridgeInv, OneHolder, SlotInv, Bridged
<1>7. MakeInv'
  BY <1>1, <1>3 DEF IInv, BridgeInv, MakeInv, Bridged
<1>8. NoOrphan'
  BY <1>1, <1>3, NoOrphanKept DEF IInv
<1>9. QED
  BY <1>3, <1>4, <1>5, <1>6, <1>7, <1>8 DEF IInv, BridgeInv

LEMMA SlowPathInv ==
  ASSUME IInv, NEW t \in Threads, NEW s \in Slots, SlowPath(t, s)
  PROVE  IInv'
<1>1. /\ pc[t] = "resolve" /\ s \in todo[t]
      /\ pc' = [pc EXCEPT ![t] = "acquire"]
      /\ cur' = [cur EXCEPT ![t] = s]
      /\ UNCHANGED <<slot, lock, heap, call, todo, got>>
  BY DEF SlowPath
<1>2. /\ pc'[t] = "acquire" /\ cur'[t] = s
      /\ \A u \in Threads : u # t => pc'[u] = pc[u] /\ cur'[u] = cur[u]
  BY <1>1 DEF IInv, BridgeInv, TypeInv, TypeOK
<1>3. TypeInv'
  BY <1>1 DEF IInv, BridgeInv, TypeInv, TypeOK
<1>4. PcInv'
  BY <1>1, <1>2 DEF IInv, BridgeInv, PcInv, Getting, Locking
<1>5. OneHolder' /\ SlotInv'
  BY <1>1 DEF IInv, BridgeInv, OneHolder, SlotInv, Bridged
<1>6. MakeInv'
  BY <1>1, <1>2 DEF IInv, BridgeInv, MakeInv, Bridged
<1>7. NoOrphan'
  BY <1>1, <1>2 DEF IInv, NoOrphan
<1>8. GotInv'
  BY <1>1, <1>2 DEF IInv, BridgeInv, GotInv
<1>9. QED
  BY <1>3, <1>4, <1>5, <1>6, <1>7, <1>8 DEF IInv, BridgeInv

LEMMA AcquireInv ==
  ASSUME IInv, NEW t \in Threads, Acquire(t)
  PROVE  IInv'
<1> DEFINE next == IF Bridged(cur[t]) THEN "release" ELSE "create"
<1>1. /\ pc[t] = "acquire" /\ lock = NoThread /\ lock' = t
      /\ pc' = [pc EXCEPT ![t] = next]
      /\ UNCHANGED <<slot, heap, call, todo, cur, got>>
  BY DEF Acquire, AcquireThen
<1>2. /\ pc'[t] = next /\ \A u \in Threads : u # t => pc'[u] = pc[u]
  BY <1>1 DEF IInv, BridgeInv, TypeInv, TypeOK
<1>3. TypeInv'
  BY <1>1 DEF IInv, BridgeInv, TypeInv, TypeOK
<1>4. PcInv'
  BY <1>1, <1>2, ModelAssumption DEF IInv, BridgeInv, PcInv, Getting, Locking
<1>5. OneHolder' /\ SlotInv'
  BY <1>1 DEF IInv, BridgeInv, OneHolder, SlotInv, Bridged
<1>6. MakeInv'
  BY <1>1, <1>2 DEF IInv, BridgeInv, MakeInv, Bridged
<1>7. NoOrphan'
  BY <1>1, <1>2 DEF IInv, NoOrphan
<1>8. GotInv'
  BY <1>1, <1>2 DEF IInv, BridgeInv, GotInv
<1>9. QED
  BY <1>3, <1>4, <1>5, <1>6, <1>7, <1>8 DEF IInv, BridgeInv

LEMMA CreateInv ==
  ASSUME IInv, NEW t \in Threads, Create(t)
  PROVE  IInv'
<1> DEFINE s == cur[t]
           new == Object(s, KindOf(slot[s].init))
           n == Len(heap) + 1
<1>1. /\ pc[t] = "create" /\ heap' = Append(heap, new)
      /\ got' = [got EXCEPT ![t][s] = n]
      /\ pc' = [pc EXCEPT ![t] = "publish"]
      /\ UNCHANGED <<slot, lock, call, todo, cur>>
  BY DEF Create, CreateAs
<1>2. /\ s \in todo[t] /\ s \in Slots /\ s \in SlotsOf(call[t]) /\ ~Bridged(s)
      /\ call[t].op # "destroy"
  BY <1>1 DEF IInv, BridgeInv, PcInv, MakeInv, TypeInv, TypeOK, Getting, Locking
<1>3. new \in Objects /\ new.live
  BY ObjectType, KindType DEF Object
<1>4. Len(heap) \in Nat /\ heap \in Seq(Objects)
  BY DEF IInv, BridgeInv, TypeInv
<1> HIDE DEF new, s
<1>5. /\ heap' \in Seq(Objects) /\ Len(heap') = n /\ heap'[n] = new
      /\ \A o \in 1..Len(heap) : heap'[o] = heap[o]
  BY <1>1, <1>3, <1>4
<1>6. /\ pc'[t] = "publish" /\ got'[t][s] = n
      /\ \A r \in Slots : r # s => got'[t][r] = got[t][r]
      /\ \A u \in Threads : u # t => pc'[u] = pc[u] /\ got'[u] = got[u]
  BY <1>1, <1>2 DEF IInv, BridgeInv, TypeInv, TypeOK
<1>7. \A r \in Slots : slot[r].obj \in 0..Len(heap)
  BY DEF IInv, BridgeInv, TypeInv, TypeOK
<1>8. TypeInv'
  <2>1. got' \in [Threads -> [Slots -> 0..Len(heap')]]
    BY <1>1, <1>2, <1>4, <1>5 DEF IInv, BridgeInv, TypeInv, TypeOK
  <2>2. slot' \in [Slots -> [init : Words, obj : 0..Len(heap')]]
    BY <1>1, <1>4, <1>5 DEF IInv, BridgeInv, TypeInv, TypeOK
  <2>3. QED
    BY <1>1, <1>5, <2>1, <2>2 DEF IInv, BridgeInv, TypeInv, TypeOK
<1>9. PcInv'
  BY <1>1, <1>6 DEF IInv, BridgeInv, PcInv, Getting, Locking
<1>10. OneHolder'
  BY <1>1 DEF IInv, BridgeInv, OneHolder
<1>11. SlotInv'
  BY <1>1, <1>4, <1>5, <1>7 DEF IInv, BridgeInv, SlotInv, Bridged
\* Two threads do not create at the same time.
<1>12. \A u \in Threads : u # t => pc[u] \notin Locking
  BY <1>1 DEF IInv, BridgeInv, PcInv, Locking
<1>13. MakeInv'
  <2>1. ASSUME NEW u \in Threads, u # t
        PROVE  /\ pc'[u] \notin {"create", "publish", "release"}
               /\ pc'[u] = "reread" => Bridged(cur[u])
    BY <1>6, <1>12, <2>1 DEF IInv, BridgeInv, MakeInv, Locking
  <2>2. n # 0 /\ \A r \in Slots : slot[r].obj # n
    BY <1>4, <1>7
  <2>3. QED
    BY <1>1, <1>2, <1>5, <1>6, <2>1, <2>2 DEF MakeInv, Bridged, new, s
<1>14. GotInv'
  BY <1>1, <1>2, <1>4, <1>6 DEF IInv, BridgeInv, GotInv, s
<1>15. NoOrphan'
  <2>1. ASSUME NEW o \in 1..Len(heap), heap[o].live
        PROVE  \E r \in Slots : slot[r].obj = o
    BY <1>1, <1>12, <2>1 DEF IInv, NoOrphan, Locking
  <2>2. QED
    BY <1>1, <1>4, <1>5, <1>6, <2>1 DEF NoOrphan, s
<1>16. QED
  BY <1>8, <1>9, <1>10, <1>11, <1>13, <1>14, <1>15 DEF IInv, BridgeInv

LEMMA PublishInv ==
  ASSUME IInv, NEW t \in Threads, Publish(t)
  PROVE  IInv'
<1> DEFINE s == cur[t]
           o == got[t][s]
<1>1. /\ pc[t] = "publish"
      /\ slot' = [slot EXCEPT ![s] = [init |-> 0, obj |-> o]]
      /\ pc' = [pc EXCEPT ![t] = "release"]
      /\ UNCHANGED <<lock, heap, call, todo, cur, got>>
  BY DEF Publish
<1>2. /\ s \in todo[t] /\ s \in Slots /\ s \in SlotsOf(call[t]) /\ ~Bridged(s)
      /\ o # 0 /\ o \in 0..Len(heap)
      /\ heap[o] = Object(s, KindOf(slot[s].init))
      /\ \A r \in Slots : slot[r].obj # o
  BY <1>1 DEF IInv, BridgeInv, PcInv, MakeInv, TypeInv, TypeOK, Getting, Locking
<1>3. heap[o].live
  BY <1>2 DEF Object
<1> HIDE DEF s, o
<1>4. /\ slot' \in [Slots -> [init : Words, obj : 0..Len(heap)]]
      /\ slot'[s].obj = o /\ \A r \in Slots : r # s => slot'[r] = slot[r]
      /\ pc'[t] = "release" /\ \A u \in Threads : u # t => pc'[u] = pc[u]
  BY <1>1, <1>2 DEF IInv, BridgeInv, TypeInv, TypeOK, Words
<1>5. \A u \in Threads : u # t => pc[u] \notin Locking
  BY <1>1 DEF IInv, BridgeInv, PcInv, Locking
<1>6. TypeInv'
  BY <1>1, <1>4 DEF IInv, BridgeInv, TypeInv, TypeOK
<1>7. PcInv'
  BY <1>1, <1>4 DEF IInv, BridgeInv, PcInv, Getting, Locking
<1>8. OneHolder'
  BY <1>1 DEF IInv, BridgeInv, OneHolder
<1>9. SlotInv'
  BY <1>1, <1>2, <1>3, <1>4 DEF IInv, BridgeInv, SlotInv, Bridged
<1>10. MakeInv'
  <2>1. ASSUME NEW u \in Threads, u # t
        PROVE  pc'[u] \notin Locking /\ (pc'[u] = "reread" => cur[u] \in Slots /\ Bridged(cur[u]))
    BY <1>4, <1>5, <2>1 DEF IInv, BridgeInv, MakeInv, PcInv, Getting, TypeInv, TypeOK
  <2>2. \A r \in Slots : Bridged(r) => Bridged(r)'
    BY <1>2, <1>4 DEF Bridged
  <2>3. slot'[s].obj # 0 /\ cur'[t] = s
    BY <1>1, <1>2, <1>4 DEF s
  <2>4. QED
    BY <1>1, <1>4, <2>1, <2>2, <2>3 DEF MakeInv, Bridged, Locking
<1>11. GotInv'
  <2>1. ASSUME NEW u \in Threads, got[u][s] # 0 PROVE u = t
    <3>1. slot[s].obj = 0
      BY <1>2 DEF Bridged
    <3>2. pc[u] = "publish"
      BY <1>2, <2>1, <3>1 DEF IInv, BridgeInv, GotInv
    <3>3. QED
      BY <1>5, <3>2 DEF Locking
  <2>2. ASSUME NEW u \in Threads, NEW r \in Slots, got[u][r] # 0
        PROVE  /\ r \in SlotsOf(call[u]) /\ call[u].op # "destroy"
               /\ r \in todo[u] => r = cur[u] /\ pc'[u] \in {"publish", "release", "reread"}
               /\ got[u][r] = slot'[r].obj
    <3>1. r \in todo[u] => r = cur[u] /\ pc'[u] \in {"publish", "release", "reread"}
      BY <1>4, <2>2 DEF IInv, BridgeInv, GotInv
    <3>2. CASE r = s
      BY <1>4, <2>1, <2>2, <3>1, <3>2 DEF IInv, BridgeInv, GotInv, o
    <3>3. CASE r # s
      <4>1. ~(pc[u] = "publish" /\ r = cur[u])
        BY <1>5, <3>3 DEF Locking, s
      <4>2. QED
        BY <1>4, <2>2, <3>1, <3>3, <4>1 DEF IInv, BridgeInv, GotInv
    <3>4. QED
      BY <3>2, <3>3
  <2>3. \A u \in Threads, r \in Slots :
           r \in SlotsOf(call[u]) \ todo[u] /\ call[u].op # "destroy" => got[u][r] # 0
    BY DEF IInv, BridgeInv, GotInv
  <2>4. QED
    BY <1>1, <2>2, <2>3 DEF GotInv
<1>12. NoOrphan'
  <2>1. ASSUME NEW x \in 1..Len(heap), heap[x].live
        PROVE  \E r \in Slots : slot'[r].obj = x
    <3>1. CASE x = o
      BY <1>2, <1>4, <3>1
    <3>2. CASE x # o
      <4>1. \A u \in Threads : ~(pc[u] = "publish" /\ got[u][cur[u]] = x)
        BY <1>5, <3>2 DEF Locking, s, o
      <4>2. PICK r \in Slots : slot[r].obj = x
        BY <2>1, <4>1 DEF IInv, NoOrphan
      <4>3. r # s
        BY <1>2, <2>1, <4>2 DEF Bridged
      <4>4. QED
        BY <1>4, <4>2, <4>3
    <3>3. QED
      BY <3>1, <3>2
  <2>2. QED
    BY <1>1, <2>1 DEF NoOrphan
<1>13. QED
  BY <1>6, <1>7, <1>8, <1>9, <1>10, <1>11, <1>12 DEF IInv, BridgeInv

LEMMA ReleaseInv ==
  ASSUME IInv, NEW t \in Threads, Release(t)
  PROVE  IInv'
<1>1. /\ pc[t] = "release" /\ lock' = NoThread
      /\ pc' = [pc EXCEPT ![t] = "reread"]
      /\ UNCHANGED <<slot, heap, call, todo, cur, got>>
  BY DEF Release
<1>2. /\ pc'[t] = "reread" /\ \A u \in Threads : u # t => pc'[u] = pc[u]
  BY <1>1 DEF IInv, BridgeInv, TypeInv, TypeOK
<1>3. \A u \in Threads : u # t => pc[u] \notin Locking
  BY <1>1 DEF IInv, BridgeInv, PcInv, Locking
<1>4. TypeInv'
  BY <1>1 DEF IInv, BridgeInv, TypeInv, TypeOK
<1>5. PcInv'
  BY <1>1, <1>2, <1>3, ModelAssumption DEF IInv, BridgeInv, PcInv, Getting, Locking
<1>6. OneHolder' /\ SlotInv'
  BY <1>1 DEF IInv, BridgeInv, OneHolder, SlotInv, Bridged
<1>7. MakeInv'
  BY <1>1, <1>2 DEF IInv, BridgeInv, MakeInv, Bridged
<1>8. NoOrphan'
  BY <1>1, <1>2 DEF IInv, NoOrphan
<1>9. GotInv'
  BY <1>1, <1>2 DEF IInv, BridgeInv, GotInv
<1>10. QED
  BY <1>4, <1>5, <1>6, <1>7, <1>8, <1>9 DEF IInv, BridgeInv

LEMMA RereadInv ==
  ASSUME IInv, NEW t \in Threads, Reread(t)
  PROVE  IInv'
<1> DEFINE s == cur[t]
<1>1. /\ pc[t] = "reread" /\ Resolved(t, s)
      /\ pc' = [pc EXCEPT ![t] = "resolve"]
      /\ cur' = [cur EXCEPT ![t] = NoSlot]
      /\ UNCHANGED <<slot, lock, heap, call>>
  BY DEF Reread
<1>2. /\ pc'[t] = "resolve" /\ cur'[t] = NoSlot
      /\ \A u \in Threads : u # t => pc'[u] = pc[u] /\ cur'[u] = cur[u]
  BY <1>1 DEF IInv, BridgeInv, TypeInv, TypeOK
<1>3. s \in todo[t] /\ Bridged(s) /\ call[t].op # "destroy"
  BY <1>1 DEF IInv, BridgeInv, PcInv, MakeInv, Getting
<1>4. /\ GotInv'
      /\ todo' \in [Threads -> SUBSET Slots] /\ todo'[t] = todo[t] \ {s}
      /\ got' \in [Threads -> [Slots -> 0..Len(heap)]]
      /\ \A u \in Threads : u # t => got'[u] = got[u] /\ todo'[u] = todo[u]
  BY <1>1, <1>2, <1>3, ResolvedGot
<1>5. TypeInv'
  BY <1>1, <1>4 DEF IInv, BridgeInv, TypeInv, TypeOK
<1>6. PcInv'
  BY <1>1, <1>2, <1>3, <1>4 DEF IInv, BridgeInv, PcInv, Getting, Locking
<1>7. OneHolder' /\ SlotInv'
  BY <1>1 DEF IInv, BridgeInv, OneHolder, SlotInv, Bridged
<1>8. MakeInv'
  <2>1. SUFFICES ASSUME NEW u \in Threads
                 PROVE  /\ pc'[u] \in {"create", "publish"} => slot'[cur'[u]].obj = 0
                        /\ pc'[u] \in {"release", "reread"} => slot'[cur'[u]].obj # 0
                        /\ pc'[u] = "publish" =>
                              LET o == got'[u][cur'[u]] IN
                              /\ o # 0 /\ heap'[o] = Object(cur'[u], KindOf(slot'[cur'[u]].init))
                              /\ \A r \in Slots : slot'[r].obj # o
    BY DEF MakeInv, Bridged
  <2>2. CASE u = t
    BY <1>2, <2>2
  <2>3. CASE u # t
    <3>1. pc'[u] = pc[u] /\ cur'[u] = cur[u] /\ got'[u] = got[u] /\ slot' = slot /\ heap' = heap
      BY <1>1, <1>2, <1>4, <2>3
    <3>2. MakeInv
      BY DEF IInv, BridgeInv
    <3>3. QED
      BY <3>1, <3>2 DEF MakeInv, Bridged
  <2>4. QED
    BY <2>2, <2>3
<1>9. NoOrphan'
  BY <1>1, <1>2, <1>4, NoOrphanKept DEF IInv
<1>10. QED
  BY <1>4, <1>5, <1>6, <1>7, <1>8, <1>9 DEF IInv, BridgeInv

----------------------------------------------------------------------------
(* The calls into vitasdk. *)

\* What they leave alone: which objects there are, what they are, and the
\* object nobody's slot has.
SameObjects ==
    /\ heap' \in Seq(Objects) /\ Len(heap') = Len(heap)
    /\ \A o \in 1..Len(heap) :
          /\ heap'[o].live = heap[o].live /\ heap'[o].mutex = heap[o].mutex
          /\ heap'[o].kind = heap[o].kind
          /\ (\A s \in Slots : slot[s].obj # o) => heap'[o] = heap[o]

\* A thread past mutex_get and cond_get has the live objects of its slots.
LEMMA GotObject ==
  ASSUME IInv, NEW t \in Threads, pc[t] \in {"resolve", "asleep"}, todo[t] = {},
         call[t].op # "destroy", NEW s \in SlotsOf(call[t])
  PROVE  /\ s \in Slots /\ Bridged(s) /\ got[t][s] = slot[s].obj
         /\ slot[s].obj \in 1..Len(heap) /\ heap[slot[s].obj] \in Objects
         /\ Behind(s) = heap[slot[s].obj]
<1>1. call[t] \in Calls \cup {NoCall}
  BY DEF IInv, BridgeInv, TypeInv, TypeOK
<1>2. s \in Slots
  BY <1>1, CallFacts, NoCallFacts
<1>3. got[t][s] # 0 /\ got[t][s] = slot[s].obj
  BY <1>2 DEF IInv, BridgeInv, GotInv
<1>4. Len(heap) \in Nat /\ slot[s].obj \in 0..Len(heap) /\ heap \in Seq(Objects)
  BY <1>2 DEF IInv, BridgeInv, TypeInv, TypeOK
<1>5. slot[s].obj \in 1..Len(heap)
  BY <1>3, <1>4
<1>6. QED
  BY <1>2, <1>3, <1>4, <1>5 DEF Bridged, Behind

\* A change of the objects the slots have.
LEMMA ObjectsKept ==
  ASSUME IInv, heap' = [o \in DOMAIN heap |-> heap'[o]],
         \A o \in 1..Len(heap) :
            /\ heap'[o] \in Objects
            /\ heap'[o].live = heap[o].live /\ heap'[o].mutex = heap[o].mutex
            /\ heap'[o].kind = heap[o].kind
            /\ (\A s \in Slots : slot[s].obj # o) => heap'[o] = heap[o]
  PROVE  SameObjects
<1>1. heap \in Seq(Objects)
  BY DEF IInv, BridgeInv, TypeInv
<1>2. heap' \in Seq(Objects) /\ Len(heap') = Len(heap)
  BY <1>1, SeqUpdate
<1>3. QED
  BY <1>2 DEF SameObjects

LEMMA HeapSame == IInv /\ UNCHANGED heap => SameObjects
  BY DEF IInv, BridgeInv, TypeInv, SameObjects

\* The step to the objects of a call ends it, or its thread sleeps on.
LEMMA UseInv ==
  ASSUME IInv, NEW t \in Threads, pc[t] \in {"resolve", "asleep"}, todo[t] = {},
         SameObjects, UNCHANGED <<slot, lock, todo, cur>>,
         \/ Return(t)
         \/ /\ call[t].op \in WaitOps
            /\ pc' = [pc EXCEPT ![t] = "asleep"]
            /\ UNCHANGED <<call, got>>
  PROVE  IInv'
<1>1. /\ heap' \in Seq(Objects) /\ Len(heap') = Len(heap) /\ Len(heap) \in Nat
      /\ \A o \in 1..Len(heap) :
            /\ heap'[o].live = heap[o].live
            /\ (\A s \in Slots : slot[s].obj # o) => heap'[o] = heap[o]
  BY DEF SameObjects, IInv, BridgeInv, TypeInv
<1>2. /\ pc' \in [Threads -> {"idle", "resolve", "acquire", "create", "publish",
                              "release", "reread", "asleep"}]
      /\ call' \in [Threads -> Calls \cup {NoCall}]
      /\ got' \in [Threads -> [Slots -> 0..Len(heap)]]
  <2>1. [r \in Slots |-> 0] \in [Slots -> 0..Len(heap)]
    BY <1>1
  <2>2. CASE Return(t)
    BY <2>1, <2>2 DEF Return, IInv, BridgeInv, TypeInv, TypeOK
  <2>3. CASE pc' = [pc EXCEPT ![t] = "asleep"] /\ UNCHANGED <<call, got>>
    BY <2>3 DEF IInv, BridgeInv, TypeInv, TypeOK
  <2>4. QED
    BY <2>2, <2>3
<1>3. \A u \in Threads : u # t => pc'[u] = pc[u] /\ call'[u] = call[u] /\ got'[u] = got[u]
  BY DEF Return, IInv, BridgeInv, TypeInv, TypeOK
<1>4. \/ pc'[t] = "idle" /\ call'[t] = NoCall /\ got'[t] = [s \in Slots |-> 0]
      \/ pc'[t] = "asleep" /\ call[t].op \in WaitOps /\ call'[t] = call[t] /\ got'[t] = got[t]
  BY DEF Return, IInv, BridgeInv, TypeInv, TypeOK
<1>5. UNCHANGED <<slot, lock, todo, cur>>
  OBVIOUS
<1>6. TypeInv'
  BY <1>1, <1>2, <1>5 DEF IInv, BridgeInv, TypeInv, TypeOK
<1>7. PcInv'
  BY <1>3, <1>4, <1>5, NoCallFacts DEF IInv, BridgeInv, PcInv, Getting, Locking, WaitOps
<1>8. OneHolder'
  BY <1>3, <1>4, NoCallFacts DEF IInv, BridgeInv, OneHolder
<1>9. SlotInv'
  <2>1. \A s \in Slots : slot[s].obj \in 0..Len(heap)
    BY DEF IInv, BridgeInv, TypeInv, TypeOK
  <2>2. QED
    BY <1>1, <1>5, <2>1 DEF IInv, BridgeInv, SlotInv, Bridged
<1>10. MakeInv'
  <2>1. SUFFICES ASSUME NEW u \in Threads
                 PROVE  /\ pc'[u] \in {"create", "publish"} => slot[cur[u]].obj = 0
                        /\ pc'[u] \in {"release", "reread"} => slot[cur[u]].obj # 0
                        /\ pc'[u] = "publish" =>
                              LET o == got'[u][cur[u]] IN
                              /\ o # 0 /\ heap'[o] = Object(cur[u], KindOf(slot[cur[u]].init))
                              /\ \A r \in Slots : slot[r].obj # o
    BY <1>5 DEF MakeInv, Bridged
  <2>2. CASE u = t
    BY <1>4, <2>2
  <2>3. CASE u # t
    <3>1. pc'[u] = pc[u] /\ got'[u] = got[u]
      BY <1>3, <2>3
    <3>2. pc[u] = "publish" =>
             /\ got[u][cur[u]] \in 1..Len(heap)
             /\ \A r \in Slots : slot[r].obj # got[u][cur[u]]
      <4>1. SUFFICES ASSUME pc[u] = "publish"
                     PROVE  /\ got[u][cur[u]] \in 1..Len(heap)
                            /\ \A r \in Slots : slot[r].obj # got[u][cur[u]]
        OBVIOUS
      <4>2. cur[u] \in Slots
        BY <4>1 DEF IInv, BridgeInv, PcInv, TypeInv, TypeOK, Getting, Locking
      <4>3. got[u][cur[u]] \in 0..Len(heap) /\ got[u][cur[u]] # 0
        BY <4>1, <4>2 DEF IInv, BridgeInv, MakeInv, TypeInv, TypeOK
      <4>4. QED
        BY <1>1, <4>1, <4>3 DEF IInv, BridgeInv, MakeInv
    <3>3. QED
      BY <1>1, <3>1, <3>2 DEF IInv, BridgeInv, MakeInv, Bridged
  <2>4. QED
    BY <2>2, <2>3
<1>11. GotInv'
  <2>1. SUFFICES ASSUME NEW u \in Threads, NEW s \in Slots
                 PROVE  /\ got'[u][s] # 0 =>
                             /\ s \in SlotsOf(call'[u]) /\ call'[u].op # "destroy"
                             /\ s \in todo[u] =>
                                   s = cur[u] /\ pc'[u] \in {"publish", "release", "reread"}
                             /\ ~(pc'[u] = "publish" /\ s = cur[u]) => got'[u][s] = slot[s].obj
                        /\ s \in SlotsOf(call'[u]) \ todo[u] /\ call'[u].op # "destroy" =>
                              got'[u][s] # 0
    BY <1>5 DEF GotInv
  <2>2. GotInv
    BY DEF IInv, BridgeInv
  <2>3. CASE u = t
    BY <1>4, <2>2, <2>3, NoCallFacts DEF GotInv
  <2>4. CASE u # t
    BY <1>3, <2>2, <2>4 DEF GotInv
  <2>5. QED
    BY <2>3, <2>4
<1>12. NoOrphan'
  <2>1. SUFFICES ASSUME NEW o \in 1..Len(heap), heap[o].live
                 PROVE  \/ \E s \in Slots : slot[s].obj = o
                        \/ \E u \in Threads : pc'[u] = "publish" /\ got'[u][cur[u]] = o
    BY <1>1, <1>5 DEF NoOrphan
  <2>2. CASE \E s \in Slots : slot[s].obj = o
    BY <2>2
  <2>3. CASE \E u \in Threads : pc[u] = "publish" /\ got[u][cur[u]] = o
    BY <1>3, <2>3
  <2>4. QED
    BY <2>1, <2>2, <2>3 DEF IInv, NoOrphan
<1>13. QED
  BY <1>6, <1>7, <1>8, <1>9, <1>10, <1>11, <1>12 DEF IInv, BridgeInv

\* An object with a new owner, and one with other waiters.
Owned(x, u, d) == [x EXCEPT !.owner = u, !.depth = d]
Queued(x, a, b) == [x EXCEPT !.waiting = a, !.woken = b]

LEMMA OwnedType ==
  ASSUME NEW x \in Objects, NEW u \in Threads \cup {NoThread}, NEW d \in Int
  PROVE  /\ Owned(x, u, d) \in Objects /\ Owned(x, u, d).live = x.live
         /\ Owned(x, u, d).mutex = x.mutex /\ Owned(x, u, d).kind = x.kind
         /\ Owned(x, u, d).owner = u /\ Owned(x, u, d).depth = d
         /\ Owned(x, u, d).waiting = x.waiting /\ Owned(x, u, d).woken = x.woken
  BY DEF Objects, Owned

LEMMA QueuedType ==
  ASSUME NEW x \in Objects, NEW a \in SUBSET Threads, NEW b \in SUBSET Threads
  PROVE  /\ Queued(x, a, b) \in Objects /\ Queued(x, a, b).live = x.live
         /\ Queued(x, a, b).mutex = x.mutex /\ Queued(x, a, b).kind = x.kind
         /\ Queued(x, a, b).owner = x.owner /\ Queued(x, a, b).depth = x.depth
         /\ Queued(x, a, b).waiting = a /\ Queued(x, a, b).woken = b
  BY DEF Objects, Queued

\* One object changed, but for what it is.
LEMMA OneObjectKept ==
  ASSUME IInv, NEW t \in Threads, pc[t] \in {"resolve", "asleep"}, todo[t] = {},
         call[t].op # "destroy", NEW s \in SlotsOf(call[t]),
         NEW x \in Objects, x.live = heap[got[t][s]].live, x.mutex = heap[got[t][s]].mutex,
         x.kind = heap[got[t][s]].kind,
         heap' = [heap EXCEPT ![got[t][s]] = x]
  PROVE  SameObjects
<1>1. s \in Slots /\ got[t][s] = slot[s].obj /\ got[t][s] \in 1..Len(heap)
  BY GotObject
<1>2. heap \in Seq(Objects)
  BY DEF IInv, BridgeInv, TypeInv
<1>3. heap' = [o \in DOMAIN heap |-> heap'[o]]
  BY <1>2
<1>4. \A o \in 1..Len(heap) :
         /\ heap'[o] \in Objects
         /\ heap'[o].live = heap[o].live /\ heap'[o].mutex = heap[o].mutex
         /\ heap'[o].kind = heap[o].kind
         /\ (\A r \in Slots : slot[r].obj # o) => heap'[o] = heap[o]
  BY <1>1, <1>2
<1>5. QED
  BY <1>3, <1>4, ObjectsKept

LEMMA LockMutexInv ==
  ASSUME IInv, NEW t \in Threads, LockMutex(t)
  PROVE  IInv'
<1> DEFINE o == got[t][call[t].m]
           x == Owned(heap[o], t, heap[o].depth + 1)
<1>1. /\ pc[t] = "resolve" /\ todo[t] = {} /\ call[t].op \in {"lock", "trylock"}
      /\ heap' = [heap EXCEPT ![o].owner = t, ![o].depth = @ + 1]
      /\ Return(t)
  BY DEF LockMutex, Ready, Mutex
<1>2. call[t].m \in SlotsOf(call[t])
  <2>1. call[t] \in Calls /\ call[t].op \in MutexOps
    BY <1>1, NoCallFacts DEF IInv, BridgeInv, TypeInv, TypeOK, MutexOps
  <2>2. QED
    BY <2>1, CallFacts
<1>3. o \in 1..Len(heap) /\ heap[o] \in Objects /\ heap \in Seq(Objects)
  BY <1>1, <1>2, GotObject DEF IInv, BridgeInv, TypeInv
<1> HIDE DEF o
<1>4. x \in Objects /\ x.live = heap[o].live /\ x.mutex = heap[o].mutex /\ x.kind = heap[o].kind
  <2>1. heap[o].depth + 1 \in Int
    BY <1>3 DEF Objects
  <2>2. QED
    BY <1>3, <2>1, OwnedType
<1>5. heap' = [heap EXCEPT ![o] = x]
  BY <1>1, <1>3 DEF Objects, Owned, Queued
<1> HIDE DEF x
<1>6. SameObjects
  <2>1. pc[t] \in {"resolve", "asleep"} /\ todo[t] = {} /\ call[t].op # "destroy"
    BY <1>1
  <2>2. QED
    BY <1>2, <1>4, <1>5, <2>1, OneObjectKept DEF o
<1>7. QED
  BY <1>1, <1>6, UseInv DEF Return

LEMMA LockRefusedInv ==
  ASSUME IInv, NEW t \in Threads, LockRefused(t)
  PROVE  IInv'
  BY HeapSame, UseInv DEF LockRefused, Ready, Return

LEMMA InitDoneInv ==
  ASSUME IInv, NEW t \in Threads, InitDone(t)
  PROVE  IInv'
  BY HeapSame, UseInv DEF InitDone, Ready, Return

LEMMA UnlockMutexInv ==
  ASSUME IInv, NEW t \in Threads, UnlockMutex(t)
  PROVE  IInv'
<1> DEFINE o == got[t][call[t].m]
           who == IF heap[o].depth = 1 THEN NoThread ELSE heap[o].owner
           x == Owned(heap[o], who, heap[o].depth - 1)
<1>1. /\ pc[t] = "resolve" /\ todo[t] = {} /\ call[t].op = "unlock"
      /\ heap' = [heap EXCEPT ![o].depth = @ - 1,
                              ![o].owner = IF heap[o].depth = 1 THEN NoThread ELSE @]
      /\ Return(t)
  BY DEF UnlockMutex, Ready, Mutex
<1>2. call[t].m \in SlotsOf(call[t])
  <2>1. call[t] \in Calls /\ call[t].op \in MutexOps
    BY <1>1, NoCallFacts DEF IInv, BridgeInv, TypeInv, TypeOK, MutexOps
  <2>2. QED
    BY <2>1, CallFacts
<1>3. o \in 1..Len(heap) /\ heap[o] \in Objects /\ heap \in Seq(Objects)
  BY <1>1, <1>2, GotObject DEF IInv, BridgeInv, TypeInv
<1> HIDE DEF o
<1>4. x \in Objects /\ x.live = heap[o].live /\ x.mutex = heap[o].mutex /\ x.kind = heap[o].kind
  <2>1. heap[o].depth - 1 \in Int /\ who \in Threads \cup {NoThread}
    BY <1>3 DEF Objects
  <2> HIDE DEF who
  <2>2. QED
    BY <1>3, <2>1, OwnedType
<1>5. heap' = [heap EXCEPT ![o] = x]
  BY <1>1, <1>3 DEF Objects, Owned, Queued
<1> HIDE DEF x
<1>6. SameObjects
  <2>1. pc[t] \in {"resolve", "asleep"} /\ todo[t] = {} /\ call[t].op # "destroy"
    BY <1>1
  <2>2. QED
    BY <1>2, <1>4, <1>5, <2>1, OneObjectKept DEF o
<1>7. QED
  BY <1>1, <1>6, UseInv DEF Return

\* A wake-up changes one condition variable.
LEMMA WakeKept ==
  ASSUME IInv, NEW t \in Threads, pc[t] \in {"resolve", "asleep"}, todo[t] = {},
         call[t].op \in CondOps \cup WaitOps,
         NEW S \in SUBSET heap[Cond(t)].waiting, Wake(Cond(t), S)
  PROVE  SameObjects
<1> DEFINE o == got[t][call[t].c]
           x == Queued(heap[o], heap[o].waiting \ S, heap[o].woken \cup S)
<1>1. heap' = [heap EXCEPT ![o].waiting = @ \ S, ![o].woken = @ \cup S]
  BY DEF Wake, Cond
<1>2. call[t].c \in SlotsOf(call[t]) /\ call[t].op # "destroy"
  <2>1. call[t] \in Calls /\ call[t].op \notin MutexOps \cup ResetOps
    BY NoCallFacts DEF IInv, BridgeInv, TypeInv, TypeOK, CondOps, WaitOps, MutexOps, ResetOps
  <2>2. QED
    BY <2>1, CallFacts DEF ResetOps, CondOps, WaitOps
<1>3. o \in 1..Len(heap) /\ heap[o] \in Objects /\ heap \in Seq(Objects)
  BY <1>2, GotObject DEF IInv, BridgeInv, TypeInv
<1> HIDE DEF o
<1>4. S \in SUBSET heap[o].waiting
  BY DEF Cond, o
<1>5. x \in Objects /\ x.live = heap[o].live /\ x.mutex = heap[o].mutex /\ x.kind = heap[o].kind
  <2>1. heap[o].waiting \ S \in SUBSET Threads /\ heap[o].woken \cup S \in SUBSET Threads
    BY <1>3, <1>4 DEF Objects
  <2>2. QED
    BY <1>3, <2>1, QueuedType
<1>6. heap' = [heap EXCEPT ![o] = x]
  BY <1>1, <1>3 DEF Objects, Owned, Queued
<1>7. QED
  BY <1>2, <1>5, <1>6, OneObjectKept DEF o

LEMMA SignalInv ==
  ASSUME IInv, NEW t \in Threads, Signal(t)
  PROVE  IInv'
<1>1. pc[t] = "resolve" /\ todo[t] = {} /\ call[t].op = "signal" /\ Return(t)
  BY DEF Signal, Ready
<1>2. SameObjects
  <2>1. CASE UNCHANGED heap
    BY <2>1, HeapSame
  <2>2. CASE \E u \in heap[Cond(t)].waiting : Wake(Cond(t), {u})
    BY <1>1, <2>2, WakeKept DEF CondOps
  <2>3. QED
    BY <2>1, <2>2 DEF Signal
<1>3. QED
  BY <1>1, <1>2, UseInv DEF Return

LEMMA BroadcastInv ==
  ASSUME IInv, NEW t \in Threads, Broadcast(t)
  PROVE  IInv'
<1>1. pc[t] = "resolve" /\ todo[t] = {} /\ call[t].op = "broadcast" /\ Return(t)
  BY DEF Broadcast, BroadcastTo, Ready
<1>2. SameObjects
  BY <1>1, WakeKept DEF CondOps, Broadcast, BroadcastTo
<1>3. QED
  BY <1>1, <1>2, UseInv DEF Return

LEMMA TimeoutInv ==
  ASSUME IInv, NEW t \in Threads, Timeout(t)
  PROVE  IInv'
<1>1. /\ pc[t] = "asleep" /\ t \in heap[Cond(t)].waiting /\ Wake(Cond(t), {t})
      /\ UNCHANGED <<slot, lock, pc, call, todo, cur, got>>
  BY DEF Timeout, threadVars
<1>2. todo[t] = {} /\ call[t].op \in WaitOps
  BY <1>1 DEF IInv, BridgeInv, PcInv
<1>3. SameObjects
  BY <1>1, <1>2, WakeKept
<1>4. pc' = [pc EXCEPT ![t] = "asleep"]
  BY <1>1 DEF IInv, BridgeInv, TypeInv, TypeOK
<1>5. QED
  BY <1>1, <1>2, <1>3, <1>4, UseInv

\* A wait changes its mutex and its condition variable, which are two objects.
LEMMA WaitObjects ==
  ASSUME IInv, NEW t \in Threads, pc[t] \in {"resolve", "asleep"}, todo[t] = {},
         call[t].op \in WaitOps
  PROVE  /\ Mutex(t) \in 1..Len(heap) /\ heap[Mutex(t)] \in Objects
         /\ Cond(t) \in 1..Len(heap) /\ heap[Cond(t)] \in Objects
         /\ Mutex(t) # Cond(t)
         /\ call[t].m \in Mutexes /\ call[t].c \in Conds
         /\ Mutex(t) = slot[call[t].m].obj /\ Cond(t) = slot[call[t].c].obj
         /\ Bridged(call[t].m) /\ Bridged(call[t].c)
<1>1. /\ call[t].c \in Conds /\ call[t].m \in Mutexes
      /\ call[t].c \in SlotsOf(call[t]) /\ call[t].m \in SlotsOf(call[t])
  BY CallFacts DEF IInv, BridgeInv, TypeInv, TypeOK, WaitOps, NoCall
<1>2. call[t].op # "destroy" /\ call[t].c # call[t].m
  BY <1>1, ModelAssumption DEF WaitOps
<1>3. QED
  BY <1>1, <1>2, GotObject DEF Mutex, Cond, IInv, BridgeInv, SlotInv

\* Both of them changed, but for what they are.
LEMMA TwoObjectsKept ==
  ASSUME IInv, NEW t \in Threads, pc[t] \in {"resolve", "asleep"}, todo[t] = {},
         call[t].op \in WaitOps,
         NEW x \in Objects, x.live = heap[Mutex(t)].live, x.mutex = heap[Mutex(t)].mutex,
         x.kind = heap[Mutex(t)].kind,
         NEW y \in Objects, y.live = heap[Cond(t)].live, y.mutex = heap[Cond(t)].mutex,
         y.kind = heap[Cond(t)].kind,
         heap' = [heap EXCEPT ![Mutex(t)] = x, ![Cond(t)] = y]
  PROVE  SameObjects
<1>1. /\ Mutex(t) \in 1..Len(heap) /\ Cond(t) \in 1..Len(heap) /\ Mutex(t) # Cond(t)
      /\ call[t].m \in Slots /\ Mutex(t) = slot[call[t].m].obj
      /\ call[t].c \in Slots /\ Cond(t) = slot[call[t].c].obj
  BY WaitObjects DEF Slots
<1>2. heap \in Seq(Objects)
  BY DEF IInv, BridgeInv, TypeInv
<1>3. heap' = [o \in DOMAIN heap |-> heap'[o]]
  BY <1>2
<1>4. \A o \in 1..Len(heap) :
         /\ heap'[o] \in Objects
         /\ heap'[o].live = heap[o].live /\ heap'[o].mutex = heap[o].mutex
         /\ heap'[o].kind = heap[o].kind
         /\ (\A r \in Slots : slot[r].obj # o) => heap'[o] = heap[o]
  <2>1. /\ heap'[Mutex(t)] = x /\ heap'[Cond(t)] = y
        /\ \A o \in 1..Len(heap) : o # Mutex(t) /\ o # Cond(t) => heap'[o] = heap[o]
    <3>1. DOMAIN heap = 1..Len(heap)
      BY <1>2
    <3>2. Mutex(t) \in 1..Len(heap) /\ Cond(t) \in 1..Len(heap) /\ Mutex(t) # Cond(t)
      BY <1>1
    <3>3. heap' = [heap EXCEPT ![Mutex(t)] = x, ![Cond(t)] = y]
      OBVIOUS
    <3>4. QED
      BY ONLY <3>1, <3>2, <3>3
  <2>2. \A o \in 1..Len(heap) : o \notin {Mutex(t), Cond(t)} =>
           heap'[o] = heap[o] /\ heap'[o] \in Objects
    BY <1>2, <2>1
  <2>3. \A o \in {Mutex(t), Cond(t)} :
           /\ heap'[o] \in Objects
           /\ heap'[o].live = heap[o].live /\ heap'[o].mutex = heap[o].mutex
           /\ heap'[o].kind = heap[o].kind
    BY <2>1
  <2>4. \A o \in {Mutex(t), Cond(t)} : \E r \in Slots : slot[r].obj = o
    BY <1>1
  <2>5. ASSUME NEW o \in 1..Len(heap), o \in {Mutex(t), Cond(t)}
        PROVE  /\ heap'[o] \in Objects
               /\ heap'[o].live = heap[o].live /\ heap'[o].mutex = heap[o].mutex
               /\ heap'[o].kind = heap[o].kind
               /\ ~(\A r \in Slots : slot[r].obj # o)
    BY <2>3, <2>4, <2>5
  <2>6. QED
    BY <2>2, <2>5
<1>5. QED
  BY <1>3, <1>4, ObjectsKept

LEMMA WaitInv ==
  ASSUME IInv, NEW t \in Threads, Wait(t)
  PROVE  IInv'
<1> DEFINE m == Mutex(t)
           c == Cond(t)
           x == Owned(heap[m], NoThread, 0)
           y == Queued(heap[c], heap[c].waiting \cup {t}, heap[c].woken)
<1>1. /\ pc[t] = "resolve" /\ todo[t] = {} /\ call[t].op \in WaitOps
      /\ heap' = [heap EXCEPT ![m].owner = NoThread, ![m].depth = 0, ![c].waiting = @ \cup {t}]
      /\ pc' = [pc EXCEPT ![t] = "asleep"]
      /\ UNCHANGED <<slot, lock, call, todo, cur, got>>
  BY DEF Wait, Ready
<1>2. /\ m \in 1..Len(heap) /\ heap[m] \in Objects
      /\ c \in 1..Len(heap) /\ heap[c] \in Objects /\ m # c /\ heap \in Seq(Objects)
  BY <1>1, WaitObjects DEF IInv, BridgeInv, TypeInv
<1> HIDE DEF m, c
<1>3. x \in Objects /\ x.live = heap[m].live /\ x.mutex = heap[m].mutex /\ x.kind = heap[m].kind
  <2>1. NoThread \in Threads \cup {NoThread} /\ 0 \in Int
    OBVIOUS
  <2>2. QED
    BY <1>2, <2>1, OwnedType
<1>4. y \in Objects /\ y.live = heap[c].live /\ y.mutex = heap[c].mutex /\ y.kind = heap[c].kind
  <2>1. heap[c].waiting \cup {t} \in SUBSET Threads /\ heap[c].woken \in SUBSET Threads
    BY <1>2 DEF Objects
  <2>2. QED
    BY <1>2, <2>1, QueuedType
<1>5. heap' = [heap EXCEPT ![m] = x, ![c] = y]
  BY <1>1, <1>2 DEF Objects, Owned, Queued
<1>6. SameObjects
  BY <1>1, <1>3, <1>4, <1>5, TwoObjectsKept DEF m, c
<1>7. QED
  BY <1>1, <1>6, UseInv

LEMMA ResumeInv ==
  ASSUME IInv, NEW t \in Threads, Resume(t)
  PROVE  IInv'
<1> DEFINE m == Mutex(t)
           c == Cond(t)
           x == Owned(heap[m], t, 1)
           y == Queued(heap[c], heap[c].waiting, heap[c].woken \ {t})
<1>1. /\ pc[t] = "asleep"
      /\ heap' = [heap EXCEPT ![m].owner = t, ![m].depth = 1, ![c].woken = @ \ {t}]
      /\ Return(t)
  BY DEF Resume
<1>2. todo[t] = {} /\ call[t].op \in WaitOps
  BY <1>1 DEF IInv, BridgeInv, PcInv
<1>3. /\ m \in 1..Len(heap) /\ heap[m] \in Objects
      /\ c \in 1..Len(heap) /\ heap[c] \in Objects /\ m # c /\ heap \in Seq(Objects)
  BY <1>1, <1>2, WaitObjects DEF IInv, BridgeInv, TypeInv
<1> HIDE DEF m, c
<1>4. x \in Objects /\ x.live = heap[m].live /\ x.mutex = heap[m].mutex /\ x.kind = heap[m].kind
  BY <1>3, OwnedType
<1>5. y \in Objects /\ y.live = heap[c].live /\ y.mutex = heap[c].mutex /\ y.kind = heap[c].kind
  <2>1. heap[c].waiting \in SUBSET Threads /\ heap[c].woken \ {t} \in SUBSET Threads
    BY <1>3 DEF Objects
  <2>2. QED
    BY <1>3, <2>1, QueuedType
<1>6. heap' = [heap EXCEPT ![m] = x, ![c] = y]
  BY <1>1, <1>3 DEF Objects, Owned, Queued
<1>7. SameObjects
  BY <1>1, <1>2, <1>4, <1>5, <1>6, TwoObjectsKept DEF m, c
<1>8. QED
  BY <1>1, <1>2, <1>7, UseInv DEF Return

\* A destroy takes an object away that no other call is about.
LEMMA DestroyInv ==
  ASSUME IInv, NEW t \in Threads, DestroyObject(t)
  PROVE  IInv'
<1> DEFINE s == call[t].m
           o == slot[s].obj
           dead == [heap[o] EXCEPT !.live = FALSE]
<1>1. /\ pc[t] = "resolve" /\ todo[t] = {} /\ call[t].op = "destroy"
      /\ IF Bridged(s) THEN /\ heap' = [heap EXCEPT ![o].live = FALSE]
                            /\ slot' = [slot EXCEPT ![s].obj = 0]
                       ELSE UNCHANGED <<heap, slot>>
      /\ pc' = [pc EXCEPT ![t] = "idle"]
      /\ call' = [call EXCEPT ![t] = NoCall]
      /\ UNCHANGED <<lock, todo, cur, got>>
  BY DEF DestroyObject, DestroyLeaving, Ready
<1>2. s \in Slots /\ SlotsOf(call[t]) = {s}
  <2>1. call[t] \in Calls /\ call[t].op \in ResetOps
    BY <1>1, NoCallFacts DEF IInv, BridgeInv, TypeInv, TypeOK, ResetOps
  <2>2. QED
    BY <2>1, CallFacts
<1>3. /\ heap \in Seq(Objects) /\ Len(heap) \in Nat
      /\ \A r \in Slots : slot[r].obj \in 0..Len(heap) /\ slot[r].init \in Words
  BY DEF IInv, BridgeInv, TypeInv, TypeOK
<1>4. /\ pc'[t] = "idle" /\ call'[t] = NoCall
      /\ \A u \in Threads : u # t => pc'[u] = pc[u] /\ call'[u] = call[u]
  BY <1>1 DEF IInv, BridgeInv, TypeInv, TypeOK
<1>5. \A u \in Threads : u # t => s \notin SlotsOf(call[u])
  BY <1>1, <1>2 DEF IInv, BridgeInv, OneHolder, ResetOps
<1> HIDE DEF s
<1>6. /\ slot' \in [Slots -> [init : Words, obj : 0..Len(heap)]]
      /\ slot'[s].obj = 0 /\ \A r \in Slots : r # s => slot'[r] = slot[r]
  <2>1. CASE Bridged(s)
    <3>1. slot \in [Slots -> [init : Words, obj : 0..Len(heap)]] /\ 0 \in 0..Len(heap)
      BY <1>3 DEF IInv, BridgeInv, TypeInv, TypeOK
    <3>2. slot' = [slot EXCEPT ![s] = [slot[s] EXCEPT !.obj = 0]]
      BY <1>1, <2>1
    <3>3. QED
      BY <1>2, <3>1, <3>2
  <2>2. CASE ~Bridged(s)
    BY <1>1, <1>2, <1>3, <2>2 DEF IInv, BridgeInv, TypeInv, TypeOK, Bridged
  <2>3. QED
    BY <2>1, <2>2
<1>7. /\ heap' \in Seq(Objects) /\ Len(heap') = Len(heap)
      /\ \A x \in 1..Len(heap) : x # o => heap'[x] = heap[x]
      /\ o \in 1..Len(heap) => ~heap'[o].live
  <2>1. CASE Bridged(s)
    <3>1. o \in 1..Len(heap)
      BY <1>2, <1>3, <2>1 DEF Bridged
    <3>2. heap[o] \in Objects
      BY <1>3, <3>1
    <3>3. dead \in Objects /\ ~dead.live
      BY <3>2 DEF Objects
    <3>4. heap' = [heap EXCEPT ![o] = dead]
      BY <1>1, <2>1
    <3> HIDE DEF dead
    <3>5. QED
      BY <1>3, <3>1, <3>3, <3>4
  <2>2. CASE ~Bridged(s)
    BY <1>1, <1>3, <2>2 DEF Bridged
  <2>3. QED
    BY <2>1, <2>2
<1>8. \A r \in Slots : got[t][r] = 0
  BY <1>1 DEF IInv, BridgeInv, GotInv
\* A thread that makes an object makes it for another slot.
<1>9. ASSUME NEW u \in Threads, u # t
      PROVE  /\ pc[u] \in Getting => cur[u] \in Slots /\ cur[u] # s
             /\ pc[u] = "publish" => got[u][cur[u]] \in 1..Len(heap) /\ got[u][cur[u]] # o
  <2>1. pc[u] \in Getting => cur[u] \in Slots /\ cur[u] \in SlotsOf(call[u])
    BY DEF IInv, BridgeInv, PcInv, TypeInv, TypeOK
  <2>2. pc[u] \in Getting => cur[u] # s
    BY <1>5, <1>9, <2>1
  <2>3. ASSUME pc[u] = "publish"
        PROVE  got[u][cur[u]] \in 1..Len(heap) /\ got[u][cur[u]] # o
    <3>1. cur[u] \in Slots
      BY <2>1, <2>3 DEF Getting, Locking
    <3>2. got[u][cur[u]] \in 0..Len(heap)
      BY <3>1 DEF IInv, BridgeInv, TypeInv, TypeOK
    <3>3. got[u][cur[u]] # 0 /\ got[u][cur[u]] # o
      BY <1>2, <2>3 DEF IInv, BridgeInv, MakeInv
    <3>4. QED
      BY <1>3, <3>2, <3>3
  <2>4. QED
    BY <2>1, <2>2, <2>3
<1>10. TypeInv'
  <2>1. call' \in [Threads -> Calls \cup {NoCall}]
    BY <1>1 DEF IInv, BridgeInv, TypeInv, TypeOK
  <2>2. QED
    BY <1>1, <1>6, <1>7, <2>1 DEF IInv, BridgeInv, TypeInv, TypeOK
<1>11. PcInv'
  BY <1>1, <1>4, NoCallFacts DEF IInv, BridgeInv, PcInv, Getting, Locking
<1>12. OneHolder'
  BY <1>4, NoCallFacts DEF IInv, BridgeInv, OneHolder
<1>13. SlotInv'
  <2>1. ASSUME NEW r \in Slots, slot'[r].obj # 0
        PROVE  r # s /\ slot'[r] = slot[r] /\ slot[r].obj # o /\ heap'[slot[r].obj].live
    <3>1. r # s /\ slot'[r] = slot[r] /\ slot[r].obj # 0
      BY <1>6, <2>1
    <3>2. slot[r].obj # o /\ heap[slot[r].obj].live
      BY <1>2, <3>1 DEF IInv, BridgeInv, SlotInv, Bridged
    <3>3. slot[r].obj \in 1..Len(heap)
      BY <1>3, <3>1
    <3>4. QED
      BY <1>7, <3>1, <3>2, <3>3
  <2>2. ASSUME NEW r \in Slots, NEW q \in Slots, slot'[r].obj # 0, slot'[r].obj = slot'[q].obj
        PROVE  r = q
    BY <2>1, <2>2 DEF IInv, BridgeInv, SlotInv, Bridged
  <2>3. QED
    BY <2>1, <2>2 DEF SlotInv, Bridged
<1>14. MakeInv'
  <2>1. SUFFICES ASSUME NEW u \in Threads
                 PROVE  /\ pc'[u] \in {"create", "publish"} => slot'[cur[u]].obj = 0
                        /\ pc'[u] \in {"release", "reread"} => slot'[cur[u]].obj # 0
                        /\ pc'[u] = "publish" =>
                              LET x == got[u][cur[u]] IN
                              /\ x # 0 /\ heap'[x] = Object(cur[u], KindOf(slot'[cur[u]].init))
                              /\ \A r \in Slots : slot'[r].obj # x
    BY <1>1 DEF MakeInv, Bridged
  <2>2. CASE u = t
    BY <1>4, <2>2
  <2>3. CASE u # t
    <3>1. pc'[u] = pc[u] /\ (pc[u] \in Getting => slot'[cur[u]] = slot[cur[u]])
      BY <1>4, <1>6, <1>9, <2>3
    <3>2. pc[u] = "publish" => heap'[got[u][cur[u]]] = heap[got[u][cur[u]]]
      BY <1>7, <1>9, <2>3
    <3>3. \A r \in Slots : slot'[r].obj \in {0, slot[r].obj}
      BY <1>6
    <3>4. QED
      BY <3>1, <3>2, <3>3 DEF IInv, BridgeInv, MakeInv, Bridged, Getting, Locking
  <2>4. QED
    BY <2>2, <2>3
<1>15. GotInv'
  <2>1. SUFFICES ASSUME NEW u \in Threads, NEW r \in Slots
                 PROVE  /\ got[u][r] # 0 =>
                             /\ r \in SlotsOf(call'[u]) /\ call'[u].op # "destroy"
                             /\ r \in todo[u] =>
                                   r = cur[u] /\ pc'[u] \in {"publish", "release", "reread"}
                             /\ ~(pc'[u] = "publish" /\ r = cur[u]) => got[u][r] = slot'[r].obj
                        /\ r \in SlotsOf(call'[u]) \ todo[u] /\ call'[u].op # "destroy" =>
                              got[u][r] # 0
    BY <1>1 DEF GotInv
  <2>2. CASE u = t
    BY <1>4, <1>8, <2>2, NoCallFacts
  <2>3. CASE u # t
    <3>1. got[u][r] # 0 => slot'[r] = slot[r]
      BY <1>5, <1>6, <2>3 DEF IInv, BridgeInv, GotInv
    <3>2. pc'[u] = pc[u] /\ call'[u] = call[u]
      BY <1>4, <2>3
    <3>3. QED
      BY <3>1, <3>2 DEF IInv, BridgeInv, GotInv
  <2>4. QED
    BY <2>2, <2>3
<1>16. NoOrphan'
  <2>1. SUFFICES ASSUME NEW x \in 1..Len(heap), heap'[x].live
                 PROVE  \/ \E r \in Slots : slot'[r].obj = x
                        \/ \E u \in Threads : pc'[u] = "publish" /\ got[u][cur[u]] = x
    BY <1>1, <1>7 DEF NoOrphan
  <2>2. x # o /\ heap[x].live
    BY <1>7, <2>1
  <2>3. CASE \E r \in Slots : slot[r].obj = x
    <3>1. PICK r \in Slots : slot[r].obj = x
      BY <2>3
    <3>2. QED
      BY <1>6, <2>2, <3>1
  <2>4. CASE \E u \in Threads : pc[u] = "publish" /\ got[u][cur[u]] = x
    BY <1>1, <1>4, <2>4
  <2>5. QED
    BY <2>2, <2>3, <2>4 DEF IInv, NoOrphan
<1>17. QED
  BY <1>10, <1>11, <1>12, <1>13, <1>14, <1>15, <1>16 DEF IInv, BridgeInv

----------------------------------------------------------------------------
(* Every step together. *)

LEMMA NextInv == IInv /\ [Next]_vars => IInv'
<1> SUFFICES ASSUME IInv, [Next]_vars PROVE IInv'
  OBVIOUS
<1>1. CASE UNCHANGED vars
  BY <1>1 DEF vars, IInv, BridgeInv, TypeInv, TypeOK, PcInv, OneHolder, SlotInv, MakeInv,
              GotInv, NoOrphan, Bridged
<1>2. CASE Next
  <2>1. PICK t \in Threads : (\E k \in Calls : Call(t, k)) \/ Step(t) \/ Timeout(t)
    BY <1>2 DEF Next
  <2>2. CASE \E k \in Calls : Call(t, k)
    BY <2>2, CallInv
  <2>3. CASE GetSlot(t)
    BY <2>3, FastPathInv, SlowPathInv, AcquireInv, CreateInv, PublishInv, ReleaseInv, RereadInv
       DEF GetSlot
  <2>4. CASE UseObject(t)
    BY <2>4, LockMutexInv, LockRefusedInv, UnlockMutexInv, InitDoneInv, DestroyInv,
       SignalInv, BroadcastInv, WaitInv, ResumeInv DEF UseObject
  <2>5. CASE Timeout(t)
    BY <2>5, TimeoutInv
  <2>6. QED
    BY <2>1, <2>2, <2>3, <2>4, <2>5 DEF Step
<1>3. QED
  BY <1>1, <1>2

LEMMA UsesCurrent == IInv => OneObjectPerSlot
<1> SUFFICES ASSUME IInv PROVE OneObjectPerSlot
  OBVIOUS
<1>1. ASSUME NEW t \in Threads, NEW s \in Slots, got[t][s] # 0, pc[t] \in {"resolve", "asleep"}
      PROVE  got[t][s] = slot[s].obj /\ heap[got[t][s]].live
  <2>1. got[t][s] = slot[s].obj
    BY <1>1 DEF IInv, BridgeInv, GotInv
  <2>2. QED
    BY <1>1, <2>1 DEF IInv, BridgeInv, SlotInv, Bridged
<1>2. UsesCurrentObject
  BY <1>1 DEF UsesCurrentObject
<1>3. QED
  BY <1>2 DEF IInv, BridgeInv, TypeInv, OneObjectPerSlot

\* However many threads meet on a slot for the first time, one object is made
\* for it; and what mutex_get or cond_get returned is the slot's live object for
\* as long as the call lasts, although it was read without bridge_lock.
THEOREM OneObject == Spec => []OneObjectPerSlot
<1>1. QED
  BY InitInv, NextInv, UsesCurrent, PTL DEF Spec

----------------------------------------------------------------------------
(* The bridged slots implement Monitor.  To IInv, which says which object  *)
(* is behind a slot, Held adds what the game's rules make of the object    *)
(* itself from the entry of a call to its end.  Everything mutex_get and   *)
(* cond_get do is then a stutter of Monitor, and each call into vitasdk is *)
(* one of its steps.                                                       *)

\* A free mutex is locked by nobody; who unlocks or waits still has the mutex;
\* and nobody has, or waits on, what is being initialised or destroyed.
Held ==
    /\ \A m \in Mutexes : Behind(m).owner = NoThread => Behind(m).depth = 0
    /\ \A t \in Threads, m \in Mutexes :
          /\ pc[t] # "asleep" /\ call[t].op \in {"unlock"} \cup WaitOps /\ call[t].m = m =>
                Behind(m).owner = t
          /\ pc[t] # "asleep" /\ call[t].op \in WaitOps /\ call[t].m = m => Behind(m).depth = 1
    /\ \A s \in Slots : BeingReset(s) =>
          Behind(s).owner = NoThread /\ Behind(s).waiting = {} /\ Behind(s).woken = {}

RInv == IInv /\ Held

\* Monitor's variables.
GResetting == {m \in Mutexes : BeingReset(m)}
GKind == [m \in Mutexes |-> Behind(m).kind]
GOwner == [m \in Mutexes |-> Behind(m).owner]
GDepth == [m \in Mutexes |-> Behind(m).depth]
GWaiting == [c \in Conds |-> Behind(c).waiting]
GWoken == [c \in Conds |-> Behind(c).woken]
GParked == [t \in Threads |-> IF pc[t] = "asleep" THEN call[t].m ELSE NoMutex]

----------------------------------------------------------------------------
(* Monitor's steps, over those. *)

LEMMA GameStutter ==
  ASSUME UNCHANGED <<GKind, GResetting, GOwner, GDepth, GWaiting, GWoken, GParked>>
  PROVE  UNCHANGED Game!vars
  BY DEF Game!vars, GKind, GResetting, GOwner, GDepth, GWaiting, GWoken, GParked

LEMMA GameLock ==
  ASSUME NEW t \in Threads, NEW m \in Mutexes,
         m \notin GResetting,
         GOwner[m] = NoThread \/ (GOwner[m] = t /\ GKind[m] = "recursive"),
         GOwner' = [GOwner EXCEPT ![m] = t],
         GDepth' = [GDepth EXCEPT ![m] = @ + 1],
         UNCHANGED <<GKind, GResetting, GWaiting, GWoken, GParked>>
  PROVE  Game!Next
<1>1. Game!Lock(t, m)
  BY DEF Game!Lock, GKind, GResetting, GOwner, GDepth, GWaiting, GWoken, GParked
<1>2. QED
  BY <1>1 DEF Game!Next

LEMMA GameUnlock ==
  ASSUME NEW t \in Threads, NEW m \in Mutexes,
         GOwner[m] = t,
         GDepth' = [GDepth EXCEPT ![m] = @ - 1],
         GOwner' = [GOwner EXCEPT ![m] = IF GDepth[m] = 1 THEN NoThread ELSE t],
         UNCHANGED <<GKind, GResetting, GWaiting, GWoken, GParked>>
  PROVE  Game!Next
<1>1. Game!Unlock(t, m)
  BY DEF Game!Unlock, GKind, GResetting, GOwner, GDepth, GWaiting, GWoken, GParked
<1>2. QED
  BY <1>1 DEF Game!Next

LEMMA GameWait ==
  ASSUME NEW t \in Threads, NEW c \in Conds, NEW m \in Mutexes,
         GOwner[m] = t, GDepth[m] = 1,
         GOwner' = [GOwner EXCEPT ![m] = NoThread],
         GDepth' = [GDepth EXCEPT ![m] = 0],
         GWaiting' = [GWaiting EXCEPT ![c] = @ \cup {t}],
         GParked' = [GParked EXCEPT ![t] = m],
         UNCHANGED <<GKind, GResetting, GWoken>>
  PROVE  Game!Next
<1>1. Game!Wait(t, c, m)
  BY DEF Game!Wait, GKind, GResetting, GOwner, GDepth, GWaiting, GWoken, GParked
<1>2. QED
  BY <1>1 DEF Game!Next

LEMMA GameWake ==
  ASSUME NEW c \in Conds, NEW S \in SUBSET GWaiting[c], S # {},
         GWaiting' = [GWaiting EXCEPT ![c] = @ \ S],
         GWoken' = [GWoken EXCEPT ![c] = @ \cup S],
         UNCHANGED <<GKind, GResetting, GOwner, GDepth, GParked>>
  PROVE  Game!Next
<1>1. Game!Wake(c, S)
  BY DEF Game!Wake, GKind, GResetting, GOwner, GDepth, GWaiting, GWoken, GParked
<1>2. S \in SUBSET [d \in Conds |-> Behind(d).waiting][c]
  BY DEF GWaiting
<1>3. QED
  BY <1>1, <1>2 DEF Game!Next

LEMMA GameResume ==
  ASSUME NEW t \in Threads, NEW c \in Conds, NEW m \in Mutexes,
         t \in GWoken[c], GParked[t] = m, GOwner[m] = NoThread,
         GOwner' = [GOwner EXCEPT ![m] = t],
         GDepth' = [GDepth EXCEPT ![m] = 1],
         GWoken' = [GWoken EXCEPT ![c] = @ \ {t}],
         GParked' = [GParked EXCEPT ![t] = NoMutex],
         UNCHANGED <<GKind, GResetting, GWaiting>>
  PROVE  Game!Next
<1>1. Game!Resume(t, c)
  BY DEF Game!Resume, GKind, GResetting, GOwner, GDepth, GWaiting, GWoken, GParked
<1>2. QED
  BY <1>1 DEF Game!Next

LEMMA GameReset ==
  ASSUME NEW m \in Mutexes, NEW k \in Kinds,
         GOwner[m] = NoThread,
         GKind' = [GKind EXCEPT ![m] = k],
         GResetting' = IF m \in GResetting THEN GResetting \ {m} ELSE GResetting \cup {m},
         UNCHANGED <<GOwner, GDepth, GWaiting, GWoken, GParked>>
  PROVE  Game!Next
<1>1. Game!Reset(m, k)
  BY DEF Game!Reset, GKind, GResetting, GOwner, GDepth, GWaiting, GWoken, GParked
<1>2. QED
  BY <1>1 DEF Game!Next

----------------------------------------------------------------------------
(* What a step leaves alone. *)

Quiet == \A s \in Slots : Behind(s)' = Behind(s)

LEMMA QuietGame ==
  ASSUME Quiet
  PROVE  UNCHANGED <<GKind, GOwner, GDepth, GWaiting, GWoken>>
  BY DEF Quiet, Slots, GKind, GOwner, GDepth, GWaiting, GWoken

\* One thread moves; it neither starts nor ends a sleep.
LEMMA ParkedKept ==
  ASSUME NEW t \in Threads,
         \A u \in Threads : u # t => call'[u] = call[u] /\ pc'[u] = pc[u],
         \/ pc[t] # "asleep" /\ pc'[t] # "asleep"
         \/ pc[t] = "asleep" /\ pc'[t] = "asleep" /\ call'[t] = call[t]
  PROVE  UNCHANGED GParked
<1>1. \A u \in Threads : (IF pc'[u] = "asleep" THEN call'[u].m ELSE NoMutex)
                       = (IF pc[u] = "asleep" THEN call[u].m ELSE NoMutex)
  OBVIOUS
<1>2. QED
  BY <1>1 DEF GParked

\* One thread moves; it neither starts nor ends an init or a destroy.
LEMMA ResettingKept ==
  ASSUME NEW t \in Threads,
         \A u \in Threads : u # t => call'[u] = call[u],
         \/ call'[t] = call[t]
         \/ call[t].op \notin ResetOps /\ call'[t].op \notin ResetOps
  PROVE  UNCHANGED GResetting
<1>1. \A m \in Mutexes :
         (\E u \in Threads : call'[u].op \in ResetOps /\ m \in SlotsOf(call'[u]))
     <=> (\E u \in Threads : call[u].op \in ResetOps /\ m \in SlotsOf(call[u]))
  OBVIOUS
<1>2. QED
  BY <1>1 DEF GResetting, BeingReset

\* Held survives a step of t that leaves what others have, and what is being
\* reset, alone.
LEMMA HeldKept ==
  ASSUME Held, NEW t \in Threads,
         \A u \in Threads : u # t => call'[u] = call[u] /\ pc'[u] = pc[u],
         \A m \in Mutexes : Behind(m)'.owner = NoThread => Behind(m)'.depth = 0,
         \A m \in Mutexes : \A u \in Threads : u # t /\ Behind(m).owner = u =>
            Behind(m)'.owner = u /\ Behind(m)'.depth = Behind(m).depth,
         \/ call'[t] = NoCall
         \/ call'[t] = call[t] /\ pc'[t] = "asleep"
         \/ call'[t] = call[t] /\ pc[t] # "asleep" /\ Quiet,
         \A s \in Slots : \A u \in Threads :
            call'[u].op \in ResetOps /\ s \in SlotsOf(call'[u]) => Behind(s)' = Behind(s)
  PROVE  Held'
<1>1. ASSUME NEW u \in Threads, NEW m \in Mutexes
      PROVE  /\ pc'[u] # "asleep" /\ call'[u].op \in {"unlock"} \cup WaitOps /\ call'[u].m = m =>
                   Behind(m)'.owner = u
             /\ pc'[u] # "asleep" /\ call'[u].op \in WaitOps /\ call'[u].m = m =>
                   Behind(m)'.depth = 1
  <2>1. CASE u # t
    BY <2>1 DEF Held
  <2>2. CASE u = t
    <3>1. CASE call'[t] = NoCall
      BY <2>2, <3>1 DEF NoCall, WaitOps
    <3>2. CASE call'[t] = call[t] /\ pc'[t] = "asleep"
      BY <2>2, <3>2
    <3>3. CASE call'[t] = call[t] /\ pc[t] # "asleep" /\ Quiet
      BY <2>2, <3>3 DEF Held, Quiet, Slots
    <3>4. QED
      BY <3>1, <3>2, <3>3
  <2>3. QED
    BY <2>1, <2>2
<1>2. ASSUME NEW s \in Slots, NEW u \in Threads, call'[u].op \in ResetOps, s \in SlotsOf(call'[u])
      PROVE  Behind(s)'.owner = NoThread /\ Behind(s)'.waiting = {} /\ Behind(s)'.woken = {}
  <2>1. call'[u] = call[u]
    BY <1>2, NoCallFacts DEF ResetOps
  <2>2. BeingReset(s)
    BY <1>2, <2>1 DEF BeingReset
  <2>3. QED
    BY <1>2, <2>2 DEF Held
<1>3. \A s \in Slots : BeingReset(s)' =>
         Behind(s)'.owner = NoThread /\ Behind(s)'.waiting = {} /\ Behind(s)'.woken = {}
  BY <1>2 DEF BeingReset
<1>4. QED
  BY <1>1, <1>3 DEF Held

----------------------------------------------------------------------------
(* mutex_get and cond_get stutter. *)

LEMMA QuietStep ==
  ASSUME Held, Quiet, NEW t \in Threads, UNCHANGED call,
         \A u \in Threads : u # t => pc'[u] = pc[u],
         pc[t] # "asleep", pc'[t] # "asleep"
  PROVE  Held' /\ UNCHANGED Game!vars
<1>1. \A m \in Mutexes : Behind(m)' = Behind(m)
  BY DEF Quiet, Slots
<1>2. \A m \in Mutexes : Behind(m)'.owner = NoThread => Behind(m)'.depth = 0
  BY <1>1 DEF Held
<1>3. Held'
  BY <1>1, <1>2, HeldKept DEF Quiet
<1>4. UNCHANGED <<GKind, GResetting, GOwner, GDepth, GWaiting, GWoken, GParked>>
  BY QuietGame, ParkedKept, ResettingKept
<1>5. QED
  BY <1>3, <1>4, GameStutter

LEMMA SameQuiet == UNCHANGED <<slot, heap>> => Quiet
  BY DEF Quiet, Behind, Bridged

LEMMA CreateQuiet ==
  ASSUME IInv, NEW t \in Threads, Create(t)
  PROVE  Quiet
<1> DEFINE new == Object(cur[t], KindOf(slot[cur[t]].init))
<1>1. heap' = Append(heap, new) /\ slot' = slot
  BY DEF Create, CreateAs
<1>2. heap \in Seq(Objects) /\ \A s \in Slots : slot[s].obj \in 0..Len(heap)
  BY DEF IInv, BridgeInv, TypeInv, TypeOK
<1> HIDE DEF new
<1>3. \A o \in 1..Len(heap) : heap'[o] = heap[o]
  BY <1>1, <1>2
<1>4. ASSUME NEW s \in Slots, slot[s].obj # 0
      PROVE  heap'[slot[s].obj] = heap[slot[s].obj]
  BY <1>2, <1>3, <1>4
<1>5. QED
  BY <1>1, <1>4 DEF Quiet, Behind, Bridged

\* Until it is stored, the new object is as if nobody had touched the slot.
LEMMA PublishQuiet ==
  ASSUME IInv, NEW t \in Threads, Publish(t)
  PROVE  Quiet
<1> DEFINE s == cur[t]
           o == got[t][s]
<1>1. /\ pc[t] = "publish" /\ heap' = heap
      /\ slot' = [slot EXCEPT ![s] = [init |-> 0, obj |-> o]]
  BY DEF Publish
<1>2. /\ s \in Slots /\ slot[s].obj = 0 /\ o # 0
      /\ heap[o] = Object(s, KindOf(slot[s].init))
  BY <1>1 DEF IInv, BridgeInv, PcInv, MakeInv, TypeInv, TypeOK, Getting, Locking, Bridged
<1> HIDE DEF s, o
<1>3. slot'[s].obj = o /\ \A r \in Slots : r # s => slot'[r] = slot[r]
  BY <1>1, <1>2 DEF IInv, BridgeInv, TypeInv, TypeOK
<1>4. ASSUME NEW r \in Slots
      PROVE  (IF slot'[r].obj # 0 THEN heap'[slot'[r].obj]
                                  ELSE Object(r, KindOf(slot'[r].init)))
           = (IF slot[r].obj # 0 THEN heap[slot[r].obj] ELSE Object(r, KindOf(slot[r].init)))
  <2>1. CASE r = s
    BY <1>1, <1>2, <1>3, <2>1
  <2>2. CASE r # s
    BY <1>1, <1>3, <2>2
  <2>3. QED
    BY <2>1, <2>2
<1>5. QED
  BY <1>4 DEF Quiet, Behind, Bridged

LEMMA GetSlotGame ==
  ASSUME RInv, NEW t \in Threads, GetSlot(t)
  PROVE  Held' /\ UNCHANGED Game!vars
<1>1. UNCHANGED call /\ pc[t] # "asleep"
  BY DEF GetSlot, FastPath, SlowPath, Acquire, AcquireThen, Create, CreateAs, Publish,
         Release, Reread
<1>2. pc'[t] # "asleep" /\ \A u \in Threads : u # t => pc'[u] = pc[u]
  BY DEF GetSlot, FastPath, SlowPath, Acquire, AcquireThen, Create, CreateAs, Publish,
         Release, Reread, RInv, IInv, BridgeInv, TypeInv, TypeOK
<1>3. Quiet
  <2>1. CASE Create(t)
    BY <2>1, CreateQuiet DEF RInv
  <2>2. CASE Publish(t)
    BY <2>2, PublishQuiet DEF RInv
  <2>3. CASE UNCHANGED <<slot, heap>>
    BY <2>3, SameQuiet
  <2>4. QED
    BY <2>1, <2>2, <2>3 DEF GetSlot, FastPath, SlowPath, Acquire, AcquireThen, Release, Reread
<1>4. QED
  BY <1>1, <1>2, <1>3, QuietStep DEF RInv

----------------------------------------------------------------------------
(* The entry of a call: that of an init or a destroy is a Reset. *)

LEMMA BehindType ==
  ASSUME IInv, NEW s \in Slots
  PROVE  Behind(s) \in Objects
<1>1. /\ heap \in Seq(Objects) /\ Len(heap) \in Nat
      /\ slot[s].obj \in 0..Len(heap)
  BY DEF IInv, BridgeInv, TypeInv, TypeOK
<1>2. Object(s, KindOf(slot[s].init)) \in Objects
  BY ObjectType, KindType
<1>3. CASE Bridged(s)
  BY <1>1, <1>3 DEF Bridged, Behind
<1>4. CASE ~Bridged(s)
  BY <1>2, <1>4 DEF Behind
<1>5. QED
  BY <1>3, <1>4

\* Only the kind of a mutex that is being initialised changes.
LEMMA CallObjects ==
  ASSUME IInv, NEW t \in Threads, NEW k \in Calls, Call(t, k)
  PROVE  \A s \in Slots :
            /\ Behind(s)'.owner = Behind(s).owner /\ Behind(s)'.depth = Behind(s).depth
            /\ Behind(s)'.waiting = Behind(s).waiting /\ Behind(s)'.woken = Behind(s).woken
            /\ Behind(s)'.kind \in Kinds
            /\ ~(k.op = "init" /\ s = k.m) => Behind(s)' = Behind(s)
<1>1. /\ Legal(t, k) /\ heap' = heap
      /\ slot' = IF k.op = "init" THEN [slot EXCEPT ![k.m].init = WordOf(k.type)] ELSE slot
  BY DEF Call
<1>2. SUFFICES ASSUME NEW s \in Slots
               PROVE  /\ Behind(s)'.owner = Behind(s).owner
                      /\ Behind(s)'.depth = Behind(s).depth
                      /\ Behind(s)'.waiting = Behind(s).waiting
                      /\ Behind(s)'.woken = Behind(s).woken
                      /\ Behind(s)'.kind \in Kinds
                      /\ ~(k.op = "init" /\ s = k.m) => Behind(s)' = Behind(s)
  OBVIOUS
<1>3. CASE ~(k.op = "init" /\ s = k.m)
  <2>1. slot'[s] = slot[s] /\ heap' = heap
    BY <1>1, <1>3
  <2>2. Behind(s)' = Behind(s)
    BY ONLY <2>1 DEF Behind, Bridged
  <2>3. QED
    BY <2>2, BehindType DEF Objects
<1>4. CASE k.op = "init" /\ s = k.m
  <2>1. slot[s].obj = 0
    BY <1>1, <1>4 DEF Legal, Bridged
  <2>2. slot'[s].obj = 0
    BY <1>1, <1>4, <2>1 DEF IInv, BridgeInv, TypeInv, TypeOK
  <2>3. /\ Behind(s) = Object(s, KindOf(slot[s].init))
        /\ Behind(s)' = Object(s, KindOf(slot'[s].init))
    BY <2>1, <2>2 DEF Behind, Bridged
  <2>4. QED
    BY <1>4, <2>3, KindType DEF Object
<1>5. QED
  BY <1>3, <1>4

LEMMA CallHeld ==
  ASSUME RInv, NEW t \in Threads, NEW k \in Calls, Call(t, k)
  PROVE  Held'
<1>1. /\ pc[t] = "idle" /\ Legal(t, k)
      /\ pc' = [pc EXCEPT ![t] = "resolve"]
      /\ call' = [call EXCEPT ![t] = k]
  BY DEF Call
<1>2. /\ call'[t] = k
      /\ \A u \in Threads : u # t => call'[u] = call[u] /\ pc'[u] = pc[u]
  BY <1>1 DEF RInv, IInv, BridgeInv, TypeInv, TypeOK
<1>3. \A s \in Slots :
         /\ Behind(s)'.owner = Behind(s).owner /\ Behind(s)'.depth = Behind(s).depth
         /\ Behind(s)'.waiting = Behind(s).waiting /\ Behind(s)'.woken = Behind(s).woken
  BY CallObjects DEF RInv
<1>4. \A m \in Mutexes : Behind(m)'.owner = NoThread => Behind(m)'.depth = 0
  BY <1>3 DEF RInv, Held, Slots
<1>5. ASSUME NEW u \in Threads, NEW m \in Mutexes
      PROVE  /\ pc'[u] # "asleep" /\ call'[u].op \in {"unlock"} \cup WaitOps /\ call'[u].m = m =>
                   Behind(m)'.owner = u
             /\ pc'[u] # "asleep" /\ call'[u].op \in WaitOps /\ call'[u].m = m =>
                   Behind(m)'.depth = 1
  <2>1. Behind(m)'.owner = Behind(m).owner /\ Behind(m)'.depth = Behind(m).depth
    BY <1>3 DEF Slots
  <2>2. CASE u = t
    <3>1. k.op \in {"unlock"} \cup WaitOps /\ k.m = m => Behind(m).owner = t
      BY <1>1 DEF Legal
    <3>2. k.op \in WaitOps /\ k.m = m => Behind(m).depth = 1
      BY <1>1 DEF Legal
    <3>3. QED
      BY <1>2, <2>1, <2>2, <3>1, <3>2
  <2>3. CASE u # t
    BY <1>2, <2>1, <2>3 DEF RInv, Held
  <2>4. QED
    BY <2>2, <2>3
<1>6. ASSUME NEW s \in Slots, NEW u \in Threads, call'[u].op \in ResetOps, s \in SlotsOf(call'[u])
      PROVE  Behind(s)'.owner = NoThread /\ Behind(s)'.waiting = {} /\ Behind(s)'.woken = {}
  <2>1. CASE u # t
    <3>1. BeingReset(s)
      BY <1>2, <1>6, <2>1 DEF BeingReset
    <3>2. QED
      BY <1>3, <3>1 DEF RInv, Held
  <2>2. CASE u = t
    <3>1. k.op \in ResetOps /\ s = k.m
      BY <1>2, <1>6, <2>2, CallFacts
    <3>2. ~InUse(s)
      BY <1>1, <3>1 DEF Legal, ResetOps
    <3>3. QED
      BY <1>3, <3>2 DEF InUse
  <2>3. QED
    BY <2>1, <2>2
<1>7. \A s \in Slots : BeingReset(s)' =>
         Behind(s)'.owner = NoThread /\ Behind(s)'.waiting = {} /\ Behind(s)'.woken = {}
  BY <1>6 DEF BeingReset
<1>8. QED
  BY <1>4, <1>5, <1>7 DEF Held

LEMMA CallGame ==
  ASSUME RInv, NEW t \in Threads, NEW k \in Calls, Call(t, k)
  PROVE  Game!Next \/ UNCHANGED Game!vars
<1>1. /\ pc[t] = "idle" /\ Legal(t, k)
      /\ pc' = [pc EXCEPT ![t] = "resolve"]
      /\ call' = [call EXCEPT ![t] = k]
  BY DEF Call
<1>2. /\ call'[t] = k /\ pc'[t] = "resolve" /\ call[t].op \notin ResetOps
      /\ \A u \in Threads : u # t => call'[u] = call[u] /\ pc'[u] = pc[u]
  BY <1>1, NoCallFacts DEF RInv, IInv, BridgeInv, TypeInv, TypeOK, PcInv, ResetOps
<1>3. \A s \in Slots :
         /\ Behind(s)'.owner = Behind(s).owner /\ Behind(s)'.depth = Behind(s).depth
         /\ Behind(s)'.waiting = Behind(s).waiting /\ Behind(s)'.woken = Behind(s).woken
         /\ Behind(s)'.kind \in Kinds
         /\ ~(k.op = "init" /\ s = k.m) => Behind(s)' = Behind(s)
  BY CallObjects DEF RInv
<1>4. UNCHANGED <<GOwner, GDepth, GWaiting, GWoken, GParked>>
  <2>1. UNCHANGED <<GOwner, GDepth, GWaiting, GWoken>>
    BY <1>3 DEF Slots, GOwner, GDepth, GWaiting, GWoken
  <2>2. UNCHANGED GParked
    BY <1>1, <1>2, ParkedKept
  <2>3. QED
    BY <2>1, <2>2
<1>5. CASE k.op \notin ResetOps
  <2>1. UNCHANGED GKind
    BY <1>3, <1>5 DEF Slots, GKind, ResetOps
  <2>2. UNCHANGED GResetting
    BY <1>2, <1>5, ResettingKept
  <2>3. QED
    BY <1>4, <2>1, <2>2, GameStutter
<1>6. CASE k.op \in ResetOps
  <2>1. k.m \in Slots /\ SlotsOf(k) = {k.m}
    BY <1>6, CallFacts
  <2>2. \A r \in Slots :
           (\E u \in Threads : call'[u].op \in ResetOps /\ r \in SlotsOf(call'[u]))
       <=> (r = k.m \/ \E u \in Threads : call[u].op \in ResetOps /\ r \in SlotsOf(call[u]))
    BY <1>2, <1>6, <2>1
  <2>3. CASE k.m \notin Mutexes
    <3>1. UNCHANGED GKind
      BY <1>3, <2>3 DEF Slots, GKind
    <3>2. UNCHANGED GResetting
      BY <2>2, <2>3 DEF Slots, GResetting, BeingReset
    <3>3. QED
      BY <1>4, <3>1, <3>2, GameStutter
  <2>4. CASE k.m \in Mutexes
    <3>1. PICK m \in Mutexes : m = k.m
      BY <2>4
    <3>2. m \in Slots /\ ~BeingReset(m) /\ ~InUse(m)
      BY <1>1, <1>6, <2>1, <3>1 DEF Legal, ResetOps
    <3>3. GResetting' = GResetting \cup {m} /\ m \notin GResetting
      BY <2>2, <3>1, <3>2 DEF Slots, GResetting, BeingReset
    <3>4. PICK v \in Kinds : v = Behind(m)'.kind
      BY <1>3, <3>2
    <3>5. GKind' = [GKind EXCEPT ![m] = v]
      BY <1>3, <3>1, <3>4 DEF Slots, GKind
    <3>6. GOwner[m] = NoThread
      BY <3>2 DEF InUse, GOwner
    <3>7. QED
      BY <1>4, <3>3, <3>5, <3>6, GameReset
  <2>5. QED
    BY <2>3, <2>4
<1>7. QED
  BY <1>5, <1>6

----------------------------------------------------------------------------
(* The objects behind the slots of a call, changed. *)

LEMMA BehindOne ==
  ASSUME IInv, NEW s \in Slots, slot[s].obj \in 1..Len(heap), UNCHANGED slot,
         NEW x, heap' = [heap EXCEPT ![slot[s].obj] = x]
  PROVE  Behind(s)' = x /\ \A r \in Slots : r # s => Behind(r)' = Behind(r)
<1>1. /\ DOMAIN heap = 1..Len(heap) /\ Len(heap) \in Nat
      /\ \A r \in Slots : slot[r].obj \in 0..Len(heap)
  BY DEF IInv, BridgeInv, TypeInv, TypeOK
<1>2. /\ heap'[slot[s].obj] = x
      /\ \A o \in 1..Len(heap) : o # slot[s].obj => heap'[o] = heap[o]
  BY <1>1
<1>3. slot' = slot /\ slot[s].obj # 0
  BY <1>1
<1>4. Behind(s)' = x
  BY ONLY <1>2, <1>3 DEF Behind, Bridged
<1>5. ASSUME NEW r \in Slots, r # s
      PROVE  Behind(r)' = Behind(r)
  <2>1. slot[r].obj # 0 => slot[r].obj # slot[s].obj
    BY <1>3, <1>5 DEF IInv, BridgeInv, SlotInv, Bridged
  <2>2. slot[r].obj # 0 => heap'[slot[r].obj] = heap[slot[r].obj]
    BY <1>1, <1>2, <2>1
  <2>3. QED
    BY ONLY <1>3, <2>2 DEF Behind, Bridged
<1>6. QED
  BY <1>4, <1>5

LEMMA BehindTwo ==
  ASSUME IInv, NEW m \in Slots, NEW c \in Slots, m # c,
         slot[m].obj \in 1..Len(heap), slot[c].obj \in 1..Len(heap), UNCHANGED slot,
         NEW x, NEW y, heap' = [heap EXCEPT ![slot[m].obj] = x, ![slot[c].obj] = y]
  PROVE  /\ Behind(m)' = x /\ Behind(c)' = y
         /\ \A r \in Slots : r # m /\ r # c => Behind(r)' = Behind(r)
<1>1. /\ DOMAIN heap = 1..Len(heap) /\ Len(heap) \in Nat
      /\ \A r \in Slots : slot[r].obj \in 0..Len(heap)
  BY DEF IInv, BridgeInv, TypeInv, TypeOK
<1>2. slot' = slot /\ slot[m].obj # 0 /\ slot[c].obj # 0 /\ slot[m].obj # slot[c].obj
  BY <1>1 DEF IInv, BridgeInv, SlotInv, Bridged
<1>3. /\ heap'[slot[m].obj] = x /\ heap'[slot[c].obj] = y
      /\ \A o \in 1..Len(heap) : o # slot[m].obj /\ o # slot[c].obj => heap'[o] = heap[o]
  BY <1>1, <1>2
<1>4. Behind(m)' = x /\ Behind(c)' = y
  BY ONLY <1>2, <1>3 DEF Behind, Bridged
<1>5. ASSUME NEW r \in Slots, r # m, r # c
      PROVE  Behind(r)' = Behind(r)
  <2>1. slot[r].obj # 0 => slot[r].obj # slot[m].obj /\ slot[r].obj # slot[c].obj
    BY <1>2, <1>5 DEF IInv, BridgeInv, SlotInv, Bridged
  <2>2. slot[r].obj # 0 => heap'[slot[r].obj] = heap[slot[r].obj]
    BY <1>1, <1>3, <2>1
  <2>3. QED
    BY ONLY <1>2, <2>2 DEF Behind, Bridged
<1>6. QED
  BY <1>4, <1>5

\* The slot of a lock, a wait or a wake-up is not being reset meanwhile.
LEMMA NotReset ==
  ASSUME IInv, NEW t \in Threads, call[t].op \notin ResetOps, NEW s \in SlotsOf(call[t])
  PROVE  /\ ~BeingReset(s)
         /\ \A u \in Threads : call[u].op \in ResetOps => s \notin SlotsOf(call[u])
  BY DEF IInv, BridgeInv, OneHolder, BeingReset

LEMMA ReturnFacts ==
  ASSUME IInv, NEW t \in Threads, Return(t)
  PROVE  /\ call'[t] = NoCall /\ pc'[t] = "idle" /\ UNCHANGED slot
         /\ call'[t].op \notin ResetOps
         /\ \A u \in Threads : u # t => call'[u] = call[u] /\ pc'[u] = pc[u]
  BY NoCallFacts DEF Return, IInv, BridgeInv, TypeInv, TypeOK, ResetOps

----------------------------------------------------------------------------
(* The calls into vitasdk, one step of Monitor each. *)

\* The mutex of a lock or an unlock.
LEMMA MutexObject ==
  ASSUME IInv, NEW t \in Threads, pc[t] = "resolve", todo[t] = {}, call[t].op \in MutexOps
  PROVE  \E m \in Mutexes :
            /\ call[t].m = m /\ m \in Slots /\ Mutex(t) = slot[m].obj
            /\ slot[m].obj \in 1..Len(heap) /\ Behind(m) = heap[slot[m].obj]
            /\ Behind(m) \in Objects
            /\ ~BeingReset(m)
            /\ \A u \in Threads : call[u].op \in ResetOps => m \notin SlotsOf(call[u])
<1>1. call[t] \in Calls
  BY NoCallFacts DEF IInv, BridgeInv, TypeInv, TypeOK, MutexOps
<1>2. PICK m \in Mutexes : m = call[t].m
  BY <1>1, CallFacts
<1>3. m \in SlotsOf(call[t]) /\ call[t].op \notin ResetOps /\ call[t].op # "destroy"
  BY <1>1, <1>2, CallFacts DEF MutexOps, ResetOps
<1>4. /\ m \in Slots /\ got[t][m] = slot[m].obj
      /\ slot[m].obj \in 1..Len(heap) /\ Behind(m) = heap[slot[m].obj]
      /\ Behind(m) \in Objects
  BY <1>3, GotObject
<1>5. QED
  BY <1>2, <1>3, <1>4, NotReset DEF Mutex

LEMMA LockGame ==
  ASSUME RInv, NEW t \in Threads, LockMutex(t)
  PROVE  Held' /\ Game!Next
<1> USE DEF RInv
<1>1. /\ pc[t] = "resolve" /\ todo[t] = {} /\ call[t].op \in {"lock", "trylock"}
      /\ \/ heap[Mutex(t)].owner = NoThread
         \/ heap[Mutex(t)].owner = t /\ heap[Mutex(t)].kind = "recursive"
      /\ heap' = [heap EXCEPT ![Mutex(t)].owner = t, ![Mutex(t)].depth = @ + 1]
      /\ Return(t)
  BY DEF LockMutex, Ready
<1>2. PICK m \in Mutexes :
         /\ call[t].m = m /\ m \in Slots /\ Mutex(t) = slot[m].obj
         /\ slot[m].obj \in 1..Len(heap) /\ Behind(m) = heap[slot[m].obj]
         /\ Behind(m) \in Objects
         /\ ~BeingReset(m)
         /\ \A u \in Threads : call[u].op \in ResetOps => m \notin SlotsOf(call[u])
  BY <1>1, MutexObject DEF MutexOps
<1>3. /\ call'[t] = NoCall /\ pc'[t] = "idle" /\ UNCHANGED slot
      /\ call'[t].op \notin ResetOps
      /\ \A u \in Threads : u # t => call'[u] = call[u] /\ pc'[u] = pc[u]
  BY <1>1, ReturnFacts
<1> DEFINE d == Behind(m).depth + 1
           x == Owned(Behind(m), t, d)
<1>4. heap' = [heap EXCEPT ![slot[m].obj] = x]
  BY <1>1, <1>2 DEF Owned
<1>5. d \in Int
  BY <1>2 DEF Objects
<1> HIDE DEF d, x
<1>6. Behind(m)' = x /\ \A r \in Slots : r # m => Behind(r)' = Behind(r)
  BY <1>2, <1>3, <1>4, BehindOne
<1>7. /\ Behind(m)'.kind = Behind(m).kind /\ Behind(m)'.owner = t /\ Behind(m)'.depth = d
      /\ Behind(m)'.waiting = Behind(m).waiting /\ Behind(m)'.woken = Behind(m).woken
  BY <1>2, <1>5, <1>6, OwnedType DEF x
<1>8. Behind(m).owner = NoThread \/ (Behind(m).owner = t /\ Behind(m).kind = "recursive")
  BY <1>1, <1>2
<1>9. Held'
  <2>1. \A n \in Mutexes : Behind(n)'.owner = NoThread => Behind(n)'.depth = 0
    BY <1>6, <1>7, ModelAssumption DEF Held, Slots
  <2>2. \A n \in Mutexes : \A u \in Threads : u # t /\ Behind(n).owner = u =>
           Behind(n)'.owner = u /\ Behind(n)'.depth = Behind(n).depth
    BY <1>6, <1>8, ModelAssumption DEF Slots
  <2>3. \A s \in Slots : \A u \in Threads :
           call'[u].op \in ResetOps /\ s \in SlotsOf(call'[u]) => Behind(s)' = Behind(s)
    BY <1>2, <1>3, <1>6
  <2>4. QED
    BY <1>3, <2>1, <2>2, <2>3, HeldKept
<1>10. GOwner' = [GOwner EXCEPT ![m] = t]
  BY <1>6, <1>7 DEF Slots, GOwner
<1>11. GDepth' = [GDepth EXCEPT ![m] = @ + 1]
  BY <1>6, <1>7 DEF Slots, GDepth, d
<1>12. UNCHANGED <<GKind, GWaiting, GWoken>>
  BY <1>6, <1>7 DEF Slots, GKind, GWaiting, GWoken
<1>13. UNCHANGED <<GResetting, GParked>>
  BY <1>1, <1>3, ResettingKept, ParkedKept DEF ResetOps
<1>14. /\ m \notin GResetting
       /\ GOwner[m] = NoThread \/ (GOwner[m] = t /\ GKind[m] = "recursive")
  BY <1>2, <1>8 DEF GResetting, GOwner, GKind
<1>15. QED
  BY <1>9, <1>10, <1>11, <1>12, <1>13, <1>14, GameLock

LEMMA UnlockGame ==
  ASSUME RInv, NEW t \in Threads, UnlockMutex(t)
  PROVE  Held' /\ Game!Next
<1> USE DEF RInv
<1>1. /\ pc[t] = "resolve" /\ todo[t] = {} /\ call[t].op = "unlock"
      /\ heap' = [heap EXCEPT ![Mutex(t)].depth = @ - 1,
                              ![Mutex(t)].owner = IF heap[Mutex(t)].depth = 1 THEN NoThread ELSE @]
      /\ Return(t)
  BY DEF UnlockMutex, Ready
<1>2. PICK m \in Mutexes :
         /\ call[t].m = m /\ m \in Slots /\ Mutex(t) = slot[m].obj
         /\ slot[m].obj \in 1..Len(heap) /\ Behind(m) = heap[slot[m].obj]
         /\ Behind(m) \in Objects
         /\ ~BeingReset(m)
         /\ \A u \in Threads : call[u].op \in ResetOps => m \notin SlotsOf(call[u])
  BY <1>1, MutexObject DEF MutexOps
<1>3. /\ call'[t] = NoCall /\ pc'[t] = "idle" /\ UNCHANGED slot
      /\ call'[t].op \notin ResetOps
      /\ \A u \in Threads : u # t => call'[u] = call[u] /\ pc'[u] = pc[u]
  BY <1>1, ReturnFacts
<1>4. Behind(m).owner = t
  BY <1>1, <1>2 DEF Held
<1> DEFINE d == Behind(m).depth - 1
           who == IF Behind(m).depth = 1 THEN NoThread ELSE t
           x == Owned(Behind(m), who, d)
<1>5. heap' = [heap EXCEPT ![slot[m].obj] = x]
  <2>1. heap' = [heap EXCEPT ![slot[m].obj] =
                    [Behind(m) EXCEPT !.depth = Behind(m).depth - 1, !.owner = who]]
    BY <1>1, <1>2, <1>4
  <2>2. x = [Behind(m) EXCEPT !.depth = Behind(m).depth - 1, !.owner = who]
    BY <1>2 DEF Owned, Objects
  <2>3. QED
    BY <2>1, <2>2
<1>6. d \in Int /\ who \in Threads \cup {NoThread} /\ (who = NoThread => d = 0)
  BY <1>2, ModelAssumption DEF Objects
<1> HIDE DEF d, who, x
<1>7. Behind(m)' = x /\ \A r \in Slots : r # m => Behind(r)' = Behind(r)
  BY <1>2, <1>3, <1>5, BehindOne
<1>8. /\ Behind(m)'.kind = Behind(m).kind /\ Behind(m)'.owner = who /\ Behind(m)'.depth = d
      /\ Behind(m)'.waiting = Behind(m).waiting /\ Behind(m)'.woken = Behind(m).woken
  <2>1. who \in Threads \cup {NoThread} /\ d \in Int /\ Behind(m) \in Objects
    BY <1>2, <1>6
  <2>2. Behind(m)' = Owned(Behind(m), who, d)
    BY <1>7 DEF x
  <2>3. QED
    BY <2>1, <2>2, OwnedType
<1>9. Held'
  <2>1. \A n \in Mutexes : Behind(n)'.owner = NoThread => Behind(n)'.depth = 0
    BY <1>6, <1>7, <1>8 DEF Held, Slots
  <2>2. \A n \in Mutexes : \A u \in Threads : u # t /\ Behind(n).owner = u =>
           Behind(n)'.owner = u /\ Behind(n)'.depth = Behind(n).depth
    BY <1>4, <1>7 DEF Slots
  <2>3. \A s \in Slots : \A u \in Threads :
           call'[u].op \in ResetOps /\ s \in SlotsOf(call'[u]) => Behind(s)' = Behind(s)
    BY <1>2, <1>3, <1>7
  <2>4. QED
    BY <1>3, <2>1, <2>2, <2>3, HeldKept
<1>10. GOwner[m] = t
  BY <1>4 DEF GOwner
<1>11. GDepth' = [GDepth EXCEPT ![m] = @ - 1]
  BY <1>7, <1>8 DEF Slots, GDepth, d
<1>12. GOwner' = [GOwner EXCEPT ![m] = IF GDepth[m] = 1 THEN NoThread ELSE t]
  BY <1>7, <1>8 DEF Slots, GOwner, GDepth, who
<1>13. UNCHANGED <<GKind, GWaiting, GWoken>>
  BY <1>7, <1>8 DEF Slots, GKind, GWaiting, GWoken
<1>14. UNCHANGED <<GResetting, GParked>>
  BY <1>1, <1>3, ResettingKept, ParkedKept DEF ResetOps
<1>15. QED
  BY <1>9, <1>10, <1>11, <1>12, <1>13, <1>14, GameUnlock

\* A signal, a broadcast or a deadline; one that wakes nobody is a stutter.
LEMMA WakeGame ==
  ASSUME RInv, NEW t \in Threads, pc[t] \in {"resolve", "asleep"}, todo[t] = {},
         call[t].op \in CondOps \cup WaitOps, UNCHANGED slot,
         NEW S \in SUBSET heap[Cond(t)].waiting, Wake(Cond(t), S),
         \A u \in Threads : u # t => call'[u] = call[u] /\ pc'[u] = pc[u],
         \/ pc[t] = "resolve" /\ pc'[t] = "idle" /\ call'[t] = NoCall
         \/ pc[t] = "asleep" /\ pc'[t] = "asleep" /\ call'[t] = call[t]
  PROVE  Held' /\ (Game!Next \/ UNCHANGED Game!vars)
<1> USE DEF RInv
<1>1. heap' = [heap EXCEPT ![Cond(t)].waiting = @ \ S, ![Cond(t)].woken = @ \cup S]
  BY DEF Wake
<1>2. call[t] \in Calls /\ call[t].op \notin ResetOps
  BY NoCallFacts DEF IInv, BridgeInv, TypeInv, TypeOK, CondOps, WaitOps, ResetOps
<1>3. PICK c \in Conds : c = call[t].c
  BY <1>2, CallFacts
<1>4. c \in SlotsOf(call[t]) /\ call[t].op # "destroy"
  BY <1>2, <1>3, CallFacts DEF ResetOps
<1>5. /\ c \in Slots /\ got[t][c] = slot[c].obj
      /\ slot[c].obj \in 1..Len(heap) /\ Behind(c) = heap[slot[c].obj]
      /\ Behind(c) \in Objects
  BY <1>4, GotObject
<1>6. Cond(t) = slot[c].obj /\ S \in SUBSET Behind(c).waiting
  BY <1>3, <1>5 DEF Cond
<1>7. \A u \in Threads : call[u].op \in ResetOps => c \notin SlotsOf(call[u])
  BY <1>2, <1>4, NotReset
<1> DEFINE a == Behind(c).waiting \ S
           b == Behind(c).woken \cup S
           x == Queued(Behind(c), a, b)
<1>8. heap' = [heap EXCEPT ![slot[c].obj] = x]
  BY <1>1, <1>5, <1>6 DEF Queued
<1>9. a \in SUBSET Threads /\ b \in SUBSET Threads
  BY <1>5, <1>6 DEF Objects
<1> HIDE DEF a, b, x
<1>10. Behind(c)' = x /\ \A r \in Slots : r # c => Behind(r)' = Behind(r)
  BY <1>5, <1>8, BehindOne
<1>11. /\ Behind(c)'.kind = Behind(c).kind /\ Behind(c)'.owner = Behind(c).owner
       /\ Behind(c)'.depth = Behind(c).depth
       /\ Behind(c)'.waiting = a /\ Behind(c)'.woken = b
  BY <1>5, <1>9, <1>10, QueuedType DEF x
<1>12. \A m \in Mutexes : Behind(m)' = Behind(m)
  BY <1>10, ModelAssumption DEF Slots
<1>13. Held'
  <2>1. \A n \in Mutexes : Behind(n)'.owner = NoThread => Behind(n)'.depth = 0
    BY <1>12 DEF Held
  <2>2. \A n \in Mutexes : \A u \in Threads : u # t /\ Behind(n).owner = u =>
           Behind(n)'.owner = u /\ Behind(n)'.depth = Behind(n).depth
    BY <1>12
  <2>3. \A s \in Slots : \A u \in Threads :
           call'[u].op \in ResetOps /\ s \in SlotsOf(call'[u]) => Behind(s)' = Behind(s)
    BY <1>2, <1>7, <1>10, NoCallFacts DEF ResetOps
  <2>4. QED
    BY <2>1, <2>2, <2>3, HeldKept
<1>14. GWaiting' = [GWaiting EXCEPT ![c] = @ \ S]
  BY <1>10, <1>11 DEF Slots, GWaiting, a
<1>15. GWoken' = [GWoken EXCEPT ![c] = @ \cup S]
  BY <1>10, <1>11 DEF Slots, GWoken, b
<1>16. UNCHANGED <<GKind, GOwner, GDepth>>
  BY <1>12 DEF GKind, GOwner, GDepth
<1>17. UNCHANGED GParked
  BY ParkedKept
<1>18. UNCHANGED GResetting
  BY <1>2, ResettingKept, NoCallFacts DEF ResetOps
<1>19. S \in SUBSET GWaiting[c]
  BY <1>6 DEF GWaiting
<1>20. CASE S # {}
  BY <1>13, <1>14, <1>15, <1>16, <1>17, <1>18, <1>19, <1>20, GameWake
<1>21. CASE S = {}
  <2>1. UNCHANGED <<GWaiting, GWoken>>
    BY <1>10, <1>11, <1>21 DEF Slots, GWaiting, GWoken, a, b
  <2>2. QED
    BY <1>13, <1>16, <1>17, <1>18, <2>1, GameStutter
<1>22. QED
  BY <1>20, <1>21

\* The mutex and the condition variable of a wait.
LEMMA WaitSlots ==
  ASSUME IInv, NEW t \in Threads, pc[t] \in {"resolve", "asleep"}, todo[t] = {},
         call[t].op \in WaitOps
  PROVE  \E m \in Mutexes : \E c \in Conds :
            /\ call[t].m = m /\ m \in Slots /\ Mutex(t) = slot[m].obj
            /\ slot[m].obj \in 1..Len(heap) /\ Behind(m) = heap[slot[m].obj]
            /\ call[t].c = c /\ c \in Slots /\ Cond(t) = slot[c].obj
            /\ slot[c].obj \in 1..Len(heap) /\ Behind(c) = heap[slot[c].obj]
            /\ Behind(m) \in Objects /\ Behind(c) \in Objects /\ m # c
            /\ slot[m].obj # slot[c].obj
            /\ \A u \in Threads : call[u].op \in ResetOps =>
                  m \notin SlotsOf(call[u]) /\ c \notin SlotsOf(call[u])
<1>1. call[t] \in Calls /\ call[t].op \notin ResetOps /\ call[t].op # "destroy"
  BY NoCallFacts DEF IInv, BridgeInv, TypeInv, TypeOK, WaitOps, ResetOps
<1>2. PICK m \in Mutexes : m = call[t].m /\ m \in SlotsOf(call[t])
  BY <1>1, CallFacts
<1>3. PICK c \in Conds : c = call[t].c /\ c \in SlotsOf(call[t])
  BY <1>1, CallFacts
<1>4. /\ m \in Slots /\ got[t][m] = slot[m].obj
      /\ slot[m].obj \in 1..Len(heap) /\ Behind(m) = heap[slot[m].obj] /\ Behind(m) \in Objects
  BY <1>1, <1>2, GotObject
<1>5. /\ c \in Slots /\ got[t][c] = slot[c].obj
      /\ slot[c].obj \in 1..Len(heap) /\ Behind(c) = heap[slot[c].obj] /\ Behind(c) \in Objects
  BY <1>1, <1>3, GotObject
<1>6. m # c
  BY ModelAssumption
<1>7. slot[m].obj # slot[c].obj
  BY <1>2, <1>3, <1>6, WaitObjects DEF Mutex, Cond
<1>8. \A u \in Threads : call[u].op \in ResetOps =>
         m \notin SlotsOf(call[u]) /\ c \notin SlotsOf(call[u])
  BY <1>1, <1>2, <1>3, NotReset
<1>9. Mutex(t) = slot[m].obj /\ Cond(t) = slot[c].obj
  BY <1>2, <1>3, <1>4, <1>5 DEF Mutex, Cond
<1>10. QED
  BY <1>2, <1>3, <1>4, <1>5, <1>6, <1>7, <1>8, <1>9

LEMMA WaitGame ==
  ASSUME RInv, NEW t \in Threads, Wait(t)
  PROVE  Held' /\ Game!Next
<1> USE DEF RInv
<1>1. /\ pc[t] = "resolve" /\ todo[t] = {} /\ call[t].op \in WaitOps
      /\ heap' = [heap EXCEPT ![Mutex(t)].owner = NoThread, ![Mutex(t)].depth = 0,
                              ![Cond(t)].waiting = @ \cup {t}]
      /\ pc' = [pc EXCEPT ![t] = "asleep"]
      /\ UNCHANGED <<slot, call>>
  BY DEF Wait, Ready
<1>2. PICK m \in Mutexes : \E c \in Conds :
         /\ call[t].m = m /\ m \in Slots /\ Mutex(t) = slot[m].obj
         /\ slot[m].obj \in 1..Len(heap) /\ Behind(m) = heap[slot[m].obj]
         /\ call[t].c = c /\ c \in Slots /\ Cond(t) = slot[c].obj
         /\ slot[c].obj \in 1..Len(heap) /\ Behind(c) = heap[slot[c].obj]
         /\ Behind(m) \in Objects /\ Behind(c) \in Objects /\ m # c
         /\ slot[m].obj # slot[c].obj
         /\ \A u \in Threads : call[u].op \in ResetOps =>
               m \notin SlotsOf(call[u]) /\ c \notin SlotsOf(call[u])
  BY <1>1, WaitSlots
<1>3. PICK c \in Conds :
         /\ call[t].m = m /\ m \in Slots /\ Mutex(t) = slot[m].obj
         /\ slot[m].obj \in 1..Len(heap) /\ Behind(m) = heap[slot[m].obj]
         /\ call[t].c = c /\ c \in Slots /\ Cond(t) = slot[c].obj
         /\ slot[c].obj \in 1..Len(heap) /\ Behind(c) = heap[slot[c].obj]
         /\ Behind(m) \in Objects /\ Behind(c) \in Objects /\ m # c
         /\ slot[m].obj # slot[c].obj
         /\ \A u \in Threads : call[u].op \in ResetOps =>
               m \notin SlotsOf(call[u]) /\ c \notin SlotsOf(call[u])
  BY <1>2
<1>4. Behind(m).owner = t /\ Behind(m).depth = 1
  BY <1>1, <1>3 DEF Held
<1>5. pc'[t] = "asleep" /\ UNCHANGED <<slot, call>> /\ \A u \in Threads : u # t => pc'[u] = pc[u]
  BY <1>1 DEF IInv, BridgeInv, TypeInv, TypeOK
<1> DEFINE x == Owned(Behind(m), NoThread, 0)
           a == Behind(c).waiting \cup {t}
           y == Queued(Behind(c), a, Behind(c).woken)
<1>6. heap' = [heap EXCEPT ![slot[m].obj] = x, ![slot[c].obj] = y]
  <2>1. heap' = [heap EXCEPT
                   ![slot[m].obj] = [Behind(m) EXCEPT !.owner = NoThread, !.depth = 0],
                   ![slot[c].obj] = [Behind(c) EXCEPT !.waiting = a]]
    BY <1>1, <1>3
  <2>2. y = [Behind(c) EXCEPT !.waiting = a]
    BY <1>3 DEF Queued, Objects
  <2>3. QED
    BY <2>1, <2>2 DEF Owned
<1>7. a \in SUBSET Threads /\ Behind(c).woken \in SUBSET Threads
  BY <1>3 DEF Objects
<1> HIDE DEF x, y, a
<1>8. /\ Behind(m)' = x /\ Behind(c)' = y
      /\ \A r \in Slots : r # m /\ r # c => Behind(r)' = Behind(r)
  BY <1>3, <1>5, <1>6, BehindTwo
<1>9. /\ Behind(m)'.kind = Behind(m).kind /\ Behind(m)'.owner = NoThread /\ Behind(m)'.depth = 0
  <2>1. Behind(m) \in Objects /\ 0 \in Int /\ NoThread \in Threads \cup {NoThread}
    BY <1>3
  <2>2. Behind(m)' = Owned(Behind(m), NoThread, 0)
    BY <1>8 DEF x
  <2>3. QED
    BY <2>1, <2>2, OwnedType
<1>10. Behind(c)'.waiting = a /\ Behind(c)'.woken = Behind(c).woken
  <2>1. Behind(c)' = Queued(Behind(c), a, Behind(c).woken)
    BY <1>8 DEF y
  <2>2. QED
    BY <1>3, <1>7, <2>1, QueuedType
<1>11. \A n \in Mutexes : n # m => Behind(n)' = Behind(n)
  BY <1>8, ModelAssumption DEF Slots
<1>12. \A d \in Conds : d # c => Behind(d)' = Behind(d)
  BY <1>8, ModelAssumption DEF Slots
<1>13. Held'
  <2>1. \A n \in Mutexes : Behind(n)'.owner = NoThread => Behind(n)'.depth = 0
    BY <1>9, <1>11 DEF Held
  <2>2. \A n \in Mutexes : \A u \in Threads : u # t /\ Behind(n).owner = u =>
           Behind(n)'.owner = u /\ Behind(n)'.depth = Behind(n).depth
    BY <1>4, <1>11
  <2>3. \A s \in Slots : \A u \in Threads :
           call'[u].op \in ResetOps /\ s \in SlotsOf(call'[u]) => Behind(s)' = Behind(s)
    BY <1>3, <1>5, <1>8
  <2>4. QED
    BY <1>5, <2>1, <2>2, <2>3, HeldKept
<1>14. GOwner[m] = t /\ GDepth[m] = 1
  BY <1>4 DEF GOwner, GDepth
<1>15. GOwner' = [GOwner EXCEPT ![m] = NoThread] /\ GDepth' = [GDepth EXCEPT ![m] = 0]
  BY <1>9, <1>11 DEF GOwner, GDepth
<1>16. GWaiting' = [GWaiting EXCEPT ![c] = @ \cup {t}]
  BY <1>10, <1>12 DEF GWaiting, a
<1>17. UNCHANGED GWoken
  BY <1>10, <1>12 DEF GWoken
<1>18. UNCHANGED GKind
  BY <1>9, <1>11 DEF GKind
<1>19. UNCHANGED GResetting
  BY <1>5, ResettingKept
<1>20. GParked' = [GParked EXCEPT ![t] = m]
  BY <1>3, <1>5 DEF GParked
<1>21. QED
  BY <1>13, <1>14, <1>15, <1>16, <1>17, <1>18, <1>19, <1>20, GameWait

LEMMA ResumeGame ==
  ASSUME RInv, NEW t \in Threads, Resume(t)
  PROVE  Held' /\ Game!Next
<1> USE DEF RInv
<1>1. /\ pc[t] = "asleep" /\ t \in heap[Cond(t)].woken /\ heap[Mutex(t)].owner = NoThread
      /\ heap' = [heap EXCEPT ![Mutex(t)].owner = t, ![Mutex(t)].depth = 1,
                              ![Cond(t)].woken = @ \ {t}]
      /\ Return(t)
  BY DEF Resume
<1>2. todo[t] = {} /\ call[t].op \in WaitOps
  BY <1>1 DEF IInv, BridgeInv, PcInv
<1>3. PICK m \in Mutexes : \E c \in Conds :
         /\ call[t].m = m /\ m \in Slots /\ Mutex(t) = slot[m].obj
         /\ slot[m].obj \in 1..Len(heap) /\ Behind(m) = heap[slot[m].obj]
         /\ call[t].c = c /\ c \in Slots /\ Cond(t) = slot[c].obj
         /\ slot[c].obj \in 1..Len(heap) /\ Behind(c) = heap[slot[c].obj]
         /\ Behind(m) \in Objects /\ Behind(c) \in Objects /\ m # c
         /\ slot[m].obj # slot[c].obj
         /\ \A u \in Threads : call[u].op \in ResetOps =>
               m \notin SlotsOf(call[u]) /\ c \notin SlotsOf(call[u])
  BY <1>1, <1>2, WaitSlots
<1>4. PICK c \in Conds :
         /\ call[t].m = m /\ m \in Slots /\ Mutex(t) = slot[m].obj
         /\ slot[m].obj \in 1..Len(heap) /\ Behind(m) = heap[slot[m].obj]
         /\ call[t].c = c /\ c \in Slots /\ Cond(t) = slot[c].obj
         /\ slot[c].obj \in 1..Len(heap) /\ Behind(c) = heap[slot[c].obj]
         /\ Behind(m) \in Objects /\ Behind(c) \in Objects /\ m # c
         /\ slot[m].obj # slot[c].obj
         /\ \A u \in Threads : call[u].op \in ResetOps =>
               m \notin SlotsOf(call[u]) /\ c \notin SlotsOf(call[u])
  BY <1>3
<1>5. Behind(m).owner = NoThread /\ t \in Behind(c).woken
  BY <1>1, <1>4
<1>6. /\ call'[t] = NoCall /\ pc'[t] = "idle" /\ UNCHANGED slot
      /\ call'[t].op \notin ResetOps
      /\ \A u \in Threads : u # t => call'[u] = call[u] /\ pc'[u] = pc[u]
  BY <1>1, ReturnFacts
<1> DEFINE x == Owned(Behind(m), t, 1)
           b == Behind(c).woken \ {t}
           y == Queued(Behind(c), Behind(c).waiting, b)
<1>7. heap' = [heap EXCEPT ![slot[m].obj] = x, ![slot[c].obj] = y]
  <2>1. heap' = [heap EXCEPT
                   ![slot[m].obj] = [Behind(m) EXCEPT !.owner = t, !.depth = 1],
                   ![slot[c].obj] = [Behind(c) EXCEPT !.woken = b]]
    BY <1>1, <1>4
  <2>2. y = [Behind(c) EXCEPT !.woken = b]
    BY <1>4 DEF Queued, Objects
  <2>3. QED
    BY <2>1, <2>2 DEF Owned
<1>8. b \in SUBSET Threads /\ Behind(c).waiting \in SUBSET Threads
  BY <1>4 DEF Objects
<1> HIDE DEF x, y, b
<1>9. /\ Behind(m)' = x /\ Behind(c)' = y
      /\ \A r \in Slots : r # m /\ r # c => Behind(r)' = Behind(r)
  BY <1>4, <1>6, <1>7, BehindTwo
<1>10. /\ Behind(m)'.kind = Behind(m).kind /\ Behind(m)'.owner = t /\ Behind(m)'.depth = 1
  <2>1. Behind(m) \in Objects /\ 1 \in Int /\ t \in Threads \cup {NoThread}
    BY <1>4
  <2>2. Behind(m)' = Owned(Behind(m), t, 1)
    BY <1>9 DEF x
  <2>3. QED
    BY <2>1, <2>2, OwnedType
<1>11. Behind(c)'.woken = b /\ Behind(c)'.waiting = Behind(c).waiting
  <2>1. Behind(c)' = Queued(Behind(c), Behind(c).waiting, b)
    BY <1>9 DEF y
  <2>2. QED
    BY <1>4, <1>8, <2>1, QueuedType
<1>12. \A n \in Mutexes : n # m => Behind(n)' = Behind(n)
  BY <1>9, ModelAssumption DEF Slots
<1>13. \A d \in Conds : d # c => Behind(d)' = Behind(d)
  BY <1>9, ModelAssumption DEF Slots
<1>14. Held'
  <2>1. \A n \in Mutexes : Behind(n)'.owner = NoThread => Behind(n)'.depth = 0
    BY <1>10, <1>12, ModelAssumption DEF Held
  <2>2. \A n \in Mutexes : \A u \in Threads : u # t /\ Behind(n).owner = u =>
           Behind(n)'.owner = u /\ Behind(n)'.depth = Behind(n).depth
    BY <1>5, <1>12, ModelAssumption
  <2>3. \A s \in Slots : \A u \in Threads :
           call'[u].op \in ResetOps /\ s \in SlotsOf(call'[u]) => Behind(s)' = Behind(s)
    BY <1>4, <1>6, <1>9
  <2>4. QED
    BY <1>6, <2>1, <2>2, <2>3, HeldKept
<1>15. t \in GWoken[c] /\ GParked[t] = m /\ GOwner[m] = NoThread
  BY <1>1, <1>4, <1>5 DEF GWoken, GParked, GOwner
<1>16. GOwner' = [GOwner EXCEPT ![m] = t] /\ GDepth' = [GDepth EXCEPT ![m] = 1]
  BY <1>10, <1>12 DEF GOwner, GDepth
<1>17. GWoken' = [GWoken EXCEPT ![c] = @ \ {t}]
  BY <1>11, <1>13 DEF GWoken, b
<1>18. UNCHANGED GWaiting
  BY <1>11, <1>13 DEF GWaiting
<1>19. UNCHANGED GKind
  BY <1>10, <1>12 DEF GKind
<1>20. UNCHANGED GResetting
  BY <1>2, <1>6, ResettingKept DEF ResetOps, WaitOps
<1>21. GParked' = [GParked EXCEPT ![t] = NoMutex]
  BY <1>6 DEF GParked
<1>22. QED
  BY <1>14, <1>15, <1>16, <1>17, <1>18, <1>19, <1>20, <1>21, GameResume

----------------------------------------------------------------------------
(* A refused lock is a stutter; the end of an init or a destroy is a Reset. *)

LEMMA RefusedGame ==
  ASSUME RInv, NEW t \in Threads, LockRefused(t)
  PROVE  Held' /\ UNCHANGED Game!vars
<1>1. /\ pc[t] = "resolve" /\ call[t].op \in {"lock", "trylock"} /\ Return(t) /\ UNCHANGED heap
  BY DEF LockRefused, Ready
<1>2. /\ call'[t] = NoCall /\ pc'[t] = "idle" /\ UNCHANGED slot
      /\ call'[t].op \notin ResetOps
      /\ \A u \in Threads : u # t => call'[u] = call[u] /\ pc'[u] = pc[u]
  BY <1>1, ReturnFacts DEF RInv
<1>3. Quiet
  BY <1>1, <1>2, SameQuiet
<1>4. \A m \in Mutexes : Behind(m)' = Behind(m)
  BY <1>3 DEF Quiet, Slots
<1>5. Held
  BY DEF RInv
<1>6. \A n \in Mutexes : Behind(n)'.owner = NoThread => Behind(n)'.depth = 0
  BY <1>4, <1>5 DEF Held
<1>7. Held'
  BY <1>2, <1>3, <1>4, <1>5, <1>6, HeldKept DEF Quiet
<1>8. UNCHANGED <<GResetting, GParked>>
  BY <1>1, <1>2, ResettingKept, ParkedKept DEF ResetOps
<1>9. QED
  BY <1>3, <1>7, <1>8, QuietGame, GameStutter

\* When a reset of s ends, s is in none, and only its kind may have changed.
LEMMA EndReset ==
  ASSUME RInv, NEW t \in Threads, pc[t] = "resolve", call[t].op \in ResetOps,
         call'[t] = NoCall, pc'[t] = "idle",
         \A u \in Threads : u # t => call'[u] = call[u] /\ pc'[u] = pc[u],
         NEW s \in Slots, call[t].m = s, SlotsOf(call[t]) = {s},
         \A r \in Slots : r # s => Behind(r)' = Behind(r),
         Behind(s)'.kind \in Kinds, Behind(s)'.owner = NoThread,
         s \in Mutexes => Behind(s)'.depth = 0,
         Behind(s)'.waiting = {}, Behind(s)'.woken = {}
  PROVE  Held' /\ (Game!Next \/ UNCHANGED Game!vars)
<1> USE DEF RInv
<1>1. \A u \in Threads : u # t => s \notin SlotsOf(call[u])
  BY DEF IInv, BridgeInv, OneHolder
<1>2. BeingReset(s)
  BY DEF BeingReset
<1>3. Behind(s).owner = NoThread /\ Behind(s).waiting = {} /\ Behind(s).woken = {}
  BY <1>2 DEF Held
<1>4. s \in Mutexes => Behind(s).depth = 0
  BY <1>3 DEF Held
<1>5. Held'
  <2>1. \A n \in Mutexes : Behind(n)'.owner = NoThread => Behind(n)'.depth = 0
    BY DEF Held, Slots
  <2>2. \A n \in Mutexes : \A u \in Threads : u # t /\ Behind(n).owner = u =>
           Behind(n)'.owner = u /\ Behind(n)'.depth = Behind(n).depth
    BY <1>3, ModelAssumption DEF Slots
  <2>3. \A r \in Slots : \A u \in Threads :
           call'[u].op \in ResetOps /\ r \in SlotsOf(call'[u]) => Behind(r)' = Behind(r)
    BY <1>1, NoCallFacts DEF ResetOps
  <2>4. QED
    BY <2>1, <2>2, <2>3, HeldKept
<1>6. UNCHANGED <<GOwner, GDepth, GWaiting, GWoken>>
  BY <1>3, <1>4 DEF Slots, GOwner, GDepth, GWaiting, GWoken
<1>7. UNCHANGED GParked
  BY ParkedKept
<1>8. \A r \in Slots :
         (\E u \in Threads : call'[u].op \in ResetOps /\ r \in SlotsOf(call'[u]))
     <=> r # s /\ \E u \in Threads : call[u].op \in ResetOps /\ r \in SlotsOf(call[u])
  BY <1>1, NoCallFacts
<1>9. CASE s \notin Mutexes
  <2>1. UNCHANGED GKind
    BY <1>9 DEF Slots, GKind
  <2>2. UNCHANGED GResetting
    BY <1>8, <1>9 DEF Slots, GResetting, BeingReset
  <2>3. QED
    BY <1>5, <1>6, <1>7, <2>1, <2>2, GameStutter
<1>10. CASE s \in Mutexes
  <2>1. PICK m \in Mutexes : m = s
    BY <1>10
  <2>2. PICK v \in Kinds : v = Behind(m)'.kind
    BY <2>1
  <2>3. GKind' = [GKind EXCEPT ![m] = v]
    BY <2>1, <2>2 DEF Slots, GKind
  <2>4. m \in GResetting /\ GResetting' = GResetting \ {m}
    BY <1>2, <1>8, <2>1 DEF Slots, GResetting, BeingReset
  <2>5. GOwner[m] = NoThread
    BY <1>3, <2>1 DEF GOwner
  <2>6. QED
    BY <1>5, <1>6, <1>7, <2>3, <2>4, <2>5, GameReset
<1>11. QED
  BY <1>9, <1>10

LEMMA ResetSlot ==
  ASSUME IInv, NEW t \in Threads, call[t].op \in ResetOps
  PROVE  call[t].m \in Slots /\ SlotsOf(call[t]) = {call[t].m}
<1>1. call[t] \in Calls
  BY NoCallFacts DEF IInv, BridgeInv, TypeInv, TypeOK, ResetOps
<1>2. QED
  BY <1>1, CallFacts

LEMMA InitDoneGame ==
  ASSUME RInv, NEW t \in Threads, InitDone(t)
  PROVE  Held' /\ (Game!Next \/ UNCHANGED Game!vars)
<1>1. pc[t] = "resolve" /\ call[t].op \in ResetOps /\ Return(t) /\ UNCHANGED heap
  BY DEF InitDone, Ready, ResetOps
<1>2. /\ call'[t] = NoCall /\ pc'[t] = "idle" /\ UNCHANGED slot
      /\ \A u \in Threads : u # t => call'[u] = call[u] /\ pc'[u] = pc[u]
  BY <1>1, ReturnFacts DEF RInv
<1>3. PICK s \in Slots : call[t].m = s /\ SlotsOf(call[t]) = {s}
  BY <1>1, ResetSlot DEF RInv
<1>4. \A r \in Slots : Behind(r)' = Behind(r)
  BY <1>1, <1>2, SameQuiet DEF Quiet
<1>5. BeingReset(s)
  BY <1>1, <1>3 DEF BeingReset
<1>6. Behind(s).owner = NoThread /\ Behind(s).waiting = {} /\ Behind(s).woken = {}
  BY <1>5 DEF RInv, Held
<1>7. s \in Mutexes => Behind(s).depth = 0
  BY <1>6 DEF RInv, Held
<1>8. Behind(s).kind \in Kinds
  BY BehindType DEF RInv, Objects
<1>9. QED
  BY <1>1, <1>2, <1>3, <1>4, <1>6, <1>7, <1>8, EndReset

LEMMA DestroyGame ==
  ASSUME RInv, NEW t \in Threads, DestroyObject(t)
  PROVE  Held' /\ (Game!Next \/ UNCHANGED Game!vars)
<1>1. /\ pc[t] = "resolve" /\ call[t].op = "destroy" /\ call[t].op \in ResetOps
      /\ IF Bridged(call[t].m)
         THEN /\ heap' = [heap EXCEPT ![slot[call[t].m].obj].live = FALSE]
              /\ slot' = [slot EXCEPT ![call[t].m].obj = 0]
         ELSE UNCHANGED <<heap, slot>>
      /\ pc' = [pc EXCEPT ![t] = "idle"]
      /\ call' = [call EXCEPT ![t] = NoCall]
  BY DEF DestroyObject, DestroyLeaving, Ready, ResetOps
<1>2. /\ call'[t] = NoCall /\ pc'[t] = "idle"
      /\ \A u \in Threads : u # t => call'[u] = call[u] /\ pc'[u] = pc[u]
  BY <1>1 DEF RInv, IInv, BridgeInv, TypeInv, TypeOK
<1>3. PICK s \in Slots : call[t].m = s /\ SlotsOf(call[t]) = {s}
  BY <1>1, ResetSlot DEF RInv
<1>4. /\ slot'[s].obj = 0
      /\ \A r \in Slots : r # s => slot'[r] = slot[r]
      /\ \A r \in Slots : r # s /\ slot[r].obj # 0 => heap'[slot[r].obj] = heap[slot[r].obj]
  <2>1. /\ slot \in [Slots -> [init : Words, obj : 0..Len(heap)]]
        /\ DOMAIN heap = 1..Len(heap) /\ Len(heap) \in Nat
        /\ \A r \in Slots : slot[r].obj \in 0..Len(heap)
    BY DEF RInv, IInv, BridgeInv, TypeInv, TypeOK
  <2>2. CASE slot[s].obj # 0
    <3>1. /\ heap' = [heap EXCEPT ![slot[s].obj].live = FALSE]
          /\ slot' = [slot EXCEPT ![s].obj = 0]
      BY <1>1, <1>3, <2>2 DEF Bridged
    <3>2. slot' = [slot EXCEPT ![s] = [slot[s] EXCEPT !.obj = 0]]
      BY <3>1
    <3>3. slot'[s].obj = 0 /\ \A r \in Slots : r # s => slot'[r] = slot[r]
      BY <2>1, <3>2
    <3>4. \A r \in Slots : r # s /\ slot[r].obj # 0 => slot[r].obj # slot[s].obj
      BY DEF RInv, IInv, BridgeInv, SlotInv, Bridged
    <3>5. \A r \in Slots : r # s /\ slot[r].obj # 0 => heap'[slot[r].obj] = heap[slot[r].obj]
      BY <2>1, <3>1, <3>4
    <3>6. QED
      BY <3>3, <3>5
  <2>3. CASE slot[s].obj = 0
    BY <1>1, <1>3, <2>3 DEF Bridged
  <2>4. QED
    BY <2>2, <2>3
<1>5. Behind(s)' = Object(s, KindOf(slot'[s].init))
  BY <1>4 DEF Behind, Bridged
<1>6. \A r \in Slots : r # s => Behind(r)' = Behind(r)
  BY <1>4 DEF Behind, Bridged
<1>7. /\ Behind(s)'.kind \in Kinds /\ Behind(s)'.owner = NoThread /\ Behind(s)'.depth = 0
      /\ Behind(s)'.waiting = {} /\ Behind(s)'.woken = {}
  BY <1>5, KindType DEF Object
<1>8. QED
  BY <1>1, <1>2, <1>3, <1>6, <1>7, EndReset

----------------------------------------------------------------------------
(* Every step together. *)

LEMMA UseObjectGame ==
  ASSUME RInv, NEW t \in Threads, UseObject(t)
  PROVE  Held' /\ (Game!Next \/ UNCHANGED Game!vars)
<1>1. CASE LockMutex(t)
  BY <1>1, LockGame
<1>2. CASE LockRefused(t)
  BY <1>2, RefusedGame
<1>3. CASE UnlockMutex(t)
  BY <1>3, UnlockGame
<1>4. CASE InitDone(t)
  BY <1>4, InitDoneGame
<1>5. CASE DestroyObject(t)
  BY <1>5, DestroyGame
<1>6. ASSUME Signal(t) \/ Broadcast(t)
      PROVE  Held' /\ (Game!Next \/ UNCHANGED Game!vars)
  <2>1. pc[t] = "resolve" /\ todo[t] = {} /\ call[t].op \in CondOps /\ Return(t)
    BY <1>6 DEF Signal, Broadcast, BroadcastTo, Ready, CondOps
  <2>2. /\ call'[t] = NoCall /\ pc'[t] = "idle" /\ UNCHANGED slot
        /\ \A u \in Threads : u # t => call'[u] = call[u] /\ pc'[u] = pc[u]
    BY <2>1, ReturnFacts DEF RInv
  <2>3. CASE \E S \in SUBSET heap[Cond(t)].waiting : Wake(Cond(t), S)
    BY <2>1, <2>2, <2>3, WakeGame
  <2>4. CASE UNCHANGED heap
    <3>1. Quiet
      BY <2>2, <2>4, SameQuiet
    <3>2. \A m \in Mutexes : Behind(m)' = Behind(m)
      BY <3>1 DEF Quiet, Slots
    <3>3. \A n \in Mutexes : Behind(n)'.owner = NoThread => Behind(n)'.depth = 0
      BY <3>2 DEF RInv, Held
    <3>4. Held'
      BY <2>2, <3>1, <3>2, <3>3, HeldKept DEF RInv, Quiet
    <3>5. UNCHANGED <<GResetting, GParked>>
      BY <2>1, <2>2, ResettingKept, ParkedKept, NoCallFacts DEF ResetOps, CondOps
    <3>6. QED
      BY <3>1, <3>4, <3>5, QuietGame, GameStutter
  <2>5. QED
    BY <1>6, <2>3, <2>4 DEF Signal, Broadcast, BroadcastTo
<1>7. CASE Wait(t)
  BY <1>7, WaitGame
<1>8. CASE Resume(t)
  BY <1>8, ResumeGame
<1>9. QED
  BY <1>1, <1>2, <1>3, <1>4, <1>5, <1>6, <1>7, <1>8 DEF UseObject

LEMMA TimeoutGame ==
  ASSUME RInv, NEW t \in Threads, Timeout(t)
  PROVE  Held' /\ (Game!Next \/ UNCHANGED Game!vars)
<1>1. /\ pc[t] = "asleep" /\ {t} \in SUBSET heap[Cond(t)].waiting /\ Wake(Cond(t), {t})
      /\ UNCHANGED <<slot, pc, call>>
  BY DEF Timeout, threadVars
<1>2. todo[t] = {} /\ call[t].op \in WaitOps
  BY <1>1 DEF RInv, IInv, BridgeInv, PcInv
<1>3. QED
  BY <1>1, <1>2, WakeGame

LEMMA InitRefines == Init => Held /\ Game!Init
<1> SUFFICES ASSUME Init PROVE Held /\ Game!Init
  OBVIOUS
<1>1. IInv
  BY InitInv
<1>2. \A s \in Slots : Behind(s) = Object(s, KindOf(slot[s].init))
  BY DEF Init, Behind, Bridged
<1>3. \A s \in Slots : /\ Behind(s).kind \in Kinds /\ Behind(s).owner = NoThread
                       /\ Behind(s).depth = 0 /\ Behind(s).waiting = {} /\ Behind(s).woken = {}
  BY <1>2, KindType DEF Object
<1>4. \A s \in Slots : ~BeingReset(s)
  BY NoCallFacts DEF Init, BeingReset, ResetOps
<1>5. Held
  BY <1>3, NoCallFacts DEF Init, Held, Slots, WaitOps
<1>6. /\ GKind \in [Mutexes -> Kinds] /\ GResetting = {}
      /\ GOwner = [m \in Mutexes |-> NoThread] /\ GDepth = [m \in Mutexes |-> 0]
      /\ GWaiting = [c \in Conds |-> {}] /\ GWoken = [c \in Conds |-> {}]
      /\ GParked = [t \in Threads |-> NoMutex]
  BY <1>3, <1>4 DEF Init, Slots, GKind, GResetting, GOwner, GDepth, GWaiting, GWoken, GParked
<1>7. Game!Init
  BY <1>6 DEF Game!Init, GKind, GResetting, GOwner, GDepth, GWaiting, GWoken, GParked
<1>8. QED
  BY <1>5, <1>7

LEMMA StepRefines == RInv /\ [Next]_vars => Held' /\ [Game!Next]_(Game!vars)
<1> SUFFICES ASSUME RInv, [Next]_vars PROVE Held' /\ (Game!Next \/ UNCHANGED Game!vars)
  OBVIOUS
<1>1. CASE UNCHANGED vars
  <2>1. /\ UNCHANGED <<slot, heap, pc, call>>
        /\ Held
    BY <1>1 DEF vars, RInv
  <2>2. Held'
    BY <2>1 DEF Held, Behind, Bridged, BeingReset
  <2>3. UNCHANGED Game!vars
    BY <2>1 DEF Game!vars, Behind, Bridged, BeingReset
  <2>4. QED
    BY <2>2, <2>3
<1>2. CASE Next
  <2>1. PICK t \in Threads : (\E k \in Calls : Call(t, k)) \/ Step(t) \/ Timeout(t)
    BY <1>2 DEF Next
  <2>2. CASE \E k \in Calls : Call(t, k)
    BY <2>2, CallHeld, CallGame
  <2>3. CASE Step(t)
    BY <2>3, GetSlotGame, UseObjectGame DEF Step
  <2>4. CASE Timeout(t)
    BY <2>4, TimeoutGame
  <2>5. QED
    BY <2>1, <2>2, <2>3, <2>4
<1>3. QED
  BY <1>1, <1>2

\* The bridged slots are mutexes and condition variables of the kind the game
\* initialised them with, whoever creates the objects behind them and when.
THEOREM Refines == Spec => ImplementsMonitor
<1>1. IInv /\ [Next]_vars => IInv'
  BY NextInv
<1>2. Init => IInv
  BY InitInv
<1>3. QED
  BY <1>1, <1>2, InitRefines, StepRefines, PTL DEF Spec, RInv, ImplementsMonitor, Game!Spec

----------------------------------------------------------------------------
(* Once slots.  A slot that says done was finished, and who is about to    *)
(* say so has finished it, however deep the routines are in each other.    *)

OnceFrames == [once : Onces, pc : {"look", "lock", "decide", "run", "running", "relock"}]
\* A call that ran the routine ran it to its end.
Finishing == {f \in OnceFrames : f.pc = "relock" => finished[f.once] > 0}

OnceInv ==
    /\ onceSlot \in [Onces -> 0..2]
    /\ onceLock \in Threads \cup {NoThread}
    /\ stack \in [Threads -> Seq(Finishing)]
    /\ started \in [Onces -> Nat] /\ finished \in [Onces -> Nat]
    /\ \A o \in Onces : onceSlot[o] = 2 => finished[o] > 0

LEMMA OnceInit ==
  ASSUME Once!Init
  PROVE  OnceInv
<1>1. /\ onceSlot = [o \in Onces |-> 0] /\ onceLock = NoThread /\ stack = [t \in Threads |-> <<>>]
      /\ started = [o \in Onces |-> 0] /\ finished = [o \in Onces |-> 0]
  BY DEF Once!Init
<1>2. <<>> \in Seq(Finishing)
  BY EmptySeq
<1>3. stack \in [Threads -> Seq(Finishing)]
  BY <1>1, <1>2
<1>4. QED
  BY <1>1, <1>3 DEF OnceInv

\* A thread's innermost call.
LEMMA OnceTop ==
  ASSUME OnceInv, NEW t \in Threads, NEW stage, Once!At(t, stage)
  PROVE  /\ stack[t] \in Seq(Finishing) /\ stack[t] # <<>>
         /\ Head(stack[t]) \in Finishing /\ Head(stack[t]).pc = stage
         /\ Tail(stack[t]) \in Seq(Finishing)
         /\ Once!Slot(t) \in Onces /\ Head(stack[t]).once = Once!Slot(t)
<1>1. stack[t] \in Seq(Finishing) /\ stack[t] # <<>> /\ Head(stack[t]).pc = stage
  BY DEF OnceInv, Once!At
<1>2. Head(stack[t]) \in Finishing /\ Tail(stack[t]) \in Seq(Finishing)
  BY <1>1, HeadTailProperties
<1>3. QED
  BY <1>1, <1>2 DEF Finishing, OnceFrames, Once!Slot

\* What finishing a routine does not take back.
LEMMA OnceMore ==
  ASSUME OnceInv, finished' \in [Onces -> Nat], \A o \in Onces : finished'[o] >= finished[o]
  PROVE  /\ Finishing \subseteq Finishing'
         /\ \A s \in Seq(Finishing) : s \in Seq(Finishing')
<1>1. Finishing \subseteq Finishing'
  <2>1. ASSUME NEW f \in Finishing PROVE f \in Finishing'
    <3>1. f \in OnceFrames /\ f.once \in Onces /\ finished[f.once] \in Nat /\ finished'[f.once] \in Nat
      BY DEF Finishing, OnceFrames, OnceInv
    <3>2. QED
      BY <3>1 DEF Finishing, OnceFrames
  <2>2. QED
    BY <2>1
<1>2. QED
  BY <1>1, SeqDef

\* What a step does not: return before the routine is run, or take back "done".
Returned == \A t \in Threads : Len(stack'[t]) < Len(stack[t]) => finished[Once!Slot(t)] > 0
Final == \A o \in Onces : onceSlot[o] = 2 => onceSlot'[o] = 2
OnceKept == OnceInv' /\ Returned /\ Final

\* The stack of one thread is different; nothing that was done is undone.
LEMMA OnceFrame ==
  ASSUME OnceInv, NEW t \in Threads, NEW s, s \in Seq(Finishing'),
         stack' = [stack EXCEPT ![t] = s],
         Len(s) < Len(stack[t]) => finished[Once!Slot(t)] > 0,
         onceSlot' \in [Onces -> 0..2], onceLock' \in Threads \cup {NoThread},
         started' \in [Onces -> Nat], finished' \in [Onces -> Nat],
         \A o \in Onces : finished'[o] >= finished[o],
         \A o \in Onces : onceSlot'[o] = 2 => finished'[o] > 0,
         Final
  PROVE  OnceKept
<1>1. \A u \in Threads : stack[u] \in Seq(Finishing')
  BY OnceMore DEF OnceInv
<1>2. stack' \in [Threads -> Seq(Finishing')]
  BY <1>1 DEF OnceInv
<1>3. OnceInv'
  BY <1>2 DEF OnceInv
<1>4. Returned
  <2>1. ASSUME NEW u \in Threads, Len(stack'[u]) < Len(stack[u]) PROVE finished[Once!Slot(u)] > 0
    <3>1. CASE u = t
      BY <2>1, <3>1 DEF OnceInv
    <3>2. CASE u # t
      <4>1. stack'[u] = stack[u] /\ Len(stack[u]) \in Nat
        BY <3>2, LenProperties DEF OnceInv
      <4>2. QED
        BY <2>1, <4>1
    <3>3. QED
      BY <3>1, <3>2
  <2>2. QED
    BY <2>1 DEF Returned
<1>5. QED
  BY <1>3, <1>4 DEF OnceKept

\* The innermost call goes on, or returns.
LEMMA OnceGoto ==
  ASSUME OnceInv, NEW t \in Threads, NEW stage, Once!At(t, stage),
         NEW next \in {"look", "lock", "decide", "run", "running", "relock"},
         finished' \in [Onces -> Nat], \A o \in Onces : finished'[o] >= finished[o],
         next = "relock" => finished'[Once!Slot(t)] > 0,
         NEW f, f = [Head(stack[t]) EXCEPT !.pc = next]
  PROVE  /\ f \in Finishing' /\ <<f>> \o Tail(stack[t]) \in Seq(Finishing')
         /\ ~(Len(<<f>> \o Tail(stack[t])) < Len(stack[t]))
<1>1. f \in Finishing'
  BY OnceTop DEF Finishing, OnceFrames
<1>2. Tail(stack[t]) \in Seq(Finishing')
  BY OnceTop, OnceMore
<1>3. <<f>> \in Seq(Finishing')
  BY <1>1
<1>4. <<f>> \o Tail(stack[t]) \in Seq(Finishing')
      /\ Len(<<f>> \o Tail(stack[t])) = 1 + Len(Tail(stack[t]))
  BY <1>2, <1>3, ConcatProperties
<1>5. Len(Tail(stack[t])) = Len(stack[t]) - 1 /\ Len(stack[t]) \in Nat
  BY OnceTop, HeadTailProperties, LenProperties
<1>6. QED
  BY <1>1, <1>4, <1>5

LEMMA OnceNested == \A o \in Onces : Nested[o] \in Onces \cup {NoOnce}
  BY OnceAssumption DEF Once!OnceAssumption

\* A new call, before the one the thread is in.
LEMMA OncePush ==
  ASSUME NEW o \in Onces, NEW s \in Seq(Finishing), NEW f, f = Once!Frame(o)
  PROVE  <<f>> \o s \in Seq(Finishing) /\ Len(<<f>> \o s) = Len(s) + 1 /\ Len(s) \in Nat
<1>1. f \in Finishing
  BY DEF Once!Frame, Finishing, OnceFrames
<1>2. <<f>> \in Seq(Finishing) /\ Len(<<f>>) = 1
  BY <1>1
<1>3. QED
  BY <1>2, ConcatProperties, LenProperties

LEMMA OnceCall ==
  ASSUME OnceInv, NEW t \in Threads, NEW o \in Onces, Once!Call(t, o)
  PROVE  OnceKept
<1>1. PICK f, s : f = Once!Frame(o) /\ s = <<f>> \o stack[t]
  OBVIOUS
<1>2. stack' = [stack EXCEPT ![t] = s] /\ UNCHANGED <<onceSlot, onceLock, started, finished>>
  BY <1>1 DEF Once!Call, Once!Push
<1>3. s \in Seq(Finishing) /\ ~(Len(s) < Len(stack[t]))
  <2>1. stack[t] \in Seq(Finishing)
    BY DEF OnceInv
  <2>2. s \in Seq(Finishing) /\ Len(s) = Len(stack[t]) + 1 /\ Len(stack[t]) \in Nat
    BY <1>1, <2>1, OncePush
  <2>3. QED
    BY <2>2
<1>4. Finishing' = Finishing /\ Final
  BY <1>2 DEF Finishing, Final
<1>5. /\ onceSlot' \in [Onces -> 0..2] /\ onceLock' \in Threads \cup {NoThread}
      /\ started' \in [Onces -> Nat] /\ finished' \in [Onces -> Nat]
      /\ \A q \in Onces : finished'[q] >= finished[q]
      /\ \A q \in Onces : onceSlot'[q] = 2 => finished'[q] > 0
  BY <1>2 DEF OnceInv
<1>6. s \in Seq(Finishing')
  BY <1>3, <1>4
<1>7. QED
  BY <1>2, <1>3, <1>4, <1>5, <1>6, OnceFrame

LEMMA OnceFirstLook ==
  ASSUME OnceInv, NEW t \in Threads, Once!FirstLook(t)
  PROVE  OnceKept
<1>1. PICK f : f = [Head(stack[t]) EXCEPT !.pc = "lock"]
  OBVIOUS
<1>2. Once!At(t, "look") /\ UNCHANGED <<onceSlot, onceLock, started, finished>>
  BY DEF Once!FirstLook
<1>3. PICK s : s = IF onceSlot[Once!Slot(t)] = 2 THEN Tail(stack[t]) ELSE <<f>> \o Tail(stack[t])
  OBVIOUS
<1>4. stack' = [stack EXCEPT ![t] = s]
  BY <1>1, <1>3 DEF Once!FirstLook, Once!Return, Once!Goto
<1>5. finished' \in [Onces -> Nat] /\ (\A o \in Onces : finished'[o] >= finished[o]) /\ Final
  BY <1>2 DEF OnceInv, Final
<1>6. s \in Seq(Finishing')
  BY <1>1, <1>2, <1>3, <1>5, OnceGoto, OnceTop, OnceMore
<1>7. Len(s) < Len(stack[t]) => finished[Once!Slot(t)] > 0
  BY <1>1, <1>2, <1>3, <1>5, OnceGoto, OnceTop DEF OnceInv
<1>8. QED
  BY <1>2, <1>4, <1>5, <1>6, <1>7, OnceFrame DEF OnceInv

LEMMA OnceAcquire ==
  ASSUME OnceInv, NEW t \in Threads, Once!Acquire(t)
  PROVE  OnceKept
<1>1. PICK f, s : f = [Head(stack[t]) EXCEPT !.pc = "decide"] /\ s = <<f>> \o Tail(stack[t])
  OBVIOUS
<1>2. /\ Once!At(t, "lock") /\ onceLock' = t /\ UNCHANGED <<onceSlot, started, finished>>
      /\ stack' = [stack EXCEPT ![t] = s]
  BY <1>1 DEF Once!Acquire, Once!Goto
<1>3. finished' \in [Onces -> Nat] /\ (\A o \in Onces : finished'[o] >= finished[o]) /\ Final
  BY <1>2 DEF OnceInv, Final
<1>4. s \in Seq(Finishing') /\ ~(Len(s) < Len(stack[t]))
  BY <1>1, <1>2, <1>3, OnceGoto
<1>5. QED
  BY <1>2, <1>3, <1>4, OnceFrame DEF OnceInv

LEMMA OnceDecide ==
  ASSUME OnceInv, NEW t \in Threads, Once!Decide(t)
  PROVE  OnceKept
<1>1. PICK f, o, s :
         /\ f = [Head(stack[t]) EXCEPT !.pc = "run"] /\ o = Once!Slot(t)
         /\ s = IF onceSlot[o] # 2 THEN <<f>> \o Tail(stack[t]) ELSE Tail(stack[t])
  OBVIOUS
<1>2. /\ Once!At(t, "decide") /\ onceLock' = NoThread /\ UNCHANGED <<started, finished>>
      /\ stack' = [stack EXCEPT ![t] = s]
      /\ onceSlot' = IF onceSlot[o] # 2 THEN [onceSlot EXCEPT ![o] = 1] ELSE onceSlot
  BY <1>1 DEF Once!Decide, Once!DecideHolding, Once!Goto, Once!Return
<1>3. finished' \in [Onces -> Nat] /\ \A q \in Onces : finished'[q] >= finished[q]
  BY <1>2 DEF OnceInv
<1>4. s \in Seq(Finishing')
  BY <1>1, <1>2, <1>3, OnceGoto, OnceTop, OnceMore
<1>5. Len(s) < Len(stack[t]) => finished[Once!Slot(t)] > 0
  BY <1>1, <1>2, <1>3, OnceGoto, OnceTop DEF OnceInv
<1>6. onceSlot' \in [Onces -> 0..2] /\ \A q \in Onces : onceSlot'[q] = 2 <=> onceSlot[q] = 2
  BY <1>1, <1>2, OnceTop DEF OnceInv
<1>7. Final
  BY <1>6 DEF Final
<1>8. QED
  BY <1>2, <1>3, <1>4, <1>5, <1>6, <1>7, OnceFrame DEF OnceInv

LEMMA OnceRun ==
  ASSUME OnceInv, NEW t \in Threads, Once!RunRoutine(t)
  PROVE  OnceKept
<1>1. PICK f, o, inside, s :
         /\ f = [Head(stack[t]) EXCEPT !.pc = "running"] /\ o = Once!Slot(t)
         /\ inside = [stack[t] EXCEPT ![1].pc = "running"]
         /\ s = IF Nested[o] = NoOnce THEN inside ELSE <<Once!Frame(Nested[o])>> \o inside
  OBVIOUS
<1>2. /\ Once!At(t, "run") /\ UNCHANGED <<onceSlot, onceLock, finished>>
      /\ stack' = [stack EXCEPT ![t] = s] /\ started' = [started EXCEPT ![o] = @ + 1]
  BY <1>1 DEF Once!RunRoutine
<1>3. finished' \in [Onces -> Nat] /\ (\A q \in Onces : finished'[q] >= finished[q]) /\ Final
  BY <1>2 DEF OnceInv, Final
<1>4. inside \in Seq(Finishing) /\ Len(inside) = Len(stack[t]) /\ Len(inside) \in Nat
  <2>1. PICK m \in Nat : m = Len(stack[t]) /\ m >= 1 /\ stack[t] \in [1..m -> Finishing]
    BY <1>2, OnceTop, SeqDef, LenProperties, EmptySeq
  <2>2. stack[t][1] \in Finishing
    BY <2>1
  <2>3. inside = [stack[t] EXCEPT ![1] = [stack[t][1] EXCEPT !.pc = "running"]]
    BY <1>1
  <2>4. [stack[t][1] EXCEPT !.pc = "running"] \in Finishing
    BY <2>2 DEF Finishing, OnceFrames
  <2>5. inside \in [1..m -> Finishing]
    BY <2>1, <2>3, <2>4
  <2>6. QED
    BY <2>1, <2>5, SeqDef, LenProperties
<1>5. Nested[o] # NoOnce => Nested[o] \in Onces
  BY <1>1, <1>2, OnceTop, OnceNested
<1>6. s \in Seq(Finishing) /\ ~(Len(s) < Len(stack[t]))
  <2>1. CASE Nested[o] = NoOnce
    BY <1>1, <1>4, <2>1
  <2>2. CASE Nested[o] # NoOnce
    <3>1. PICK g : g = Once!Frame(Nested[o])
      OBVIOUS
    <3>2. <<g>> \o inside \in Seq(Finishing) /\ Len(<<g>> \o inside) = Len(inside) + 1
      BY <1>4, <1>5, <2>2, <3>1, OncePush
    <3>3. s = <<g>> \o inside
      BY <1>1, <2>2, <3>1
    <3>4. QED
      BY <1>4, <3>2, <3>3
  <2>3. QED
    BY <2>1, <2>2
<1>7. Finishing' = Finishing /\ started' \in [Onces -> Nat]
  <2>1. o \in Onces
    BY <1>1, <1>2, OnceTop
  <2>2. started' \in [Onces -> Nat]
    BY <1>2, <2>1 DEF OnceInv
  <2>3. Finishing' = Finishing
    BY <1>2 DEF Finishing
  <2>4. QED
    BY <2>2, <2>3
<1>8. QED
  BY <1>2, <1>3, <1>6, <1>7, OnceFrame DEF OnceInv

LEMMA OnceFinish ==
  ASSUME OnceInv, NEW t \in Threads, Once!FinishRoutine(t)
  PROVE  OnceKept
<1>1. PICK f, o, s :
         f = [Head(stack[t]) EXCEPT !.pc = "relock"] /\ o = Once!Slot(t) /\ s = <<f>> \o Tail(stack[t])
  OBVIOUS
<1>2. /\ Once!At(t, "running") /\ UNCHANGED <<onceSlot, onceLock, started>>
      /\ stack' = [stack EXCEPT ![t] = s] /\ finished' = [finished EXCEPT ![o] = @ + 1]
  BY <1>1 DEF Once!FinishRoutine, Once!Goto
<1>3. o \in Onces
  BY <1>1, <1>2, OnceTop
<1>4. /\ finished' \in [Onces -> Nat] /\ finished'[o] > 0
      /\ \A q \in Onces : finished'[q] >= finished[q] /\ finished[q] \in Nat
  BY <1>2, <1>3 DEF OnceInv
<1>5. s \in Seq(Finishing') /\ ~(Len(s) < Len(stack[t]))
  BY <1>1, <1>2, <1>4, OnceGoto
<1>6. Final /\ \A q \in Onces : onceSlot'[q] = 2 => finished'[q] > 0
  BY <1>2, <1>4 DEF OnceInv, Final
<1>7. QED
  BY <1>2, <1>4, <1>5, <1>6, OnceFrame DEF OnceInv

LEMMA OnceComplete ==
  ASSUME OnceInv, NEW t \in Threads, Once!Complete(t)
  PROVE  OnceKept
<1>1. PICK o, s : o = Once!Slot(t) /\ s = Tail(stack[t])
  OBVIOUS
<1>2. /\ Once!At(t, "relock") /\ UNCHANGED <<onceLock, started, finished>>
      /\ stack' = [stack EXCEPT ![t] = s] /\ onceSlot' = [onceSlot EXCEPT ![o] = 2]
  BY <1>1 DEF Once!Complete, Once!CompleteWith, Once!Return
<1>3. o \in Onces /\ finished[o] > 0 /\ s \in Seq(Finishing)
  BY <1>1, <1>2, OnceTop DEF Finishing
<1>4. Finishing' = Finishing /\ onceSlot' \in [Onces -> 0..2]
  BY <1>2, <1>3 DEF Finishing, OnceInv
<1>5. /\ finished' \in [Onces -> Nat] /\ \A q \in Onces : finished'[q] >= finished[q]
      /\ \A q \in Onces : onceSlot'[q] = 2 => finished'[q] > 0
  BY <1>2, <1>3 DEF OnceInv
<1>6. Final
  BY <1>2, <1>3 DEF OnceInv, Final
<1>7. QED
  BY <1>1, <1>2, <1>3, <1>4, <1>5, <1>6, OnceFrame DEF OnceInv

LEMMA OnceNext ==
  ASSUME OnceInv, [Once!Next]_(Once!vars)
  PROVE  OnceInv' /\ [Returned]_(Once!vars) /\ [Final]_(Once!vars)
<1>1. CASE UNCHANGED Once!vars
  BY <1>1 DEF Once!vars, OnceInv, Finishing
<1>2. CASE Once!Next
  <2>1. OnceKept
    BY <1>2, OnceCall, OnceFirstLook, OnceAcquire, OnceDecide, OnceRun, OnceFinish, OnceComplete
       DEF Once!Next, Once!Step
  <2>2. QED
    BY <2>1 DEF OnceKept
<1>3. QED
  BY <1>1, <1>2

LEMMA OnceTypes ==
  ASSUME OnceInv
  PROVE  Once!TypeOK
<1>1. ASSUME NEW t \in Threads, NEW j \in 1..Len(stack[t])
      PROVE  stack[t][j] \in [once : Onces, pc : {"look", "lock", "decide", "run", "running", "relock"}]
  <2>1. stack[t] \in Seq(Finishing)
    BY DEF OnceInv
  <2>2. stack[t][j] \in Finishing
    BY <2>1, ElementOfSeq
  <2>3. QED
    BY <2>2 DEF Finishing, OnceFrames
<1>2. QED
  BY <1>1 DEF OnceInv, Once!TypeOK

\* Who returns from pthread_once finds the routine finished, also a caller who
\* came while another thread ran it; and done stays done (pthread_bridge.c:164-170):
\* for any threads and slots, and routines that go through other slots in any way.
THEOREM OnceSafe == ClientsSpec => OnceDone
<1>1. ClientsInit => OnceInv
  BY OnceInit DEF ClientsInit
<1>2. [ClientsNext]_clientsVars => [Once!Next]_(Once!vars)
  BY DEF ClientsNext, clientsVars, onceVars, Once!vars
<1>3. OnceInv /\ [ClientsNext]_clientsVars => OnceInv' /\ [Returned]_(Once!vars) /\ [Final]_(Once!vars)
  BY <1>2, OnceNext
<1>4. OnceInv => Once!TypeOK
  BY OnceTypes
<1>5. QED
  BY <1>1, <1>3, <1>4, PTL DEF ClientsSpec, OnceDone, Once!ReturnsInitialised, Once!DoneIsFinal, Returned, Final

----------------------------------------------------------------------------
(* Thread creation, by one creator.  The count that a creation takes is its *)
(* number, and the attribute it was given keeps what was asked for until    *)
(* the stack is chosen; main's priority, once the kernel has told it, is    *)
(* known from then on, and a running thread's entry has its name.           *)

Stacks == Small..Largest
Names == {"pthread", "job", "file", "other"}
Began == [pc : {"count", "start"}, attr : Attrs \cup {NoAttr}, got : Nat, nth : Nat,
          told : {0, MainPrio}, asked : Stacks]
Made == [state : {"new", "runs"}, stack : Stacks, prio : Int, name : Names \cup {"none"},
         nth : Nat, told : {0, MainPrio}, asked : Stacks]
Entry == [uid : Uids, name : Names]

CreationTypes ==
    /\ main_prio \in {0, MainPrio} /\ threads_created \in Nat /\ starts \in 0..MaxCreated
    /\ attr \in [Attrs -> {0} \cup Stacks] /\ fresh \subseteq Attrs
    /\ createCall \in [Creators -> {Creation!Idle} \cup Began]
    /\ threads \in [Uids -> {Creation!None} \cup Made]
    /\ registry \in Seq(Entry) /\ Len(registry) <= Places

\* What the creation that is under way has.
CallsInv ==
    \A c \in Creators :
        LET r == createCall[c] IN
        /\ r = Creation!Idle => threads_created = starts
        /\ r # Creation!Idle =>
             /\ r.told # 0 => main_prio = MainPrio
             /\ r.nth = starts
             /\ r.pc = "count" => r.got = threads_created /\ starts = threads_created + 1
             /\ r.pc = "start" => r.got = starts /\ threads_created = starts
             /\ IF r.attr = NoAttr THEN r.asked = Default ELSE attr[r.attr] = r.asked

MadeInv ==
    /\ \A u \in Uids :
         threads[u] # Creation!None =>
           /\ threads[u].told # 0 => main_prio = MainPrio
           /\ threads[u].stack =
                IF threads[u].nth \in BigFirst..BigLast THEN Big ELSE threads[u].asked
           /\ threads[u].state = "runs" /\ threads[u].told # 0 => threads[u].prio > MainPrio

RegistryInv ==
    /\ \A i, j \in 1..Len(registry) : registry[i].uid = registry[j].uid => i = j
    /\ \A u \in Uids : threads[u].state = "runs" =>
         /\ Len(registry) < Places => Creation!Known(u)
         /\ \A i \in 1..Len(registry) : registry[i].uid = u => registry[i].name = threads[u].name

CreationInv == CreationTypes /\ CallsInv /\ MadeInv /\ RegistryInv

LEMMA Bounds ==
  /\ NoAttr \notin Attrs /\ Asked \subseteq Nat
  /\ Small \in Nat /\ Default \in Nat /\ Big \in Nat /\ Largest \in Nat /\ MainPrio \in Nat
  /\ BigFirst \in Nat /\ BigLast \in Nat /\ Places \in Nat /\ Lines \in Nat /\ MaxCreated \in Nat
  /\ 0 < Small /\ Small <= Default /\ Default < Big /\ Big <= Largest /\ MainPrio > 0
  BY CreationBounds DEF Creation!ThreadsAssumption

LEMMA CreationStart == Creation!Init => CreationInv
<1> SUFFICES ASSUME Creation!Init PROVE CreationInv
  OBVIOUS
<1>1. registry = <<>> /\ Len(registry) = 0
  BY DEF Creation!Init
<1>2. CreationTypes
  BY <1>1, Bounds DEF CreationTypes, Creation!Init
<1>3. CallsInv /\ MadeInv
  BY DEF CallsInv, MadeInv, Creation!Init
<1>4. RegistryInv
  BY <1>1 DEF RegistryInv, Creation!Init, Creation!None
<1>5. QED
  BY <1>2, <1>3, <1>4 DEF CreationInv

\* The attributes, while no creation has them.
LEMMA AttrKept ==
  ASSUME CreationInv, NEW a \in Attrs, NEW n \in {0} \cup Stacks,
         ~Creation!InUse(a), attr' = [attr EXCEPT ![a] = n], fresh' \subseteq Attrs,
         UNCHANGED <<main_prio, threads_created, createCall, threads, registry, starts>>
  PROVE  CreationInv'
<1>1. attr' \in [Attrs -> {0} \cup Stacks]
  BY DEF CreationInv, CreationTypes
<1>2. CreationTypes'
  BY <1>1 DEF CreationInv, CreationTypes
<1>3. CallsInv'
  <2>1. ASSUME NEW c \in Creators, createCall[c] # Creation!Idle, createCall[c].attr # NoAttr
        PROVE  attr'[createCall[c].attr] = attr[createCall[c].attr]
    BY <2>1 DEF CreationInv, CreationTypes, Creation!InUse, Began
  <2>2. QED
    BY <2>1 DEF CreationInv, CallsInv
<1>4. MadeInv' /\ RegistryInv'
  BY DEF CreationInv, MadeInv, RegistryInv, Creation!Known
<1>5. QED
  BY <1>2, <1>3, <1>4 DEF CreationInv

LEMMA ClampBounds == ASSUME NEW n \in Asked PROVE Creation!Clamp(n) \in Stacks
  BY Bounds DEF Creation!Clamp, Stacks

LEMMA AttrSteps ==
  ASSUME CreationInv, NEW a \in Attrs,
         Creation!AttrInit(a) \/ Creation!AttrDestroy(a) \/ \E n \in Asked : Creation!SetStack(a, n)
  PROVE  CreationInv'
<1>1. Default \in Stacks
  BY Bounds DEF Stacks
<1>2. fresh \subseteq Attrs
  BY DEF CreationInv, CreationTypes
<1>3. CASE Creation!AttrInit(a)
  BY <1>1, <1>2, <1>3, AttrKept DEF Creation!AttrInit
<1>4. CASE Creation!AttrDestroy(a)
  BY <1>2, <1>4, AttrKept DEF Creation!AttrDestroy
<1>5. ASSUME NEW n \in Asked, Creation!SetStack(a, n) PROVE CreationInv'
  BY <1>2, <1>5, ClampBounds, AttrKept DEF Creation!SetStack
<1>6. QED
  BY <1>3, <1>4, <1>5

LEMMA CreateStep ==
  ASSUME NEW c, Creators = {c}, CreationInv, NEW a \in Attrs \cup {NoAttr}, Creation!Create(c, a)
  PROVE  CreationInv'
<1>1. PICK n : n = IF a = NoAttr THEN Default ELSE Creation!Bridged(a)
  OBVIOUS
<1>2. PICK r : r = [pc |-> "count", attr |-> a, got |-> threads_created, nth |-> starts + 1,
                   told |-> main_prio', asked |-> n]
  OBVIOUS
<1>3. createCall' = [createCall EXCEPT ![c] = r] /\ createCall'[c] = r
  BY <1>1, <1>2 DEF CreationInv, CreationTypes, Creation!Create
<1>4. n \in Stacks /\ (a # NoAttr => attr[a] \in {0} \cup Stacks)
  BY <1>1, Bounds DEF CreationInv, CreationTypes, Creation!Bridged, Stacks
<1>5. attr' \in [Attrs -> {0} \cup Stacks] /\ (a # NoAttr => attr'[a] = n)
  BY <1>1, <1>4, Bounds DEF CreationInv, CreationTypes, Creation!Create
<1>6. main_prio' \in {0, MainPrio} /\ (main_prio = MainPrio => main_prio' = MainPrio)
  BY Bounds DEF CreationInv, CreationTypes, Creation!Create
<1>7. starts \in Nat /\ starts' = starts + 1 /\ starts' \in 0..MaxCreated /\ threads_created = starts
  BY Bounds DEF CreationInv, CreationTypes, CallsInv, Creation!Create
<1>8. UNCHANGED <<threads_created, threads, registry, fresh>>
  BY DEF Creation!Create
<1>9. r \in Began
  BY <1>2, <1>4, <1>6, <1>7, <1>8 DEF CreationInv, CreationTypes, Began
<1>10. CreationTypes'
  BY <1>3, <1>5, <1>6, <1>7, <1>8, <1>9 DEF CreationInv, CreationTypes
<1>11. CallsInv'
  BY <1>1, <1>2, <1>3, <1>5, <1>6, <1>7, <1>8 DEF CallsInv, Creation!Idle
<1>12. MadeInv' /\ RegistryInv'
  BY <1>6, <1>8 DEF CreationInv, MadeInv, RegistryInv, Creation!Known
<1>13. QED
  BY <1>10, <1>11, <1>12 DEF CreationInv

LEMMA CountStep ==
  ASSUME NEW c, Creators = {c}, CreationInv, Creation!Count(c)
  PROVE  CreationInv'
<1>1. createCall[c] \in Began /\ createCall[c].pc = "count" /\ createCall[c] # Creation!Idle
  BY DEF CreationInv, CreationTypes, Creation!Count, Creation!In, Creation!Idle
<1>2. PICK r \in Began : r = createCall[c]
  BY <1>1
<1>3. PICK s : s = [r EXCEPT !.pc = "start", !.got = r.got + 1]
  OBVIOUS
<1>4. createCall' = [createCall EXCEPT ![c] = s] /\ createCall'[c] = s /\ threads_created' = r.got + 1
      /\ UNCHANGED <<main_prio, attr, threads, registry, starts, fresh>>
  <2>1. createCall' = [createCall EXCEPT ![c].pc = "start", ![c].got = r.got + 1]
    BY <1>2 DEF Creation!Count, Creation!CountAs
  <2>2. createCall \in [Creators -> {Creation!Idle} \cup Began]
    BY DEF CreationInv, CreationTypes
  <2>3. createCall' = [createCall EXCEPT ![c] = s]
    BY <1>2, <1>3, <2>1, <2>2
  <2>4. createCall'[c] = s
    BY <2>2, <2>3
  <2>5. QED
    BY <1>2, <2>3, <2>4 DEF Creation!Count, Creation!CountAs
<1>5. s \in Began /\ s.pc = "start" /\ s.got = r.got + 1 /\ s.attr = r.attr /\ s.nth = r.nth
      /\ s.told = r.told /\ s.asked = r.asked
  <2>1. /\ r = [pc |-> r.pc, attr |-> r.attr, got |-> r.got, nth |-> r.nth, told |-> r.told,
                asked |-> r.asked]
        /\ r.told \in {0, MainPrio} /\ r.attr \in Attrs \cup {NoAttr} /\ r.got + 1 \in Nat /\ r.nth \in Nat /\ r.asked \in Stacks
    BY <1>2 DEF Began
  <2>2. s = [pc |-> "start", attr |-> r.attr, got |-> r.got + 1, nth |-> r.nth, told |-> r.told,
             asked |-> r.asked]
    BY <1>3, <2>1
  <2>3. QED
    BY <2>1, <2>2 DEF Began
<1>6. /\ r.told # 0 => main_prio = MainPrio
      /\ r.nth = starts /\ r.got = threads_created /\ starts = threads_created + 1
      /\ IF r.attr = NoAttr THEN r.asked = Default ELSE attr[r.attr] = r.asked
  BY <1>1, <1>2 DEF CreationInv, CallsInv
<1>7. threads_created' \in Nat
  BY <1>2, <1>4 DEF Began
<1>8. CreationTypes'
  BY <1>4, <1>5, <1>7 DEF CreationInv, CreationTypes
<1>9. CallsInv'
  BY <1>4, <1>5, <1>6 DEF CallsInv, Creation!Idle
<1>10. MadeInv' /\ RegistryInv'
  BY <1>4 DEF CreationInv, MadeInv, RegistryInv, Creation!Known
<1>11. QED
  BY <1>8, <1>9, <1>10 DEF CreationInv

LEMMA StartStep ==
  ASSUME NEW c, Creators = {c}, CreationInv, Creation!Start(c)
  PROVE  CreationInv'
<1>1. createCall[c] \in Began /\ createCall[c].pc = "start" /\ createCall[c] # Creation!Idle
  BY DEF CreationInv, CreationTypes, Creation!Start, Creation!In, Creation!Idle
<1>2. PICK r \in Began : r = createCall[c]
  BY <1>1
<1>3. /\ r.told # 0 => main_prio = MainPrio
      /\ r.nth = starts /\ r.got = starts /\ threads_created = starts
      /\ IF r.attr = NoAttr THEN r.asked = Default ELSE attr[r.attr] = r.asked
  BY <1>1, <1>2 DEF CreationInv, CallsInv
<1>4. PICK n : n = Creation!StackFor(c)
  OBVIOUS
<1>5. r.told \in {0, MainPrio} /\ r.asked \in Stacks /\ r.nth \in Nat /\ r.attr \in Attrs \cup {NoAttr}
  BY DEF Began
<1>6. n = IF r.nth \in BigFirst..BigLast THEN Big ELSE r.asked
  <2>1. PICK k \in Nat : k = r.nth /\ k = r.got
    BY <1>3, <1>5
  <2>2. (k \in BigFirst..BigLast) <=> Creation!IsBig(k)
    BY <2>1, Bounds DEF Creation!IsBig
  <2>3. CASE k \in BigFirst..BigLast
    <3>1. Creation!Want(r.got) = Big
      BY <2>1, <2>2, <2>3 DEF Creation!Want
    <3>2. QED
      BY <1>2, <1>4, <2>1, <2>3, <3>1, Bounds DEF Creation!StackFor
  <2>4. CASE k \notin BigFirst..BigLast
    <3>1. Creation!Want(r.got) = Default /\ ~(Default > Default)
      BY <2>1, <2>2, <2>4, Bounds DEF Creation!Want
    <3>2. QED
      BY <1>2, <1>3, <1>4, <2>1, <2>4, <3>1 DEF Creation!StackFor
  <2>5. QED
    BY <2>3, <2>4
<1>7. n \in Stacks
  BY <1>5, <1>6, Bounds DEF Stacks
<1>8. PICK m : m = [state |-> "new", stack |-> n, prio |-> MainPrio, name |-> "none", nth |-> r.nth,
                    told |-> r.told, asked |-> r.asked]
  OBVIOUS
<1>9. m \in Made
  BY <1>5, <1>7, <1>8, Bounds DEF Made
<1>10. \/ UNCHANGED threads
       \/ \E u \in Uids : threads[u] = Creation!None /\ threads' = [threads EXCEPT ![u] = m]
  BY <1>2, <1>4, <1>8 DEF Creation!Start
<1>11. \A u \in Uids : threads'[u] = threads[u] \/ threads'[u] = m
  BY <1>10 DEF CreationInv, CreationTypes
<1>12. threads' \in [Uids -> {Creation!None} \cup Made]
  BY <1>9, <1>10 DEF CreationInv, CreationTypes
<1>13. attr' \in [Attrs -> {0} \cup Stacks] /\ fresh' \subseteq Attrs
  BY <1>2, <1>4, <1>5, <1>7 DEF CreationInv, CreationTypes, Creation!Start
<1>14. createCall' = [createCall EXCEPT ![c] = Creation!Idle]
       /\ UNCHANGED <<main_prio, threads_created, registry, starts>>
  BY DEF Creation!Start
<1>15. CreationTypes'
  BY <1>12, <1>13, <1>14 DEF CreationInv, CreationTypes
<1>16. CallsInv'
  BY <1>3, <1>14 DEF CreationInv, CreationTypes, CallsInv
<1>17. MadeInv'
  <2>1. SUFFICES ASSUME NEW u \in Uids, threads'[u] # Creation!None
                 PROVE  /\ threads'[u].told # 0 => main_prio' = MainPrio
                        /\ threads'[u].stack =
                             IF threads'[u].nth \in BigFirst..BigLast THEN Big ELSE threads'[u].asked
                        /\ threads'[u].state = "runs" /\ threads'[u].told # 0 => threads'[u].prio > MainPrio
    BY DEF MadeInv
  <2>2. CASE threads'[u] = m
    BY <1>3, <1>6, <1>8, <1>14, <2>2
  <2>3. CASE threads'[u] = threads[u]
    BY <1>14, <2>1, <2>3 DEF CreationInv, MadeInv
  <2>4. QED
    BY <1>11, <2>2, <2>3
<1>18. RegistryInv'
  <2>1. ASSUME NEW u \in Uids, threads'[u].state = "runs" PROVE threads'[u] = threads[u]
    BY <1>8, <1>11, <2>1
  <2>2. QED
    BY <1>14, <2>1 DEF CreationInv, RegistryInv, Creation!Known
<1>19. QED
  BY <1>15, <1>16, <1>17, <1>18 DEF CreationInv

\* The registry, where an entry is made or renamed.
LEMMA Registration ==
  ASSUME CreationInv, NEW u \in Uids, NEW name \in Names, registry' = Creation!Registered(u, name)
  PROVE  /\ registry' \in Seq(Entry) /\ Len(registry') <= Places /\ Len(registry) <= Len(registry')
         /\ Len(registry') < Places => Creation!Known(u)'
         /\ \A i, j \in 1..Len(registry') : registry'[i].uid = registry'[j].uid => i = j
         /\ \A i \in 1..Len(registry') :
              IF registry'[i].uid = u
              THEN registry'[i].name = name
              ELSE i \in 1..Len(registry) /\ registry'[i] = registry[i]
         /\ \A i \in 1..Len(registry) : registry'[i].uid = registry[i].uid
<1>1. registry \in Seq(Entry) /\ Len(registry) \in Nat /\ Len(registry) <= Places
  BY DEF CreationInv, CreationTypes
<1>2. \A i \in 1..Len(registry) : registry[i] \in Entry
  BY <1>1
<1>3. PICK e \in Entry : e = [uid |-> u, name |-> name]
  BY DEF Entry
<1>4. e.uid = u /\ e.name = name
  BY <1>3
<1>5. \A i, j \in 1..Len(registry) : registry[i].uid = registry[j].uid => i = j
  BY DEF CreationInv, RegistryInv
<1>6. CASE Creation!Known(u)
  <2>1. registry' = [i \in 1..Len(registry) |-> IF registry[i].uid = u THEN e ELSE registry[i]]
    BY <1>3, <1>6 DEF Creation!Registered
  <2>2. registry' \in Seq(Entry) /\ Len(registry') = Len(registry)
    BY <1>1, <1>2, <2>1
  <2>3. \A i \in 1..Len(registry) : registry'[i] = IF registry[i].uid = u THEN e ELSE registry[i]
    BY <2>1
  <2>4. \A i \in 1..Len(registry) : registry'[i].uid = registry[i].uid
    BY <1>4, <2>3
  <2>5. Creation!Known(u)'
    BY <1>6, <2>2, <2>4 DEF Creation!Known
  <2>6. QED
    BY <1>1, <1>4, <1>5, <2>2, <2>3, <2>4, <2>5
<1>7. CASE ~Creation!Known(u) /\ Len(registry) < Places
  <2>1. registry' = Append(registry, e)
    BY <1>3, <1>7 DEF Creation!Registered, Creation!Added
  <2>2. /\ registry' \in Seq(Entry) /\ Len(registry') = Len(registry) + 1
        /\ \A i \in 1..Len(registry) : registry'[i] = registry[i]
        /\ registry'[Len(registry) + 1] = e
    BY <1>1, <2>1
  <2>3. \A i \in 1..Len(registry') : i \in 1..Len(registry) \/ i = Len(registry) + 1
    BY <1>1, <2>2
  <2>4. \A i \in 1..Len(registry) : registry[i].uid # u
    BY <1>7 DEF Creation!Known
  <2>5. Creation!Known(u)'
    BY <1>1, <1>4, <2>2 DEF Creation!Known
  <2>6. QED
    BY <1>1, <1>4, <1>5, <1>7, <2>2, <2>3, <2>4, <2>5, Bounds
<1>8. CASE ~Creation!Known(u) /\ ~(Len(registry) < Places)
  <2>1. registry' = registry
    BY <1>8 DEF Creation!Registered, Creation!Added
  <2>2. QED
    BY <1>1, <1>5, <1>8, <2>1, Bounds DEF Creation!Known
<1>9. QED
  BY <1>6, <1>7, <1>8

LEMMA NamedStep ==
  ASSUME CreationInv, NEW u \in Uids, NEW name \in Names, NEW p \in Int,
         NEW m \in Made, m = threads[u], m.told # 0 => p > MainPrio, registry' = Creation!Registered(u, name),
         threads' = [threads EXCEPT ![u] = [m EXCEPT !.state = "runs", !.prio = p, !.name = name]],
         UNCHANGED <<main_prio, threads_created, attr, createCall, starts, fresh>>
  PROVE  CreationInv'
<1>1. PICK n : n = [m EXCEPT !.state = "runs", !.prio = p, !.name = name]
  OBVIOUS
<1>2. n \in Made /\ n.state = "runs" /\ n.prio = p /\ n.name = name /\ n.stack = m.stack /\ n.nth = m.nth
      /\ n.told = m.told /\ n.asked = m.asked
  <2>1. /\ m = [state |-> m.state, stack |-> m.stack, prio |-> m.prio, name |-> m.name, nth |-> m.nth,
                told |-> m.told, asked |-> m.asked]
        /\ m.told \in {0, MainPrio} /\ m.stack \in Stacks /\ m.nth \in Nat /\ m.asked \in Stacks
    BY DEF Made
  <2>2. n = [state |-> "runs", stack |-> m.stack, prio |-> p, name |-> name, nth |-> m.nth,
             told |-> m.told, asked |-> m.asked]
    BY <1>1, <2>1
  <2>3. QED
    BY <2>1, <2>2 DEF Made
<1>3. threads' \in [Uids -> {Creation!None} \cup Made] /\ threads'[u] = n
      /\ \A v \in Uids : v # u => threads'[v] = threads[v]
  BY <1>1, <1>2 DEF CreationInv, CreationTypes
<1>4. /\ registry' \in Seq(Entry) /\ Len(registry') <= Places /\ Len(registry) <= Len(registry')
      /\ Len(registry') < Places => Creation!Known(u)'
      /\ \A i, j \in 1..Len(registry') : registry'[i].uid = registry'[j].uid => i = j
      /\ \A i \in 1..Len(registry') :
           IF registry'[i].uid = u
           THEN registry'[i].name = name
           ELSE i \in 1..Len(registry) /\ registry'[i] = registry[i]
      /\ \A i \in 1..Len(registry) : registry'[i].uid = registry[i].uid
  BY Registration
<1>5. Len(registry) \in Nat /\ Len(registry') \in Nat
  BY <1>4 DEF CreationInv, CreationTypes
<1>6. CreationTypes'
  BY <1>3, <1>4 DEF CreationInv, CreationTypes
<1>7. CallsInv'
  BY DEF CreationInv, CallsInv
<1>8. m # Creation!None
  BY DEF Made, Creation!None
<1>9. MadeInv'
  <2>1. SUFFICES ASSUME NEW v \in Uids, threads'[v] # Creation!None
                 PROVE  /\ threads'[v].told # 0 => main_prio' = MainPrio
                        /\ threads'[v].stack =
                             IF threads'[v].nth \in BigFirst..BigLast THEN Big ELSE threads'[v].asked
                        /\ threads'[v].state = "runs" /\ threads'[v].told # 0 => threads'[v].prio > MainPrio
    BY DEF MadeInv
  <2>2. CASE v = u
    BY <1>2, <1>3, <1>8, <2>2 DEF CreationInv, MadeInv
  <2>3. CASE v # u
    BY <1>3, <2>1, <2>3 DEF CreationInv, MadeInv
  <2>4. QED
    BY <2>2, <2>3
<1>10. RegistryInv'
  <2>1. ASSUME NEW v \in Uids, threads'[v].state = "runs"
        PROVE  /\ Len(registry') < Places => Creation!Known(v)'
               /\ \A i \in 1..Len(registry') : registry'[i].uid = v => registry'[i].name = threads'[v].name
    <3>1. CASE v = u
      BY <1>2, <1>3, <1>4, <3>1
    <3>2. CASE v # u
      <4>1. threads[v].state = "runs" /\ threads'[v].name = threads[v].name
        BY <1>3, <2>1, <3>2
      <4>2. ASSUME Len(registry') < Places PROVE Creation!Known(v)'
        <5>1. Len(registry) < Places
          BY <1>4, <1>5, <4>2, Bounds
        <5>2. PICK i \in 1..Len(registry) : registry[i].uid = v
          BY <4>1, <5>1 DEF CreationInv, RegistryInv, Creation!Known
        <5>3. i \in 1..Len(registry') /\ registry'[i].uid = v
          BY <1>4, <1>5, <5>2
        <5>4. QED
          BY <5>3 DEF Creation!Known
      <4>3. ASSUME NEW i \in 1..Len(registry'), registry'[i].uid = v
            PROVE  registry'[i].name = threads'[v].name
        BY <1>4, <3>2, <4>1, <4>3 DEF CreationInv, RegistryInv
      <4>4. QED
        BY <4>2, <4>3
    <3>3. QED
      BY <3>1, <3>2
  <2>2. QED
    BY <1>4, <2>1 DEF RegistryInv
<1>11. QED
  BY <1>6, <1>7, <1>9, <1>10 DEF CreationInv

LEMMA ThreadSteps ==
  ASSUME CreationInv, NEW u \in Uids,
         Creation!Boot(u) \/ Creation!Exit(u) \/ \E name \in DOMAIN Creation!Below : Creation!SetName(u, name)
  PROVE  CreationInv'
<1>1. threads \in [Uids -> {Creation!None} \cup Made]
  BY DEF CreationInv, CreationTypes
<1>2. threads[u].state \in {"new", "runs"}
  BY DEF Creation!Boot, Creation!Exit, Creation!SetName
<1>3. PICK m \in Made : m = threads[u]
  BY <1>1, <1>2 DEF Creation!None
<1>4. main_prio \in {0, MainPrio} /\ (m.told # 0 => main_prio # 0)
  BY <1>3, Bounds DEF CreationInv, CreationTypes, MadeInv, Made, Creation!None
<1>5. CASE Creation!Boot(u)
  <2>1. PICK p \in Int : /\ p = IF main_prio # 0 THEN main_prio + 1 ELSE m.prio
                         /\ m.told # 0 => p > MainPrio
    BY <1>4, Bounds DEF Made
  <2>2. threads' = [threads EXCEPT ![u].state = "runs", ![u].prio = p, ![u].name = "pthread"]
    BY <1>3, <1>5, <2>1 DEF Creation!Boot, Creation!BootAt
  <2>3. threads' = [threads EXCEPT ![u] = [m EXCEPT !.state = "runs", !.prio = p, !.name = "pthread"]]
    BY <1>1, <1>3, <2>2
  <2>4. "pthread" \in Names
    BY DEF Names
  <2>5. registry' = Creation!Registered(u, "pthread")
        /\ UNCHANGED <<main_prio, threads_created, attr, createCall, starts, fresh>>
    BY <1>5 DEF Creation!Boot, Creation!BootAt
  <2>6. QED
    BY <1>3, <2>1, <2>3, <2>4, <2>5, NamedStep
<1>6. ASSUME NEW name \in DOMAIN Creation!Below, Creation!SetName(u, name) PROVE CreationInv'
  <2>1. name \in Names /\ Creation!Below[name] \in Nat /\ Creation!Below[name] > 0
    BY DEF Names, Creation!Below
  <2>2. PICK p \in Int : /\ p = IF main_prio # 0 THEN main_prio + Creation!Below[name] ELSE m.prio
                         /\ m.told # 0 => p > MainPrio
    BY <1>4, <2>1, Bounds DEF Made
  <2>3. threads' = [threads EXCEPT ![u].prio = p, ![u].name = name]
    BY <1>1, <1>3, <1>6, <2>2 DEF Creation!SetName
  <2>4. m.state = "runs"
    BY <1>3, <1>6 DEF Creation!SetName
  <2>5. [m EXCEPT !.prio = p, !.name = name] = [m EXCEPT !.state = "runs", !.prio = p, !.name = name]
    BY <2>4 DEF Made
  <2>6. threads' = [threads EXCEPT ![u] = [m EXCEPT !.prio = p, !.name = name]]
    BY <1>1, <1>3, <2>3
  <2>7. registry' = Creation!Registered(u, name)
        /\ UNCHANGED <<main_prio, threads_created, attr, createCall, starts, fresh>>
    BY <1>6 DEF Creation!SetName
  <2>8. QED
    BY <1>3, <2>1, <2>2, <2>5, <2>6, <2>7, NamedStep
<1>7. CASE Creation!Exit(u)
  <2>1. threads' = [threads EXCEPT ![u] = Creation!None]
        /\ UNCHANGED <<main_prio, threads_created, attr, createCall, registry, starts, fresh>>
    BY <1>7 DEF Creation!Exit
  <2>2. threads' \in [Uids -> {Creation!None} \cup Made]
    BY <1>1, <2>1
  <2>3. \A v \in Uids : threads'[v] = threads[v] \/ threads'[v] = Creation!None
    BY <1>1, <2>1
  <2>4. \A v \in Uids : threads'[v].state = "runs" => threads'[v] = threads[v]
    BY <2>3 DEF Creation!None
  <2>5. CreationTypes' /\ CallsInv'
    BY <2>1, <2>2 DEF CreationInv, CreationTypes, CallsInv
  <2>6. MadeInv'
    <3>1. SUFFICES ASSUME NEW v \in Uids, threads'[v] # Creation!None
                   PROVE  /\ threads'[v].told # 0 => main_prio' = MainPrio
                          /\ threads'[v].stack =
                               IF threads'[v].nth \in BigFirst..BigLast THEN Big ELSE threads'[v].asked
                          /\ threads'[v].state = "runs" /\ threads'[v].told # 0 => threads'[v].prio > MainPrio
      BY DEF MadeInv
    <3>2. QED
      BY <2>1, <2>3, <3>1 DEF CreationInv, MadeInv
  <2>7. RegistryInv'
    BY <2>1, <2>4 DEF CreationInv, RegistryInv, Creation!Known
  <2>8. QED
    BY <2>5, <2>6, <2>7 DEF CreationInv
<1>8. QED
  BY <1>5, <1>6, <1>7

LEMMA CreationStep ==
  ASSUME NEW c, Creators = {c}
  PROVE  CreationInv /\ [Creation!Next]_createVars => CreationInv'
<1> SUFFICES ASSUME CreationInv, [Creation!Next]_createVars PROVE CreationInv'
  OBVIOUS
<1>1. CASE UNCHANGED createVars
  BY <1>1
  DEF createVars, CreationInv, CreationTypes, CallsInv, MadeInv, RegistryInv, Creation!Known
<1>2. ASSUME NEW a \in Attrs, Creation!AttrInit(a) \/ Creation!AttrDestroy(a)
                              \/ \E n \in Asked : Creation!SetStack(a, n)
      PROVE  CreationInv'
  BY <1>2, AttrSteps
<1>3. ASSUME NEW d \in Creators, Creation!Count(d) \/ Creation!Start(d)
                                 \/ \E a \in Attrs \cup {NoAttr} : Creation!Create(d, a)
      PROVE  CreationInv'
  <2>1. d = c
    OBVIOUS
  <2>2. QED
    BY <1>3, <2>1, CountStep, StartStep, CreateStep
<1>4. ASSUME NEW u \in Uids,
             Creation!Boot(u) \/ Creation!Exit(u) \/ \E name \in DOMAIN Creation!Below : Creation!SetName(u, name)
      PROVE  CreationInv'
  BY <1>4, ThreadSteps
<1>5. QED
  BY <1>1, <1>2, <1>3, <1>4 DEF Creation!Next

LEMMA Least ==
  ASSUME NEW S \in SUBSET Nat, S # {}
  PROVE  \E i \in S : \A j \in S : i <= j
<1>1. PICK R : R = OpToRel(<, Nat) /\ IsWellFoundedOn(R, Nat)
  BY NatLessThanWellFounded
<1>2. \A i, j \in Nat : j < i => <<j, i>> \in R
  BY <1>1 DEF OpToRel
<1>3. PICK i \in S : \A j \in S : <<j, i>> \notin R
  BY <1>1, WFMin
<1>4. ASSUME NEW j \in S PROVE i <= j
  <2>1. i \in Nat /\ j \in Nat
    OBVIOUS
  <2>2. ~(j < i)
    BY <1>2, <1>3, <2>1
  <2>3. QED
    BY <2>1, <2>2
<1>5. QED
  BY <1>4

LEMMA Greatest ==
  ASSUME NEW S \in SUBSET Nat, S # {}, NEW m \in Nat, \A i \in S : i <= m
  PROVE  \E i \in S : \A j \in S : j <= i
<1>1. PICK T \in SUBSET Nat : T = {n \in Nat : \A i \in S : i <= n}
  OBVIOUS
<1>2. PICK n \in T : \A k \in T : n <= k
  BY <1>1, Least
<1>3. n \in Nat /\ \A i \in S : i \in Nat /\ i <= n
  BY <1>1
<1>4. ASSUME n \notin S PROVE FALSE
  <2>1. PICK i \in S : i \in Nat /\ i <= n /\ i # n
    BY <1>3, <1>4
  <2>2. n - 1 \in Nat
    BY <1>3, <2>1
  <2>3. \A j \in S : j <= n - 1
    BY <1>3, <1>4
  <2>4. n - 1 \in T
    BY <1>1, <2>2, <2>3
  <2>5. n <= n - 1
    BY <1>2, <2>4
  <2>6. QED
    BY <1>3, <2>5
<1>5. QED
  BY <1>3, <1>4

\* The first places of a line that has no room for one place more.
LEMMA LineFull ==
  ASSUME NEW A \in SUBSET Nat, IsFiniteSet(A), NEW L \in Nat,
         NEW K, K = {i \in A : Cardinality({j \in A : j < i}) < L}, NEW out \in A, out \notin K
  PROVE  IsFiniteSet(K) /\ Cardinality(K) = L
<1>1. PICK before : before = [i \in A |-> {j \in A : j < i}]
  OBVIOUS
<1>2. \A i \in A : before[i] \in SUBSET A /\ \A j \in A : j \in before[i] <=> j < i
  BY <1>1
<1>3. \A i \in A : IsFiniteSet(before[i]) /\ Cardinality(before[i]) \in Nat
  BY <1>2, FS_Subset, FS_CardinalityType
<1>4. K \in SUBSET A /\ IsFiniteSet(K) /\ Cardinality(K) \in Nat
  BY FS_Subset, FS_CardinalityType
<1>5. \A i \in A : i \in K <=> Cardinality(before[i]) < L
  BY <1>1
<1>6. PICK m \in A \ K : \A j \in A \ K : m <= j
  <2>1. A \ K \in SUBSET Nat /\ A \ K # {}
    OBVIOUS
  <2>2. QED
    BY <2>1, Least
<1>7. m \in A /\ m \in Nat /\ m \notin K /\ \A i \in A : i \in Nat
  OBVIOUS
<1>8. before[m] \in SUBSET K
  <2>1. SUFFICES ASSUME NEW j \in before[m], j \notin K PROVE FALSE
    OBVIOUS
  <2>2. j \in A /\ j \in Nat /\ j < m
    BY <1>2, <1>7
  <2>3. m <= j
    BY <1>6, <2>1, <2>2
  <2>4. QED
    BY <1>7, <2>2, <2>3
<1>9. Cardinality(before[m]) >= L
  BY <1>3, <1>5, <1>7
<1>10. Cardinality(K) >= L
  <2>1. Cardinality(before[m]) <= Cardinality(K)
    BY <1>4, <1>8, FS_Subset
  <2>2. Cardinality(before[m]) \in Nat
    BY <1>3, <1>7
  <2>3. QED
    BY <1>4, <1>9, <2>1, <2>2
<1>11. \A i \in K : i <= m
  <2>1. SUFFICES ASSUME NEW i \in K, m < i PROVE FALSE
    BY <1>4, <1>7
  <2>2. i \in A /\ i \in Nat
    BY <1>4, <1>7
  <2>3. before[m] \in SUBSET before[i]
    <3>1. ASSUME NEW j \in before[m] PROVE j \in before[i]
      <4>1. j \in A /\ j \in Nat /\ j < m
        BY <1>2, <1>7
      <4>2. j < i
        BY <1>7, <2>1, <2>2, <4>1
      <4>3. QED
        BY <1>2, <2>2, <4>1, <4>2
    <3>2. QED
      BY <3>1
  <2>4. Cardinality(before[m]) <= Cardinality(before[i])
    BY <1>3, <2>2, <2>3, FS_Subset
  <2>5. Cardinality(before[i]) < L
    BY <1>5, <2>2
  <2>6. Cardinality(before[m]) \in Nat /\ Cardinality(before[i]) \in Nat
    BY <1>3, <1>7, <2>2
  <2>7. QED
    BY <1>9, <2>4, <2>5, <2>6
<1>12. Cardinality(K) <= L
  <2>1. CASE K = {}
    <3>1. Cardinality(K) = 0
      BY <1>4, <2>1, FS_EmptySet, Zenon
    <3>2. QED
      BY <3>1
  <2>2. CASE K # {}
    <3>1. K \in SUBSET Nat
      BY <1>4
    <3>2. PICK n \in K : \A j \in K : j <= n
      BY <1>7, <1>11, <2>2, <3>1, Greatest
    <3>3. n \in A /\ n \in Nat
      BY <1>4, <1>7
    <3>4. K \ {n} \in SUBSET before[n]
      <4>1. ASSUME NEW j \in K, j # n PROVE j \in before[n]
        <5>1. j \in A /\ j \in Nat /\ j <= n
          BY <1>4, <1>7, <3>2
        <5>2. j < n
          BY <3>3, <4>1, <5>1
        <5>3. QED
          BY <1>2, <3>3, <5>1, <5>2
      <4>2. QED
        BY <4>1
    <3>5. Cardinality(K \ {n}) <= Cardinality(before[n])
      BY <1>3, <3>3, <3>4, FS_Subset
    <3>6. Cardinality(K \ {n}) = Cardinality(K) - 1
      BY <1>4, FS_RemoveElement
    <3>7. Cardinality(before[n]) < L /\ Cardinality(before[n]) \in Nat
      BY <1>3, <1>5, <3>3
    <3>8. QED
      BY <1>4, <3>5, <3>6, <3>7
  <2>3. QED
    BY <2>1, <2>2
<1>13. QED
  BY <1>4, <1>10, <1>12

LEMMA ReportFull ==
  ASSUME CreationInv
  PROVE  Creation!Reported
<1>1. SUFFICES ASSUME NEW u \in Uids, threads[u].state = "runs", Creation!Known(u),
                      [uid |-> u, name |-> threads[u].name] \notin Creation!watchdog_fn
               PROVE  /\ Creation!Cardinality(Creation!watchdog_fn) = Lines
                      /\ \A r \in Creation!watchdog_fn : r.uid # u
  BY DEF Creation!Reported
<1>2. registry \in Seq(Entry) /\ Len(registry) \in Nat
  BY DEF CreationInv, CreationTypes
<1>3. \A i \in 1..Len(registry) : registry[i] \in Entry
  BY <1>2
<1>4. PICK out \in 1..Len(registry) : registry[out].uid = u
  BY <1>1 DEF Creation!Known
<1>5. registry[out].name = threads[u].name
  BY <1>1, <1>4 DEF CreationInv, RegistryInv
<1>6. registry[out] = [uid |-> u, name |-> threads[u].name]
  BY <1>3, <1>4, <1>5 DEF Entry
<1>7. PICK A : A = {i \in 1..Len(registry) : Creation!Alive(registry[i].uid)}
  OBVIOUS
<1>8. A \in SUBSET Nat /\ IsFiniteSet(A)
  <2>1. A \in SUBSET (1..Len(registry)) /\ IsFiniteSet(1..Len(registry))
    BY <1>2, <1>7, FS_Interval
  <2>2. IsFiniteSet(A)
    BY <2>1, FS_Subset
  <2>3. QED
    BY <1>2, <2>1, <2>2
<1>9. \A S : Creation!Cardinality(S) = Cardinality(S)
  BY DEF Creation!Cardinality, Cardinality
<1>10. PICK K : K = {i \in A : Cardinality({j \in A : j < i}) < Lines}
  OBVIOUS
<1>11. Creation!watchdog_fn = {registry[i] : i \in K}
  BY <1>7, <1>9, <1>10 DEF Creation!watchdog_fn, Creation!ReportUpTo
<1>12. out \in A /\ out \notin K
  BY <1>1, <1>4, <1>6, <1>7, <1>11 DEF Creation!Alive
<1>13. IsFiniteSet(K) /\ Cardinality(K) = Lines
  BY <1>8, <1>10, <1>12, LineFull, Bounds
<1>14. K \subseteq 1..Len(registry)
  BY <1>7, <1>10
<1>15. \A i, j \in K : registry[i].uid = registry[j].uid => i = j
  BY <1>14 DEF CreationInv, RegistryInv
<1>16. PICK At : At = [i \in K |-> registry[i]]
  OBVIOUS
<1>17. PICK row : row = {registry[i] : i \in K}
  OBVIOUS
<1>18. At \in Bijection(K, row)
  <2>1. At \in [K -> row]
    BY <1>16, <1>17
  <2>2. \A i, j \in K : At[i] = At[j] => i = j
    BY <1>15, <1>16
  <2>3. At \in Injection(K, row)
    BY <2>1, <2>2, Zenon DEF Injection, IsInjective
  <2>4. \A r \in row : \E i \in K : At[i] = r
    BY <1>16, <1>17
  <2>5. At \in Surjection(K, row)
    BY <2>1, <2>4, Zenon DEF Surjection
  <2>6. QED
    BY <2>3, <2>5, Zenon DEF Bijection
<1>19. Cardinality(row) = Cardinality(K)
  <2>1. ExistsBijection(K, row)
    BY <1>18, Zenon DEF ExistsBijection
  <2>2. QED
    BY <1>13, <2>1, FS_Bijection
<1>20. \A r \in row : r.uid # u
  BY <1>4, <1>12, <1>14, <1>17 DEF CreationInv, RegistryInv
<1>21. QED
  BY <1>9, <1>11, <1>13, <1>17, <1>19, <1>20

LEMMA CreationIs ==
  ASSUME NEW c, Creators = {c}, CreationInv
  PROVE  ThreadsAsMeant
<1>1. Creation!BigStacks /\ Creation!BelowMain
  BY DEF CreationInv, MadeInv, Creation!BigStacks, Creation!BelowMain, Creation!Alive, Creation!None
<1>2. Creation!KnownOnce
  BY DEF CreationInv, RegistryInv, Creation!KnownOnce
<1>3. Creation!Reported
  BY ReportFull
<1>4. Creation!TypeOK
  <2>1. threads_created \in 0..MaxCreated
    <3>1. threads_created \in Nat /\ starts \in 0..MaxCreated /\ createCall[c] \in {Creation!Idle} \cup Began
      BY DEF CreationInv, CreationTypes
    <3>2. threads_created = starts \/ starts = threads_created + 1
      BY <3>1 DEF CreationInv, CallsInv, Began
    <3>3. QED
      BY <3>1, <3>2, Bounds
  <2>2. registry \in Seq([uid : Uids, name : {"pthread"} \cup DOMAIN Creation!Below])
    <3>1. {"pthread"} \cup DOMAIN Creation!Below = Names
      BY DEF Names, Creation!Below
    <3>2. QED
      BY <3>1 DEF CreationInv, CreationTypes, Entry
  <2>3. \A u \in Uids : Creation!Alive(u) => threads[u].stack \in Small..Largest
    BY DEF CreationInv, CreationTypes, Made, Stacks, Creation!Alive, Creation!None
  <2>4. \A d \in Creators : createCall[d].pc \in {"idle", "count", "start"}
    BY DEF CreationInv, CreationTypes, Began, Creation!Idle
  <2>5. QED
    BY <2>1, <2>2, <2>3, <2>4 DEF CreationInv, CreationTypes, Creation!TypeOK, Stacks
<1>5. QED
  BY <1>1, <1>2, <1>3, <1>4 DEF ThreadsAsMeant

\* Whatever order threads are created, named and ended in, and for any sizes of
\* the stacks, the registry and the watchdog's line: the threads that are meant
\* to have the big stack have it and the others what the game asked for, none
\* that runs starves the main thread once the kernel has told its priority, and
\* the watchdog knows each once and by its name (pthread_bridge.c:122-156,
\* main.c:217-230); if one thread creates them, as the number of a creation is
\* not taken under a lock.
THEOREM ThreadsSafe ==
  ASSUME NEW c, Creators = {c}
  PROVE  AllSpec => []ThreadsAsMeant
<1>1. AllInit => CreationInv
  BY CreationStart DEF AllInit
<1>2. [AllNext]_allVars => [Creation!Next]_createVars
  BY DEF AllNext, allVars, createVars
<1>3. CreationInv /\ [AllNext]_allVars => CreationInv'
  BY <1>2, CreationStep
<1>4. CreationInv => ThreadsAsMeant
  BY CreationIs
<1>5. QED
  BY <1>1, <1>3, <1>4, PTL DEF AllSpec

\* The semaphores again: the facts that PthreadSem_proofs proves hold of the
\* semaphores of this module, since both instances have the same variables.
SemFacts == INSTANCE PthreadSem_proofs WITH
    slot <- semSlot, bridge_lock <- semLock, call <- semCall

LEMMA SameInit == Sem!Init => SemFacts!Init
BY DEF Sem!Init, SemFacts!Init, Sem!Ids, SemFacts!Ids, Sem!Idle, SemFacts!Idle

\* An action of the one instance is the same action of the other.
LEMMA SameStep == [Sem!Next]_(Sem!vars) => [SemFacts!Next]_(SemFacts!vars)
<1>1. \A S : Sem!Cardinality(S) = SemFacts!Cardinality(S)
  BY DEF Sem!Cardinality, SemFacts!Cardinality
<1>2. \A op, s : Sem!Legal(op, s) => SemFacts!Legal(op, s)
  BY <1>1 DEF Sem!Legal, SemFacts!Legal, Sem!Uses, SemFacts!Uses, Sem!Idle, SemFacts!Idle,
              Sem!Count, SemFacts!Count
<1>3. \A t, s, op : Sem!Call(t, op, s) => SemFacts!Call(t, op, s)
  BY <1>2 DEF Sem!Call, SemFacts!Call, Sem!Enter, SemFacts!Enter, Sem!Idle, SemFacts!Idle
<1>4. \A t, s, d : Sem!sem_timedwait(t, s, d) => SemFacts!sem_timedwait(t, s, d)
  BY <1>2 DEF Sem!sem_timedwait, SemFacts!sem_timedwait, Sem!Enter, SemFacts!Enter,
              Sem!Idle, SemFacts!Idle
<1>5. \A t, s, v : Sem!sem_init(t, s, v) => SemFacts!sem_init(t, s, v)
  BY <1>2 DEF Sem!sem_init, SemFacts!sem_init, Sem!Enter, SemFacts!Enter, Sem!Idle,
              SemFacts!Idle
<1>6. \A t, s : Sem!sem_destroy(t, s) => SemFacts!sem_destroy(t, s)
  BY <1>2 DEF Sem!sem_destroy, SemFacts!sem_destroy, Sem!Idle, SemFacts!Idle
<1>7. \A t : Sem!Look(t) => SemFacts!Look(t)
  BY DEF Sem!Look, SemFacts!Look, Sem!In, SemFacts!In, Sem!Goto, SemFacts!Goto
<1>8. \A t : Sem!Lock(t) => SemFacts!Lock(t)
  BY DEF Sem!Lock, SemFacts!Lock, Sem!In, SemFacts!In, Sem!Goto, SemFacts!Goto
<1>9. \A t : Sem!Create(t) => SemFacts!Create(t)
  BY DEF Sem!Create, SemFacts!Create, Sem!CreateIf, SemFacts!CreateIf, Sem!SlotOf,
         SemFacts!SlotOf, Sem!In, SemFacts!In, Sem!Goto, SemFacts!Goto
<1>10. \A t : Sem!Got(t) => SemFacts!Got(t)
  BY DEF Sem!Got, SemFacts!Got, Sem!In, SemFacts!In, Sem!Return, SemFacts!Return, Sem!Idle,
         SemFacts!Idle, Sem!Alive, SemFacts!Alive, Sem!Ids, SemFacts!Ids, Sem!TimeoutOf,
         SemFacts!TimeoutOf, Sem!MicrosUntil, SemFacts!MicrosUntil, Sem!Sec, SemFacts!Sec,
         Sem!Nsec, SemFacts!Nsec, Sem!Quot, SemFacts!Quot
<1>11. \A t : Sem!PostSema(t) => SemFacts!PostSema(t)
  BY DEF Sem!PostSema, SemFacts!PostSema, Sem!PostOf, SemFacts!PostOf, Sem!In, SemFacts!In,
         Sem!Return, SemFacts!Return, Sem!Idle, SemFacts!Idle
<1>12. \A t : Sem!WaitSema(t) => SemFacts!WaitSema(t)
  BY DEF Sem!WaitSema, SemFacts!WaitSema, Sem!In, SemFacts!In, Sem!Return, SemFacts!Return,
         Sem!Idle, SemFacts!Idle
<1>13. \A t : Sem!Timeout(t) => SemFacts!Timeout(t)
  BY DEF Sem!Timeout, SemFacts!Timeout, Sem!In, SemFacts!In, Sem!Return, SemFacts!Return,
         Sem!Idle, SemFacts!Idle
<1>14. Sem!Tick => SemFacts!Tick
  BY DEF Sem!Tick, SemFacts!Tick
<1>15. UNCHANGED Sem!vars => UNCHANGED SemFacts!vars
  BY DEF Sem!vars, SemFacts!vars
<1>16. QED
  BY <1>3, <1>4, <1>5, <1>6, <1>7, <1>8, <1>9, <1>10, <1>11, <1>12, <1>13, <1>14, <1>15
     DEF Sem!Next, SemFacts!Next, Sem!Step, SemFacts!Step

LEMMA SameSemaphores == Sem!Spec => SemFacts!Spec
BY SameInit, SameStep, PTL DEF Sem!Spec, SemFacts!Spec

LEMMA SameInvariants == SemFacts!TypeOK /\ SemFacts!NoStray => Sem!TypeOK /\ Sem!NoStray
<1>1. \A S : Sem!Cardinality(S) = SemFacts!Cardinality(S)
  BY DEF Sem!Cardinality, SemFacts!Cardinality
<1>2. SemFacts!TypeOK => Sem!TypeOK
  BY DEF Sem!TypeOK, SemFacts!TypeOK, Sem!Ids, SemFacts!Ids
<1>3. SemFacts!NoStray => Sem!NoStray
  BY <1>1 DEF Sem!NoStray, SemFacts!NoStray, Sem!Ids, SemFacts!Ids
<1>4. QED
  BY <1>2, <1>3

LEMMA SameAbstract == SemFacts!Abstract!Spec => Sem!Abstract!Spec
<1>1. SemFacts!Abstract!Init => Sem!Abstract!Init
  BY DEF Sem!Abstract!Init, SemFacts!Abstract!Init, Sem!Count, SemFacts!Count, Sem!Idle,
         SemFacts!Idle
<1>2. [SemFacts!Abstract!Next]_(SemFacts!Abstract!vars) => [Sem!Abstract!Next]_(Sem!Abstract!vars)
  BY DEF Sem!Abstract!vars, SemFacts!Abstract!vars, Sem!Abstract!Init,
         SemFacts!Abstract!Init, Sem!Abstract!Begin, SemFacts!Abstract!Begin,
         Sem!Abstract!Set, SemFacts!Abstract!Set, Sem!Abstract!Ends, SemFacts!Abstract!Ends,
         Sem!Abstract!Call, SemFacts!Abstract!Call, Sem!Abstract!Initialise,
         SemFacts!Abstract!Initialise, Sem!Abstract!Destroy, SemFacts!Abstract!Destroy,
         Sem!Abstract!Post, SemFacts!Abstract!Post, Sem!Abstract!Take,
         SemFacts!Abstract!Take, Sem!Abstract!Return, SemFacts!Abstract!Return,
         Sem!Abstract!Next, SemFacts!Abstract!Next, Sem!Count, SemFacts!Count, Sem!Idle,
         SemFacts!Idle
<1>3. QED
  BY <1>1, <1>2, PTL DEF Sem!Abstract!Spec, SemFacts!Abstract!Spec

LEMMA SameDeadlines == SemFacts!NotEarly => Sem!NotEarly
<1>1. [\A t \in Threads :
          SemFacts!In(t, "kernel") /\ semCall[t].op = "timedwait" /\ outcome'[t] = "failed" =>
              clock + NanosPerMicro > semCall[t].until]_(SemFacts!vars)
      => [\A t \in Threads :
          Sem!In(t, "kernel") /\ semCall[t].op = "timedwait" /\ outcome'[t] = "failed" =>
              clock + NanosPerMicro > semCall[t].until]_(Sem!vars)
  BY DEF Sem!In, SemFacts!In, Sem!vars, SemFacts!vars
<1>2. QED
  BY <1>1, PTL DEF Sem!NotEarly, SemFacts!NotEarly

LEMMA SemaphorePart == AllSpec => Sem!Spec
<1>1. AllInit => Sem!Init
  BY DEF AllInit
<1>2. [AllNext]_allVars => [Sem!Next]_(Sem!vars)
  BY DEF AllNext, allVars, semVars, Sem!vars
<1>3. QED
  BY <1>1, <1>2, PTL DEF AllSpec, Sem!Spec

(***************************************************************************)
(* For any number of threads, semaphores and counts, and any bounds: the   *)
(* game's semaphores are counting semaphores from their first use on, also *)
(* where the kernel refuses to create one; none has two kernel objects;    *)
(* and a timed wait gives up no earlier than a microsecond before its      *)
(* deadline (pthread_bridge.c:172-206).                                    *)
(***************************************************************************)
THEOREM SemaphoresSafe == AllSpec => ImplementsSemaphore
<1>1. SemFacts!SemAssumption
  BY SemBounds DEF Sem!SemAssumption, SemFacts!SemAssumption
<1>2. AllSpec => SemFacts!Spec
  BY SemaphorePart, SameSemaphores
<1>3. AllSpec => [](Sem!TypeOK /\ Sem!NoStray)
  <2>1. SemFacts!Spec => [](SemFacts!TypeOK /\ SemFacts!NoStray)
    BY <1>1, SemFacts!NoneStray
  <2>2. QED
    BY <1>2, <2>1, SameInvariants, PTL
<1>4. AllSpec => Sem!ImplementsSemaphore
  <2>1. SemFacts!Spec => SemFacts!Abstract!Spec
    BY <1>1, SemFacts!Refinement DEF SemFacts!ImplementsSemaphore
  <2>2. QED
    BY <1>2, <2>1, SameAbstract DEF Sem!ImplementsSemaphore
<1>5. AllSpec => Sem!NotEarly
  <2>1. SemFacts!Spec => SemFacts!NotEarly
    BY <1>1, SemFacts!OnTime
  <2>2. QED
    BY <1>2, <2>1, SameDeadlines
<1>6. QED
  BY <1>3, <1>4, <1>5 DEF ImplementsSemaphore
=============================================================================

-------------------------- MODULE GLBuffers_proofs --------------------------
(***************************************************************************)
(* Writes stay within their storage, for any threads, targets, buffers and *)
(* sizes.  What has to be known of the unlock window of glUnmapBufferOES   *)
(* is that one thread at a time unmaps a target, and that the target stays *)
(* mapped, with the staging block that the game was given, until it is     *)
(* done: so the size that is uploaded is still the size of that block.     *)
(***************************************************************************)
EXTENDS GLBuffers, TLAPS

\* A block is there for a mapping of some size, never for one of nothing.
BlockSized == \A g \in Targets : staging[g].block => staging[g].size > 0

\* What a thread unmaps is mapped to staging, and nobody else unmaps it.
UnmapsOnce ==
    /\ \A t \in Threads, g \in Targets : Unmapping(t, g) => mapped[g].at = "staging"
    /\ \A t, u \in Threads, g \in Targets : Unmapping(t, g) /\ Unmapping(u, g) => t = u

IInv == WithinStorage /\ BlockSized /\ UnmapsOnce

LEMMA InitInv == Init => IInv
<1> SUFFICES ASSUME Init PROVE IInv
  OBVIOUS
<1>1. TypeOK
  BY BufferAssumption DEF Init, TypeOK, Empty, Unmapped, Calls
<1>2. InBounds /\ StagingFits /\ BlockSized /\ UnmapsOnce
  BY DEF Init, InBounds, StagingFits, BlockSized, UnmapsOnce, Unmapping, Unmapped
<1>3. QED
  BY <1>1, <1>2 DEF IInv, WithinStorage

----------------------------------------------------------------------------
(* The parts that entries share. *)

LEMMA BufType ==
  ASSUME TypeOK, NEW b \in Buffers \cup {NoBuffer}
  PROVE  Buf(b) \in [size : 0..MaxSize, stored : BOOLEAN]
  BY BufferAssumption DEF TypeOK, Buf, Empty

LEMMA NeedType ==
  ASSUME NEW cur \in 0..MaxSize, NEW end \in 1..MaxSize
  PROVE  Need(cur, end) \in 1..MaxSize /\ Need(cur, end) >= end
  BY BufferAssumption DEF Need, Larger

\* Whatever is bound, an allocation leaves buffers of sizes that were asked for.
LEMMA AllocateType ==
  ASSUME TypeOK, NEW g \in Targets, NEW n \in 1..MaxSize, Allocate(g, n)
  PROVE  /\ buf' \in [Buffers -> [size : 0..MaxSize, stored : BOOLEAN]]
         /\ failures' \in 0..MaxFailures
<1>1. PICK f \in 0..2 :
        /\ failures + f <= MaxFailures
        /\ failures' = failures + f
        /\ buf' = IF binding[g] = NoBuffer THEN buf
                  ELSE [buf EXCEPT ![binding[g]] = [size |-> n, stored |-> n > 0 /\ f < 2]]
  BY DEF Allocate
<1>2. [size |-> n, stored |-> n > 0 /\ f < 2] \in [size : 0..MaxSize, stored : BOOLEAN]
  BY BufferAssumption
<1>3. QED
  BY <1>1, <1>2, BufferAssumption DEF TypeOK

\* A call in the middle of glBufferSubData.
SubData == [pc : {"recreate", "write"}, target : Targets, end : 1..MaxSize,
            need : 1..MaxSize, buffer : Buffers \cup {NoBuffer}, unmap : BOOLEAN]

LEMMA SubDataCall ==
  ASSUME NEW c \in Calls, c.pc \in {"recreate", "write"}
  PROVE  c \in SubData /\ c # Idle
<1>1. c # Idle
  BY DEF Idle
<1>2. ASSUME NEW S, c \in [pc : {"upload"}, target : Targets, unmap : S] PROVE FALSE
  <2>1. c.pc \in {"upload"}
    BY <1>2
  <2>2. QED
    BY <2>1
<1>3. ASSUME NEW S, c \in [pc : {"unmap"}, target : Targets, end : 1..MaxSize, need : 1..MaxSize,
                           buffer : Buffers \cup {NoBuffer}, unmap : S]
      PROVE  FALSE
  <2>1. c.pc \in {"unmap"}
    BY <1>3
  <2>2. QED
    BY <2>1
<1>4. QED
  BY <1>1, <1>2, <1>3 DEF Calls, SubData

\* A call of glUnmapBufferOES before and after its upload.
LEMMA UnmapCall ==
  ASSUME NEW c \in Calls, c.pc \in {"upload", "unmap"}
  PROVE  c # Idle /\ c.target \in Targets /\ c.unmap = TRUE
<1>1. c # Idle
  BY DEF Idle
<1>2. CASE c \in [pc : {"upload"}, target : Targets, unmap : {TRUE}]
  BY <1>1, <1>2
<1>3. CASE c \in SubData
  <2>1. c.pc \in {"recreate", "write"}
    BY <1>3 DEF SubData
  <2>2. QED
    BY <2>1
<1>4. CASE c \in [pc : {"unmap"}, target : Targets, end : 1..MaxSize, need : 1..MaxSize,
                 buffer : Buffers \cup {NoBuffer}, unmap : {TRUE}]
  BY <1>1, <1>4
<1>5. QED
  BY <1>1, <1>2, <1>3, <1>4 DEF Calls, SubData

\* The end of glBufferSubData writes no further than the size allows, and goes
\* on with the unmap that it belongs to, or is done.
LEMMA WriteStep ==
  ASSUME TypeOK, InBounds, NEW t \in Threads, NEW c \in SubData, Write(t, c)
  PROVE  /\ faults' \subseteq {"overrun", "astray", "lost"} /\ InBounds'
         /\ call' \in [Threads -> Calls]
         /\ \A u \in Threads : u # t => call'[u] = call[u]
         /\ \A h \in Targets : Unmapping(t, h)' => c.unmap /\ h = c.target
<1>1. c.target \in Targets /\ c.end \in 1..MaxSize /\ c.unmap \in BOOLEAN
  BY DEF SubData
<1>2. Buf(binding[c.target]).size \in 0..MaxSize
  BY <1>1, BufType DEF TypeOK
<1>3. faults' \subseteq {"overrun", "astray", "lost"}
  BY DEF TypeOK, Write, WriteIf, Fault
<1>4. InBounds'
  BY <1>1, <1>2, BufferAssumption DEF InBounds, Write, WriteIf, Fault
<1> DEFINE e == IF c.unmap THEN [c EXCEPT !.pc = "unmap"] ELSE Idle
<1>5. e \in Calls /\ (e # Idle => c.unmap /\ e.target = c.target)
  BY DEF SubData, Calls
<1>6. call' = [call EXCEPT ![t] = e]
  BY DEF Write, WriteIf
<1> HIDE DEF e
<1>7. QED
  BY <1>3, <1>4, <1>5, <1>6 DEF TypeOK, Unmapping

\* glBufferSubData up to its write: it either writes, or leaves a call that
\* knows how much storage to ask for.
LEMMA EnterStep ==
  ASSUME TypeOK, InBounds, NEW t \in Threads, NEW g \in Targets, NEW end \in 1..MaxSize,
         NEW unmap \in BOOLEAN, EnterSubData(t, g, end, unmap)
  PROVE  /\ faults' \subseteq {"overrun", "astray", "lost"} /\ InBounds'
         /\ call' \in [Threads -> Calls]
         /\ \A u \in Threads : u # t => call'[u] = call[u]
         /\ \A h \in Targets : Unmapping(t, h)' => unmap /\ h = g
<1> DEFINE cur == Buf(binding[g]).size
           c == [pc |-> "recreate", target |-> g, end |-> end, need |-> Need(cur, end),
                 buffer |-> binding[g], unmap |-> unmap]
<1>1. cur \in 0..MaxSize /\ binding[g] \in Buffers \cup {NoBuffer}
  BY BufType DEF TypeOK
<1>2. c \in SubData /\ c \in Calls /\ c.target = g /\ c.unmap = unmap
  BY <1>1, NeedType DEF SubData, Calls
<1>3. CASE cur <= 0 \/ cur < end
  <2>1. call' = [call EXCEPT ![t] = c] /\ faults' = faults
    BY <1>3 DEF EnterSubData
  <2> HIDE DEF c
  <2>2. QED
    BY <2>1, <1>2 DEF TypeOK, InBounds, Unmapping
<1>4. CASE ~(cur <= 0 \/ cur < end)
  <2>1. Write(t, c)
    BY <1>4 DEF EnterSubData
  <2> HIDE DEF c
  <2>2. QED
    BY <2>1, <1>2, WriteStep
<1>5. QED
  BY <1>3, <1>4

\* A step of one thread that leaves the mappings alone, and begins no unmap.
LEMMA UnmapsOn ==
  ASSUME UnmapsOnce, NEW t \in Threads, UNCHANGED mapped,
         \A u \in Threads : u # t => call'[u] = call[u],
         \A h \in Targets : Unmapping(t, h)' => Unmapping(t, h)
  PROVE  UnmapsOnce'
<1>1. \A u \in Threads, h \in Targets : Unmapping(u, h)' => Unmapping(u, h)
  BY DEF Unmapping
<1>2. QED
  BY <1>1 DEF UnmapsOnce

\* What the states between the calls' parts need: nothing but calls and faults,
\* or the buffers, changed.
LEMMA RestKept ==
  ASSUME IInv, UNCHANGED <<mapped, staging>>
  PROVE  StagingFits' /\ BlockSized'
  BY DEF IInv, WithinStorage, StagingFits, BlockSized

----------------------------------------------------------------------------
(* The entries. *)

LEMMA BindInv ==
  ASSUME IInv, NEW t \in Threads, NEW g \in Targets, NEW b \in Buffers \cup {NoBuffer},
         glBindBuffer(t, g, b)
  PROVE  IInv'
<1>1. TypeOK'
  BY DEF IInv, WithinStorage, TypeOK, glBindBuffer
<1>2. InBounds' /\ StagingFits' /\ BlockSized' /\ UnmapsOnce'
  BY DEF IInv, WithinStorage, InBounds, StagingFits, BlockSized, UnmapsOnce, Unmapping, glBindBuffer
<1>3. QED
  BY <1>1, <1>2 DEF IInv, WithinStorage

LEMMA DeleteInv ==
  ASSUME IInv, NEW t \in Threads, NEW b \in Buffers, glDeleteBuffers(t, b)
  PROVE  IInv'
<1>1. TypeOK'
  BY BufferAssumption DEF IInv, WithinStorage, TypeOK, glDeleteBuffers, Empty
<1>2. InBounds' /\ StagingFits' /\ BlockSized' /\ UnmapsOnce'
  BY DEF IInv, WithinStorage, InBounds, StagingFits, BlockSized, UnmapsOnce, Unmapping, glDeleteBuffers
<1>3. QED
  BY <1>1, <1>2 DEF IInv, WithinStorage

LEMMA DataInv ==
  ASSUME IInv, NEW t \in Threads, NEW g \in Targets, NEW n \in 1..MaxSize, glBufferData(t, g, n)
  PROVE  IInv'
<1>1. /\ buf' \in [Buffers -> [size : 0..MaxSize, stored : BOOLEAN]]
      /\ failures' \in 0..MaxFailures
  BY AllocateType DEF IInv, WithinStorage, glBufferData
<1>2. TypeOK'
  BY <1>1 DEF IInv, WithinStorage, TypeOK, glBufferData
<1>3. InBounds' /\ StagingFits' /\ BlockSized' /\ UnmapsOnce'
  BY DEF IInv, WithinStorage, InBounds, StagingFits, BlockSized, UnmapsOnce, Unmapping, glBufferData
<1>4. QED
  BY <1>2, <1>3 DEF IInv, WithinStorage

LEMMA SubDataInv ==
  ASSUME IInv, NEW t \in Threads, NEW g \in Targets, NEW end \in 1..MaxSize,
         glBufferSubData(t, g, end)
  PROVE  IInv'
<1>1. /\ TypeOK /\ InBounds /\ FALSE \in BOOLEAN /\ EnterSubData(t, g, end, FALSE)
      /\ UNCHANGED <<binding, buf, mapped, staging, failures>>
  BY DEF IInv, WithinStorage, glBufferSubData
<1>2. /\ faults' \subseteq {"overrun", "astray", "lost"} /\ InBounds'
      /\ call' \in [Threads -> Calls]
      /\ \A u \in Threads : u # t => call'[u] = call[u]
      /\ \A h \in Targets : ~Unmapping(t, h)'
  BY <1>1, EnterStep
<1>3. TypeOK'
  BY <1>1, <1>2 DEF TypeOK
<1>4. UnmapsOnce'
  BY <1>1, <1>2, UnmapsOn DEF IInv
<1>5. QED
  BY <1>1, <1>2, <1>3, <1>4, RestKept DEF IInv, WithinStorage

LEMMA RecreateInv ==
  ASSUME IInv, NEW t \in Threads, Recreate(t)
  PROVE  IInv'
<1>1. call[t] \in SubData /\ call[t] # Idle
  BY SubDataCall DEF IInv, WithinStorage, TypeOK, Recreate
<1>2. call[t].target \in Targets /\ call[t].need \in 1..MaxSize
  BY <1>1 DEF SubData
<1>3. /\ buf' \in [Buffers -> [size : 0..MaxSize, stored : BOOLEAN]]
      /\ failures' \in 0..MaxFailures
  BY <1>2, AllocateType DEF IInv, WithinStorage, Recreate
<1> DEFINE e == [call[t] EXCEPT !.pc = "write"]
<1>4. /\ e \in Calls /\ e.target = call[t].target /\ e.unmap = call[t].unmap
      /\ call' = [call EXCEPT ![t] = e]
      /\ UNCHANGED <<binding, mapped, staging, faults>>
  BY <1>1 DEF SubData, Calls, Recreate, IInv, WithinStorage, TypeOK
<1> HIDE DEF e
<1>5. TypeOK'
  BY <1>3, <1>4 DEF IInv, WithinStorage, TypeOK
<1>6. /\ \A u \in Threads : u # t => call'[u] = call[u]
      /\ \A h \in Targets : Unmapping(t, h)' => Unmapping(t, h)
  BY <1>1, <1>4 DEF IInv, WithinStorage, TypeOK, Unmapping
<1>7. UnmapsOnce'
  BY <1>4, <1>6, UnmapsOn DEF IInv
<1>8. QED
  BY <1>4, <1>5, <1>7, RestKept DEF IInv, WithinStorage, InBounds

LEMMA FinishSubDataInv ==
  ASSUME IInv, NEW t \in Threads, FinishSubData(t)
  PROVE  IInv'
<1>1. call[t] \in SubData /\ call[t] # Idle
  BY SubDataCall DEF IInv, WithinStorage, TypeOK, FinishSubData
<1>2. /\ TypeOK /\ InBounds /\ Write(t, call[t])
      /\ UNCHANGED <<binding, buf, mapped, staging, failures>>
  BY DEF IInv, WithinStorage, FinishSubData
<1>3. /\ faults' \subseteq {"overrun", "astray", "lost"} /\ InBounds'
      /\ call' \in [Threads -> Calls]
      /\ \A u \in Threads : u # t => call'[u] = call[u]
      /\ \A h \in Targets : Unmapping(t, h)' => call[t].unmap /\ h = call[t].target
  BY <1>1, <1>2, WriteStep
<1>4. \A h \in Targets : Unmapping(t, h)' => Unmapping(t, h)
  BY <1>1, <1>3 DEF Unmapping
<1>5. TypeOK'
  BY <1>2, <1>3 DEF TypeOK
<1>6. UnmapsOnce'
  BY <1>2, <1>3, <1>4, UnmapsOn DEF IInv
<1>7. QED
  BY <1>2, <1>3, <1>5, <1>6, RestKept DEF IInv, WithinStorage

\* The mapping that a call of glMapBufferOES makes fits what is behind it.
LEMMA MapInv ==
  ASSUME IInv, NEW t \in Threads, NEW g \in Targets, glMapBufferOES(t, g)
  PROVE  IInv'
<1> DEFINE b == Buf(binding[g])
           grow == ~b.stored /\ b.size > staging[g].size
           block == staging'[g].block
<1>1. b \in [size : 0..MaxSize, stored : BOOLEAN]
  BY BufType DEF IInv, WithinStorage, TypeOK
<1>2. PICK ok \in BOOLEAN :
        /\ ~ok => grow /\ failures < MaxFailures
        /\ failures' = IF ok THEN failures ELSE failures + 1
        /\ staging' = IF grow THEN [staging EXCEPT ![g] = [size |-> b.size, block |-> ok]]
                      ELSE staging
  BY DEF glMapBufferOES, MapGrowing
<1>3. /\ mapped[g] = Unmapped
      /\ mapped' = [mapped EXCEPT ![g] =
                       IF b.stored THEN [at |-> "storage", size |-> b.size]
                       ELSE IF block THEN [at |-> "staging", size |-> b.size]
                       ELSE Unmapped]
      /\ UNCHANGED <<binding, buf, call, faults>>
  BY DEF glMapBufferOES, MapGrowing
<1> HIDE DEF b
<1>4. TypeOK'
  <2>1. staging' \in [Targets -> [size : 0..MaxSize, block : BOOLEAN]]
    BY <1>1, <1>2 DEF IInv, WithinStorage, TypeOK
  <2>2. mapped' \in [Targets -> [at : {"none", "storage", "staging"}, size : 0..MaxSize]]
    BY <1>1, <1>3, BufferAssumption DEF IInv, WithinStorage, TypeOK, Unmapped
  <2>3. failures' \in 0..MaxFailures
    BY <1>2, BufferAssumption DEF IInv, WithinStorage, TypeOK
  <2>4. QED
    BY <1>3, <2>1, <2>2, <2>3 DEF IInv, WithinStorage, TypeOK
<1>5. /\ staging \in [Targets -> [size : 0..MaxSize, block : BOOLEAN]]
      /\ mapped \in [Targets -> [at : {"none", "storage", "staging"}, size : 0..MaxSize]]
      /\ staging[g].size \in 0..MaxSize /\ b.size \in 0..MaxSize
      /\ MaxSize \in Nat
  BY <1>1, BufferAssumption DEF IInv, WithinStorage, TypeOK
<1>6. ASSUME NEW h \in Targets, mapped'[h].at = "staging"
      PROVE  staging'[h].block /\ staging'[h].size >= mapped'[h].size
  <2>1. CASE h # g
    BY <1>2, <1>3, <1>5, <1>6, <2>1 DEF IInv, WithinStorage, StagingFits
  <2>2. CASE h = g
    <3>1. ~b.stored /\ block /\ mapped'[g].size = b.size
      BY <1>3, <1>5, <1>6, <2>2 DEF Unmapped
    <3>2. staging'[g].size >= b.size
      BY <1>2, <1>5, <3>1
    <3>3. QED
      BY <2>2, <3>1, <3>2
  <2>3. QED
    BY <2>1, <2>2
<1>7. BlockSized'
  BY <1>2, <1>5 DEF IInv, BlockSized
<1>8. UnmapsOnce'
  <2>1. \A u \in Threads, h \in Targets : Unmapping(u, h)' = Unmapping(u, h)
    BY <1>3 DEF Unmapping
  <2>2. \A h \in Targets : mapped[h].at = "staging" => mapped'[h].at = "staging"
    BY <1>3, <1>5 DEF Unmapped
  <2>3. QED
    BY <2>1, <2>2 DEF IInv, UnmapsOnce
<1>9. QED
  BY <1>3, <1>4, <1>6, <1>7, <1>8 DEF IInv, WithinStorage, InBounds, StagingFits

LEMMA UnmapInv ==
  ASSUME IInv, NEW t \in Threads, NEW g \in Targets, glUnmapBufferOES(t, g)
  PROVE  IInv'
<1>1. CASE mapped[g].at = "staging"
  <2> DEFINE e == [pc |-> "upload", target |-> g, unmap |-> TRUE]
  <2>1. /\ call[t] = Idle /\ e \in Calls /\ e # Idle /\ e.target = g
        /\ call' = [call EXCEPT ![t] = e]
        /\ \A u \in Threads : ~Unmapping(u, g)
        /\ UNCHANGED <<binding, buf, mapped, staging, failures, faults>>
    BY <1>1 DEF glUnmapBufferOES, Calls, Idle
  <2> HIDE DEF e
  <2>2. TypeOK'
    BY <2>1 DEF IInv, WithinStorage, TypeOK
  <2>3. UnmapsOnce'
    BY <2>1, <1>1 DEF IInv, WithinStorage, TypeOK, UnmapsOnce, Unmapping
  <2>4. QED
    BY <2>1, <2>2, <2>3, RestKept DEF IInv, WithinStorage, InBounds
<1>2. CASE mapped[g].at # "staging"
  <2>1. /\ mapped' = [mapped EXCEPT ![g] = Unmapped]
        /\ \A u \in Threads : ~Unmapping(u, g)
        /\ UNCHANGED <<call, binding, buf, staging, failures, faults>>
    BY <1>2 DEF glUnmapBufferOES
  <2>2. TypeOK'
    BY <2>1, BufferAssumption DEF IInv, WithinStorage, TypeOK, Unmapped
  <2>3. StagingFits'
    BY <2>1 DEF IInv, WithinStorage, TypeOK, StagingFits, Unmapped
  <2>4. UnmapsOnce'
    BY <2>1 DEF IInv, WithinStorage, TypeOK, UnmapsOnce, Unmapping
  <2>5. QED
    BY <2>1, <2>2, <2>3, <2>4 DEF IInv, WithinStorage, InBounds, BlockSized
<1>3. QED
  BY <1>1, <1>2

\* The block that is uploaded is the one of the mapping: it has a size.
LEMMA UploadInv ==
  ASSUME IInv, NEW t \in Threads, Upload(t)
  PROVE  IInv'
<1> DEFINE g == call[t].target
           end == staging[g].size
<1>1. g \in Targets /\ Unmapping(t, g)
  BY UnmapCall DEF IInv, WithinStorage, TypeOK, Upload, Unmapping
<1>2. mapped[g].at = "staging"
  BY <1>1 DEF IInv, UnmapsOnce
<1>3. end \in 1..MaxSize
  BY <1>1, <1>2, BufferAssumption DEF IInv, WithinStorage, TypeOK, StagingFits, BlockSized
<1>4. /\ TypeOK /\ InBounds /\ TRUE \in BOOLEAN /\ EnterSubData(t, g, end, TRUE)
      /\ UNCHANGED <<binding, buf, mapped, staging, failures>>
  BY DEF IInv, WithinStorage, Upload
<1> HIDE DEF end, g
<1>5. /\ faults' \subseteq {"overrun", "astray", "lost"} /\ InBounds'
      /\ call' \in [Threads -> Calls]
      /\ \A u \in Threads : u # t => call'[u] = call[u]
      /\ \A h \in Targets : Unmapping(t, h)' => h = g
  BY <1>1, <1>3, <1>4, EnterStep
<1>6. TypeOK'
  BY <1>4, <1>5 DEF TypeOK
<1>7. UnmapsOnce'
  BY <1>1, <1>4, <1>5, UnmapsOn DEF IInv
<1>8. QED
  BY <1>4, <1>5, <1>6, <1>7, RestKept DEF IInv, WithinStorage

LEMMA FinishUnmapInv ==
  ASSUME IInv, NEW t \in Threads, FinishUnmap(t)
  PROVE  IInv'
<1> DEFINE g == call[t].target
<1>1. g \in Targets /\ Unmapping(t, g)
  BY UnmapCall DEF IInv, WithinStorage, TypeOK, FinishUnmap, Unmapping
<1>2. /\ mapped' = [mapped EXCEPT ![g] = Unmapped]
      /\ call' = [call EXCEPT ![t] = Idle]
      /\ UNCHANGED <<binding, buf, staging, failures, faults>>
  BY DEF FinishUnmap
<1> HIDE DEF g
<1>3. TypeOK'
  <2>1. mapped' \in [Targets -> [at : {"none", "storage", "staging"}, size : 0..MaxSize]]
    BY <1>1, <1>2, BufferAssumption DEF IInv, WithinStorage, TypeOK, Unmapped
  <2>2. Idle \in Calls
    BY DEF Calls
  <2>3. call' \in [Threads -> Calls]
    BY <1>2, <2>2 DEF IInv, WithinStorage, TypeOK
  <2>4. QED
    BY <1>2, <2>1, <2>3 DEF IInv, WithinStorage, TypeOK
<1>4. StagingFits'
  BY <1>1, <1>2 DEF IInv, WithinStorage, TypeOK, StagingFits, Unmapped
<1>5. UnmapsOnce'
  <2>1. \A u \in Threads, h \in Targets : Unmapping(u, h)' => u # t /\ Unmapping(u, h)
    BY <1>2 DEF IInv, WithinStorage, TypeOK, Unmapping
  <2>2. \A h \in Targets : h # g => mapped'[h] = mapped[h]
    BY <1>2 DEF IInv, WithinStorage, TypeOK
  <2>3. QED
    BY <1>1, <2>1, <2>2 DEF IInv, UnmapsOnce
<1>6. QED
  BY <1>2, <1>3, <1>4, <1>5 DEF IInv, WithinStorage, InBounds, BlockSized

----------------------------------------------------------------------------

LEMMA NextInv == IInv /\ [Next]_vars => IInv'
<1> SUFFICES ASSUME IInv, [Next]_vars PROVE IInv'
  OBVIOUS
<1>1. ASSUME NEW t \in Threads, Recreate(t) \/ FinishSubData(t) \/ Upload(t) \/ FinishUnmap(t)
      PROVE  IInv'
  BY <1>1, RecreateInv, FinishSubDataInv, UploadInv, FinishUnmapInv
<1>2. ASSUME NEW t \in Threads, NEW g \in Targets, NEW n \in 1..MaxSize,
             glBufferData(t, g, n) \/ glBufferSubData(t, g, n)
      PROVE  IInv'
  BY <1>2, DataInv, SubDataInv
<1>3. ASSUME NEW t \in Threads, NEW g \in Targets, glMapBufferOES(t, g) \/ glUnmapBufferOES(t, g)
      PROVE  IInv'
  BY <1>3, MapInv, UnmapInv
<1>4. ASSUME NEW t \in Threads, NEW g \in Targets, NEW b \in Buffers \cup {NoBuffer},
             glBindBuffer(t, g, b)
      PROVE  IInv'
  BY <1>4, BindInv
<1>5. CASE UNCHANGED vars
  BY <1>5 DEF vars, IInv, WithinStorage, TypeOK, InBounds, StagingFits, BlockSized,
     UnmapsOnce, Unmapping
<1>6. QED
  BY <1>1, <1>2, <1>3, <1>4, <1>5, DeleteInv DEF Next

(* Whatever threads bind, re-create, map and delete in the unlock windows, and
   whichever allocations fail, no write goes past the storage it is made to, and
   a staging block is at least as large as the mapping the game was told of
   (gl_lock.c:88-109,279-325). *)
THEOREM Within == Spec => []WithinStorage
<1>1. IInv => WithinStorage
  BY DEF IInv
<1>2. QED
  BY <1>1, InitInv, NextInv, PTL DEF Spec
=============================================================================

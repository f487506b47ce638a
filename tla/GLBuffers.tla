------------------------------ MODULE GLBuffers ------------------------------
(***************************************************************************)
(* Buffer objects behind loader/gl_lock.c.  VitaGL records a buffer's size *)
(* even when the allocation of its storage fails, so the bridge tracks     *)
(* storage itself, writes in place, and stages mappings in CPU memory.     *)
(*                                                                         *)
(* A section that holds gl_lock is one step.  glBufferSubData and          *)
(* glUnmapBufferOES release the lock in their middle to call another       *)
(* entry; there, other threads take their steps.  A write is abstracted to *)
(* its end, offset + size.  The game has at most one mapping per target.   *)
(***************************************************************************)
EXTENDS Integers

CONSTANTS
    Threads, Targets, Buffers,
    NoBuffer,
    MaxSize,        \* bound: sizes and ends of writes
    MaxFailures     \* bound: allocations that fail

ASSUME BufferAssumption == NoBuffer \notin Buffers /\ MaxSize \in Nat /\ MaxFailures \in Nat

VARIABLES
    binding,     \* VitaGL's bound buffer, per target
    buf,         \* VitaGL's buffers: recorded size, and whether there is storage
    mapped,      \* mapped_ptr: where it points, and the size the game may write
    staging,     \* staging and staging_sz
    call,        \* per thread, the entry it is in the middle of
    failures,    \* allocations that failed so far
    faults       \* what went wrong so far (history)

vars == <<binding, buf, mapped, staging, call, failures, faults>>

Idle == [pc |-> "idle"]
Unmapped == [at |-> "none", size |-> 0]
Empty == [size |-> 0, stored |-> FALSE]
Buf(b) == IF b = NoBuffer THEN Empty ELSE buf[b]
Larger(m, n) == IF m > n THEN m ELSE n

Init ==
    /\ binding = [g \in Targets |-> NoBuffer]
    /\ buf = [b \in Buffers |-> Empty]
    /\ mapped = [g \in Targets |-> Unmapped]
    /\ staging = [g \in Targets |-> [size |-> 0, block |-> FALSE]]
    /\ call = [t \in Threads |-> Idle]
    /\ failures = 0
    /\ faults = {}

glBindBuffer(t, g, b) ==
    /\ call[t] = Idle
    /\ binding' = [binding EXCEPT ![g] = b]
    /\ UNCHANGED <<buf, mapped, staging, call, failures, faults>>

glDeleteBuffers(t, b) ==
    /\ call[t] = Idle
    /\ buf' = [buf EXCEPT ![b] = Empty]
    /\ binding' = [g \in Targets |-> IF binding[g] = b THEN NoBuffer ELSE binding[g]]
    /\ UNCHANGED <<mapped, staging, call, failures, faults>>

\* The locked section of glBufferData: a second attempt if the first fails, and
\* the size recorded in any case.
Allocate(g, n) ==
    \E f \in 0..2 :
        /\ failures + f <= MaxFailures
        /\ failures' = failures + f
        /\ buf' = IF binding[g] = NoBuffer THEN buf
                  ELSE [buf EXCEPT ![binding[g]] = [size |-> n, stored |-> n > 0 /\ f < 2]]

glBufferData(t, g, n) ==
    /\ call[t] = Idle
    /\ Allocate(g, n)
    /\ UNCHANGED <<binding, mapped, staging, call, faults>>

\* The end of glBufferSubData: storage and size looked at again, then memcpy.
Fault(name, holds) == IF holds THEN {name} ELSE {}
WriteIf(t, c, fits) ==
    LET b == binding[c.target]
        written == Buf(b).stored /\ fits
    IN  /\ faults' = faults
              \cup Fault("overrun", written /\ Buf(b).size < c.end)
              \cup Fault("astray", written /\ b # c.buffer)
              \cup Fault("lost", ~written /\ c.unmap)
        /\ call' = [call EXCEPT ![t] = IF c.unmap THEN [c EXCEPT !.pc = "unmap"] ELSE Idle]

WriteUnchecked(t, c) == WriteIf(t, c, TRUE)                      \* mutant
Write(t, c) == WriteIf(t, c, Buf(binding[c.target]).size >= c.end)

NeedSum(cur, end) == cur + end                                   \* mutant
Need(cur, end) == Larger(cur, end)

\* glBufferSubData up to where it writes, or releases the lock to re-create.
EnterSubData(t, g, end, unmap) ==
    LET cur == Buf(binding[g]).size
        c == [pc |-> "recreate", target |-> g, end |-> end, need |-> Need(cur, end),
              buffer |-> binding[g], unmap |-> unmap]
    IN  IF cur <= 0 \/ cur < end
        THEN call' = [call EXCEPT ![t] = c] /\ UNCHANGED faults
        ELSE Write(t, c)

glBufferSubData(t, g, end) ==
    /\ call[t] = Idle
    /\ EnterSubData(t, g, end, FALSE)
    /\ UNCHANGED <<binding, buf, mapped, staging, failures>>

\* The nested glBufferData, on whatever is bound by then.
Recreate(t) ==
    /\ call[t].pc = "recreate"
    /\ Allocate(call[t].target, call[t].need)
    /\ call' = [call EXCEPT ![t].pc = "write"]
    /\ UNCHANGED <<binding, mapped, staging, faults>>

FinishSubData(t) ==
    /\ call[t].pc = "write"
    /\ Write(t, call[t])
    /\ UNCHANGED <<binding, buf, mapped, staging, failures>>

\* VitaGL maps storage; without storage the game gets a staging block, which
\* grows to the largest size any buffer of the target needed.
MapGrowing(t, g, grows) ==
    LET b == Buf(binding[g])
        grow == ~b.stored /\ grows
    IN  /\ call[t] = Idle /\ binding[g] # NoBuffer /\ mapped[g] = Unmapped
        /\ \E ok \in BOOLEAN :
              /\ ~ok => grow /\ failures < MaxFailures
              /\ failures' = IF ok THEN failures ELSE failures + 1
              /\ staging' = IF grow THEN [staging EXCEPT ![g] = [size |-> b.size, block |-> ok]]
                            ELSE staging
        /\ mapped' = [mapped EXCEPT ![g] =
                         IF b.stored THEN [at |-> "storage", size |-> b.size]
                         ELSE IF staging'[g].block THEN [at |-> "staging", size |-> b.size]
                         ELSE Unmapped]
        /\ UNCHANGED <<binding, buf, call, faults>>

MapFirstSize(t, g) ==                                            \* mutant
    MapGrowing(t, g, staging[g].size = 0 /\ Buf(binding[g]).size > 0)
glMapBufferOES(t, g) == MapGrowing(t, g, Buf(binding[g]).size > staging[g].size)

Unmapping(t, g) == (call[t] # Idle) /\ call[t].unmap /\ call[t].target = g

glUnmapBufferOES(t, g) ==
    /\ call[t] = Idle /\ mapped[g] # Unmapped
    /\ ~ \E u \in Threads : Unmapping(u, g)
    /\ IF mapped[g].at = "staging"
       THEN /\ call' = [call EXCEPT ![t] = [pc |-> "upload", target |-> g, unmap |-> TRUE]]
            /\ UNCHANGED mapped
       ELSE /\ mapped' = [mapped EXCEPT ![g] = Unmapped]
            /\ UNCHANGED call
    /\ UNCHANGED <<binding, buf, staging, failures, faults>>

\* The nested glBufferSubData of the whole staging block.
Upload(t) ==
    /\ call[t].pc = "upload"
    /\ EnterSubData(t, call[t].target, staging[call[t].target].size, TRUE)
    /\ UNCHANGED <<binding, buf, mapped, staging, failures>>

FinishUnmap(t) ==
    /\ call[t].pc = "unmap"
    /\ mapped' = [mapped EXCEPT ![call[t].target] = Unmapped]
    /\ call' = [call EXCEPT ![t] = Idle]
    /\ UNCHANGED <<binding, buf, staging, failures, faults>>

Next ==
    \E t \in Threads :
        \/ \E b \in Buffers : glDeleteBuffers(t, b)
        \/ \E g \in Targets :
              \/ \E b \in Buffers \cup {NoBuffer} : glBindBuffer(t, g, b)
              \/ \E n \in 1..MaxSize : glBufferData(t, g, n) \/ glBufferSubData(t, g, n)
              \/ glMapBufferOES(t, g) \/ glUnmapBufferOES(t, g)
        \/ Recreate(t) \/ FinishSubData(t) \/ Upload(t) \/ FinishUnmap(t)

Spec == Init /\ [][Next]_vars

----------------------------------------------------------------------------

Calls ==
    {Idle}
    \cup [pc : {"upload"}, target : Targets, unmap : {TRUE}]
    \cup [pc : {"recreate", "write"}, target : Targets, end : 1..MaxSize,
          need : 1..MaxSize, buffer : Buffers \cup {NoBuffer}, unmap : BOOLEAN]
    \cup [pc : {"unmap"}, target : Targets, end : 1..MaxSize,
          need : 1..MaxSize, buffer : Buffers \cup {NoBuffer}, unmap : {TRUE}]

\* Types; sizes stay below what the game asked for, however often a buffer is
\* re-created (gl_lock.c:98-99).
TypeOK ==
    /\ binding \in [Targets -> Buffers \cup {NoBuffer}]
    /\ buf \in [Buffers -> [size : 0..MaxSize, stored : BOOLEAN]]
    /\ mapped \in [Targets -> [at : {"none", "storage", "staging"}, size : 0..MaxSize]]
    /\ staging \in [Targets -> [size : 0..MaxSize, block : BOOLEAN]]
    /\ call \in [Threads -> Calls]
    /\ failures \in 0..MaxFailures
    /\ faults \subseteq {"overrun", "astray", "lost"}

\* No write goes past the storage it is made to, also when another thread
\* bound or re-created a buffer while the lock was released (gl_lock.c:99-107).
InBounds == "overrun" \notin faults

\* What the game may write through a staged mapping fits the block, however
\* the sizes mapped before went up and down (gl_lock.c:282-285).
StagingFits ==
    \A g \in Targets :
        mapped[g].at = "staging" => staging[g].block /\ staging[g].size >= mapped[g].size

\* No write goes past the storage it is made to, while another thread binds or
\* re-creates buffers in the unlock windows, and no size is recorded that nobody
\* asked for; and a staging block that is handed out is as large as its buffer
\* (gl_lock.c:88-109,279-296).
WithinStorage == TypeOK /\ InBounds /\ StagingFits

\* "every GL entry the game imports, serialized" (gl_lock.c:1): a write is made
\* to the buffer that was bound when its entry was called.
Serialized == "astray" \notin faults

\* "hand Scaleform a CPU staging block, upload on unmap" (gl_lock.c:282): the
\* unmap, which reports GL_TRUE, did upload.
StagedUploadArrives == "lost" \notin faults
=============================================================================

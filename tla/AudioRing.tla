------------------------------ MODULE AudioRing ------------------------------
(***************************************************************************)
(* The audio bridge of loader/audio.c: the lock-free ring between          *)
(* SubmitAudio_hook (producer, on the engine's audio thread) and           *)
(* audio_thread (consumer), and its installation.                          *)
(*                                                                         *)
(* Every access to a variable the other thread writes is a step of its     *)
(* own: the load of the other side's cursor, each sample copied into or    *)
(* out of the ring, the store of the own cursor.  A thread's load of its   *)
(* OWN cursor needs no step, as nobody else stores to it.  The acquire     *)
(* loads and release stores of the code make this sequentially consistent  *)
(* view exact: a sample is read only after the cursor that published it.   *)
(***************************************************************************)
EXTENDS Integers, Sequences

CONSTANTS
    Sample,       \* values of an int16 sample
    Silence,      \* 0
    RingSize,     \* RING_SHORTS
    Chunk,        \* CHUNK_SHORTS
    Laps,         \* 2^32 / RING_SHORTS: laps of the ring before a cursor wraps
    Submits,      \* the buffers the game may pass to SubmitAudio
    DropPeriod    \* s_drops is observed only modulo 64

ASSUME SilenceAssumption == Silence \in Sample
ASSUME SizeAssumption ==
    /\ RingSize \in Nat \ {0}
    /\ Chunk \in 1..RingSize
    /\ Laps \in Nat \ {0, 1}
    /\ DropPeriod \in Nat \ {0}
ASSUME SubmitsAssumption == Submits \subseteq Seq(Sample) \ {<<>>}

VARIABLES
    ring,         \* s_ring
    w,            \* s_w, producer cursor
    r,            \* s_r, consumer cursor
    drops,        \* s_drops modulo DropPeriod
    installed,    \* how far audio_bridge_install got
    ppc,          \* where the engine thread is in SubmitAudio_hook
    pcm,          \* the buffer it was given
    copied,       \* samples of pcm already in the ring
    cpc,          \* where audio_thread is
    take,         \* its local `take`
    taken,        \* samples already in chunk
    chunk         \* its static output block

prodVars == <<ppc, pcm, copied>>
consVars == <<cpc, take, taken, chunk>>
vars == <<ring, w, r, drops, installed, ppc, pcm, copied, cpc, take, taken, chunk>>

CursorMod == RingSize * Laps          \* 2^32

Smaller(a, b) == IF a < b THEN a ELSE b

\* `w - r` and `RING_SHORTS - (w - r)` in uint32_t
Used == (w - r) % CursorMod
FreeOffByOne == (RingSize + 1 - Used) % CursorMod          \* mutant
Free == (RingSize - Used) % CursorMod

\* The cell that sample i of a copy of n samples from cursor c on lands in:
\* a first segment up to the end of the ring and a second from its start.
CellOneSegment(c, i, n) ==          \* mutant: the second segment starts at i
    LET idx   == c % RingSize
        first == Smaller(RingSize - idx, n)
    IN  IF i < first THEN idx + i ELSE i
Cell(c, i, n) ==
    LET idx   == c % RingSize
        first == Smaller(RingSize - idx, n)
    IN  IF i < first THEN idx + i ELSE i - first

Init ==
    /\ ring = [i \in 0..(RingSize - 1) |-> Silence]
    /\ w = 0
    /\ r = 0
    /\ drops = 0
    /\ installed = "no"
    /\ ppc = "idle" /\ pcm = <<>> /\ copied = 0
    /\ cpc = "none" /\ take = 0 /\ taken = 0
    /\ chunk = [i \in 1..Chunk |-> Silence]

----------------------------------------------------------------------------
\* audio_bridge_install, called once by the loader: create and start the
\* thread, then patch SubmitAudio.

StartThread ==
    /\ installed = "no"
    /\ installed' = "thread"
    /\ cpc' = "open"
    /\ UNCHANGED <<ring, w, r, drops, prodVars, take, taken, chunk>>

StartThreadFails ==
    /\ installed = "no"
    /\ installed' = "failed"
    /\ UNCHANGED <<ring, w, r, drops, prodVars, consVars>>

HookSubmitAudio ==
    /\ installed = "thread"
    /\ installed' = "hooked"
    /\ UNCHANGED <<ring, w, r, drops, prodVars, consVars>>

----------------------------------------------------------------------------
\* The producer: SubmitAudio_hook and ring_write.

\* The load of s_r and the decision taken on it.
SubmitAudio(s) ==
    /\ installed = "hooked"
    /\ ppc = "idle"
    /\ IF Len(s) > Free
       THEN /\ drops' = (drops + 1) % DropPeriod
            /\ UNCHANGED prodVars
       ELSE /\ ppc' = "copy"
            /\ pcm' = s
            /\ copied' = 0
            /\ UNCHANGED drops
    /\ UNCHANGED <<ring, w, r, installed, consVars>>

CopyIn ==
    /\ ppc = "copy"
    /\ copied < Len(pcm)
    /\ ring' = [ring EXCEPT ![Cell(w, copied, Len(pcm))] = pcm[copied + 1]]
    /\ copied' = copied + 1
    /\ UNCHANGED <<w, r, drops, installed, ppc, pcm, consVars>>

PublishAt(cursor) ==
    /\ ppc = "copy"
    /\ copied = Len(pcm)
    /\ w' = cursor
    /\ ppc' = "idle" /\ pcm' = <<>> /\ copied' = 0
    /\ UNCHANGED <<ring, r, drops, installed, consVars>>

PublishUnwrapped == PublishAt(w + Len(pcm))                      \* mutant
PublishBlocking == w = r /\ PublishAt((w + Len(pcm)) % CursorMod) \* mutant
Publish == PublishAt((w + Len(pcm)) % CursorMod)

----------------------------------------------------------------------------
\* The consumer: audio_thread and ring_read_chunk.

OpenPort ==
    /\ cpc = "open"
    /\ cpc' = "load"
    /\ UNCHANGED <<ring, w, r, drops, installed, prodVars, take, taken, chunk>>

\* sceAudioOutOpenPort failed: the thread returns and nothing drains the ring.
OpenPortFails ==
    /\ cpc = "open"
    /\ cpc' = "dead"
    /\ UNCHANGED <<ring, w, r, drops, installed, prodVars, take, taken, chunk>>

\* The load of s_w fixes how much is taken.
BeginReadOf(n) ==
    /\ cpc = "load"
    /\ cpc' = "copy"
    /\ take' = n
    /\ taken' = 0
    /\ UNCHANGED <<ring, w, r, drops, installed, prodVars, chunk>>

BeginReadWhole == BeginReadOf(IF Used < Chunk THEN 0 ELSE Chunk)  \* mutant
BeginReadBlind == BeginReadOf(Chunk)                             \* mutant
BeginRead == BeginReadOf(Smaller(Used, Chunk))

CopyOut ==
    /\ cpc = "copy"
    /\ taken < take
    /\ chunk' = [chunk EXCEPT ![taken + 1] = ring[Cell(r, taken, take)]]
    /\ taken' = taken + 1
    /\ UNCHANGED <<ring, w, r, drops, installed, prodVars, cpc, take>>

\* The silence padding (the block is private) and the store of s_r.
EndRead ==
    /\ cpc = "copy"
    /\ taken = take
    /\ chunk' = [i \in 1..Chunk |-> IF i <= take THEN chunk[i] ELSE Silence]
    /\ r' = (r + take) % CursorMod
    /\ cpc' = "output"
    /\ UNCHANGED <<ring, w, drops, installed, prodVars, take, taken>>

\* sceAudioOutOutput: blocks about one grain, then returns.
Output ==
    /\ cpc = "output"
    /\ cpc' = "load"
    /\ UNCHANGED <<ring, w, r, drops, installed, prodVars, take, taken, chunk>>

----------------------------------------------------------------------------

Install  == StartThread \/ StartThreadFails \/ HookSubmitAudio
Producer == CopyIn \/ Publish
Consumer == BeginRead \/ CopyOut \/ EndRead \/ Output

Next ==
    \/ Install
    \/ \E s \in Submits : SubmitAudio(s)
    \/ Producer
    \/ OpenPort \/ OpenPortFails
    \/ Consumer

\* Both threads are scheduled; the game need never submit, and either outcome
\* of the kernel calls at start-up is possible.
Fairness == WF_vars(Producer) /\ WF_vars(Consumer)

Spec == Init /\ [][Next]_vars /\ Fairness

----------------------------------------------------------------------------
\* Properties.

\* Every variable stays in its C type's range; the cursors wrap at 2^32.
TypeOK ==
    /\ ring \in [0..(RingSize - 1) -> Sample]
    /\ w \in 0..(CursorMod - 1)
    /\ r \in 0..(CursorMod - 1)
    /\ drops \in 0..(DropPeriod - 1)
    /\ installed \in {"no", "thread", "hooked", "failed"}
    /\ ppc \in {"idle", "copy"}
    /\ pcm \in Seq(Sample)
    /\ copied \in 0..Len(pcm)
    /\ cpc \in {"none", "open", "load", "copy", "output", "dead"}
    /\ take \in 0..Chunk
    /\ taken \in 0..take
    /\ chunk \in [1..Chunk -> Sample]

\* Cells the producer may still write, and the consumer may still read, before
\* their next cursor store.
WriteCells == IF ppc = "copy"
              THEN {Cell(w, i, Len(pcm)) : i \in copied..(Len(pcm) - 1)}
              ELSE {}
ReadCells == IF cpc = "copy"
             THEN {Cell(r, i, take) : i \in taken..(take - 1)}
             ELSE {}

\* The two memcpys never touch the same cell at the same time: ring_write and
\* ring_read_chunk (audio.c:38-62) are free of data races although neither
\* thread holds a lock.
NoDataRace == WriteCells \cap ReadCells = {}

\* Why the ring works, as an inductive invariant.

\* The producer's submit fits beside what is unread, and so it keeps fitting:
\* the consumer only makes room.
ProducerFits ==
    /\ Used =< RingSize
    /\ ppc = "copy" => pcm # <<>> /\ Len(pcm) + Used =< RingSize
    /\ ppc = "idle" => pcm = <<>> /\ copied = 0

\* What the producer has copied so far sits behind its cursor.
ProducerProgress ==
    ppc = "copy" =>
        \A i \in 0..(copied - 1) : ring[(w + i) % RingSize] = pcm[i + 1]

\* The consumer takes unread samples only, and its copy of them is exact.
ConsumerProgress ==
    cpc = "copy" =>
        /\ take =< Used
        /\ \A i \in 0..(taken - 1) : chunk[i + 1] = ring[(r + i) % RingSize]

\* audio_thread does nothing before it is created.
ThreadStarted == installed = "no" => cpc = "none"

\* Neither copy is disturbed by the other thread: ring_write's free space and
\* ring_read_chunk's `take`, computed from a cursor that may be stale, stay
\* safe until the store that ends the copy (audio.c:38-62).
IInv == TypeOK /\ ThreadStarted /\ ProducerFits /\ ProducerProgress /\ ConsumerProgress

----------------------------------------------------------------------------
\* The refinement: the queue is the window of the ring between the cursors.
Unread == [i \in 1..Used |-> ring[(r + i - 1) % RingSize]]

Fifo == INSTANCE AudioFifo WITH
          Capacity <- RingSize,
          queue    <- Unread,
          taking   <- pcm,
          reading  <- IF cpc = "copy" THEN take ELSE -1,
          chunk    <- IF cpc = "output" THEN chunk ELSE <<>>

\* The ring implements the bounded queue: no accepted sample is lost,
\* duplicated, reordered or overwritten before it is taken, whatever the
\* interleaving and across both the end of the ring and the 2^32 wrap of the
\* cursors; a submit is dropped only when it does not fit; silence is padded
\* only when the queue is short (audio.c:38-62, comment :3-9).
ImplementsFifo == Fifo!Spec

\* The engine thread is never blocked by the output thread (comment :8-9): a
\* submit finishes even if audio_thread died on a port it could not open.
SubmitReturns == (ppc = "copy") ~> (ppc = "idle")

\* Once the game stops submitting, an output thread with a port plays every
\* sample it was given: no tail shorter than a chunk stays in the ring.
TailIsPlayed == <>[](ppc = "idle" /\ cpc \notin {"none", "open", "dead"}) => <>[](Used = 0)

\* Neither thread waits for the other for ever: the engine's submits return and
\* the end of what was submitted is played (audio.c:8-9,38-62).
Progress == SubmitReturns /\ TailIsPlayed
=============================================================================

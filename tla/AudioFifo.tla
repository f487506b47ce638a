------------------------------ MODULE AudioFifo ------------------------------
(***************************************************************************)
(* What the audio bridge promises (comment at loader/audio.c:3-9): a       *)
(* bounded queue of samples between the engine's audio thread and the      *)
(* output thread.  A submit is queued whole, in order, or dropped whole    *)
(* and counted; it is dropped only when it does not fit.  The output       *)
(* thread takes what is queued, up to one chunk, and pads the rest of the  *)
(* chunk with silence; it pads only when the queue was short.              *)
(***************************************************************************)
EXTENDS Integers, Sequences

CONSTANTS
    Sample,       \* values of a sample
    Silence,      \* the zero sample
    Capacity,     \* samples the queue holds
    Chunk,        \* samples in one output block
    Submits,      \* what the game may submit
    DropPeriod    \* the drop counter is observed modulo this

VARIABLES
    queue,        \* samples accepted and not yet taken, oldest first
    taking,       \* the submit being accepted, <<>> when there is none
    reading,      \* number of samples the reader is taking, or NotReading
    chunk,        \* the block ready for the output port, <<>> when there is none
    drops         \* submits dropped, modulo DropPeriod

vars == <<queue, taking, reading, chunk, drops>>

NotReading == -1

Init ==
    /\ queue = <<>>
    /\ taking = <<>>
    /\ reading = NotReading
    /\ chunk = <<>>
    /\ drops = 0

\* A submit that fits is accepted ...
Accept(s) ==
    /\ taking = <<>>
    /\ Len(queue) + Len(s) <= Capacity
    /\ taking' = s
    /\ UNCHANGED <<queue, reading, chunk, drops>>

\* ... and one that does not is dropped at once, never waited for.
Drop(s) ==
    /\ taking = <<>>
    /\ Len(queue) + Len(s) > Capacity
    /\ drops' = (drops + 1) % DropPeriod
    /\ UNCHANGED <<queue, taking, reading, chunk>>

\* The accepted submit becomes readable in one step.
Enqueue ==
    /\ taking # <<>>
    /\ queue' = queue \o taking
    /\ taking' = <<>>
    /\ UNCHANGED <<reading, chunk, drops>>

\* The reader fixes how much it takes: all that is queued, up to a chunk.
BeginRead ==
    /\ reading = NotReading
    /\ chunk = <<>>
    /\ reading' = IF Len(queue) < Chunk THEN Len(queue) ELSE Chunk
    /\ UNCHANGED <<queue, taking, chunk, drops>>

\* It takes exactly that many, the oldest ones, and pads with silence.
EndRead ==
    /\ reading # NotReading
    /\ chunk' = [i \in 1..Chunk |-> IF i <= reading THEN queue[i] ELSE Silence]
    /\ queue' = SubSeq(queue, reading + 1, Len(queue))
    /\ reading' = NotReading
    /\ UNCHANGED <<taking, drops>>

\* The block is handed to the output port.
Play ==
    /\ chunk # <<>>
    /\ chunk' = <<>>
    /\ UNCHANGED <<queue, taking, reading, drops>>

Next ==
    \/ \E s \in Submits : Accept(s) \/ Drop(s)
    \/ Enqueue
    \/ BeginRead
    \/ EndRead
    \/ Play

Spec == Init /\ [][Next]_vars
=============================================================================

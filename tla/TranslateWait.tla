---------------------------- MODULE TranslateWait ----------------------------
(***************************************************************************)
(* hook_TranslateStream (loader/main.c:149-181): the game's translator     *)
(* thread is kept from starting on an asset until the chunks that loader   *)
(* threads queue for it are there.  It counts them without a lock, chunk   *)
(* by chunk, while they are queued; the vector is large enough not to move *)
(* then.  Sizes are in units of 512 KB.                                    *)
(***************************************************************************)
EXTENDS Integers, Sequences, FiniteSets, SequencesExt

CONSTANTS
    Assets,
    Total,      \* size of each asset's file
    MaxWaits,   \* 4000
    Window      \* 1 MB: the most that the engine queues of one file

VARIABLES
    vec,        \* chunks: [asset, size, total]
    delivered,  \* of each file, queued so far
    alive,      \* assets with a type pointer
    pc, asset, last, next, have, chunks, total, waited,  \* the translator's
    result,     \* what it was told of its last asset
    died        \* was the asset released after the hook had looked (history)

scan == <<last, next, have, chunks, total>>
vars == <<vec, delivered, alive, pc, asset, scan, waited, result, died>>

NoAsset == "none"
Init ==
    /\ vec = <<>> /\ delivered = [a \in Assets |-> 0] /\ alive = Assets
    /\ pc = "idle" /\ asset = NoAsset /\ waited = 0 /\ result = -1 /\ died = FALSE
    /\ last = 0 /\ next = 1 /\ have = 0 /\ chunks = 0 /\ total = 0

Of(a) == SelectSeq(vec, LAMBDA c : c.asset = a)
Queued(a) == FoldLeft(LAMBDA n, c : n + c.size, 0, Of(a))

----------------------------------------------------------------------------
(* The engine *)

\* A loader thread queues the next chunk of a file, of one or two units.
Deliver(a, size) ==
    /\ delivered[a] + size <= Total[a] /\ Queued(a) + size <= Window
    /\ vec' = Append(vec, [asset |-> a, size |-> size, total |-> Total[a]])
    /\ delivered' = [delivered EXCEPT ![a] = @ + size]
    /\ UNCHANGED <<alive, pc, asset, scan, waited, result, died>>

Release(a) ==
    /\ a \in alive /\ alive' = alive \ {a}
    /\ died' = (died \/ (asset = a /\ pc # "idle"))
    /\ UNCHANGED <<vec, delivered, pc, asset, scan, waited, result>>
----------------------------------------------------------------------------
(* The hook *)

\* An asset without a type pointer is reported as failed.
Translate(a) ==
    /\ pc = "idle"
    /\ IF a \in alive
       THEN pc' = "begin" /\ asset' = a /\ waited' = 0 /\ died' = FALSE /\ UNCHANGED result
       ELSE result' = 3 /\ UNCHANGED <<pc, asset, waited, died>>
    /\ UNCHANGED <<vec, delivered, alive, scan>>

Begin ==
    /\ pc = "begin" /\ pc' = "scan"
    /\ last' = Len(vec) /\ next' = 1
    /\ have' = 0 /\ chunks' = 0 /\ total' = 0
    /\ UNCHANGED <<vec, delivered, alive, asset, waited, result, died>>
Scan ==
    /\ pc = "scan" /\ next <= last
    /\ LET c == vec[next] IN
       IF c.asset = asset
       THEN /\ have' = have + c.size /\ chunks' = chunks + 1
            /\ total' = IF c.total > total THEN c.total ELSE total
       ELSE UNCHANGED <<have, chunks, total>>
    /\ next' = next + 1
    /\ UNCHANGED <<vec, delivered, alive, pc, asset, last, waited, result, died>>

EnoughLate == chunks = 0 \/ have >= total \/ waited >= MaxWaits                \* mutant
EnoughEver == chunks = 0 \/ have >= total \/ have >= Window                      \* mutant
Enough == chunks = 0 \/ have >= total \/ have >= Window \/ waited >= MaxWaits
Decide ==
    /\ pc = "scan" /\ next > last
    /\ IF Enough THEN pc' = "call" /\ UNCHANGED waited
       ELSE pc' = "begin" /\ waited' = waited + 1
    /\ UNCHANGED <<vec, delivered, alive, asset, scan, result, died>>

\* The game's own function takes the asset's chunks from the vector.
Orig ==
    /\ pc = "call"
    /\ vec' = SelectSeq(vec, LAMBDA c : c.asset # asset)
    /\ pc' = "idle" /\ asset' = NoAsset /\ result' = 0
    /\ last' = 0 /\ next' = 1 /\ have' = 0 /\ chunks' = 0 /\ total' = 0
    /\ UNCHANGED <<delivered, alive, waited, died>>

Translator == Begin \/ Scan \/ Decide \/ Orig
Next ==
    \/ \E a \in Assets : Release(a) \/ Translate(a) \/ \E size \in 1..2 : Deliver(a, size)
    \/ Translator
Spec == Init /\ [][Next]_vars /\ WF_vars(Translator)
----------------------------------------------------------------------------

TypeOK ==
    /\ pc \in {"idle", "begin", "scan", "call"} /\ waited \in 0..MaxWaits
    /\ alive \subseteq Assets /\ asset \in Assets \cup {NoAsset}
    /\ pc = "scan" => last <= Len(vec)

(* Translation starts on what is queued only when that is the rest of the file or
   a full window, or the time is up, and then at once: chunks queued during the
   count lengthen the wait by one round at most (main.c:163-175). *)
StartsWhole ==
    /\ pc = "call" => \/ chunks = 0 \/ waited = MaxWaits \/ Queued(asset) = Window
                      \/ Queued(asset) = Total[asset]
    /\ pc = "call" => asset \in alive \/ died
    /\ pc = "begin" /\ waited > 0 => have < Window /\ have < Total[asset] /\ chunks > 0

(* The translator is never held for good (main.c:173-174). *)
TranslateEnds == pc # "idle" ~> pc = "idle"
=============================================================================

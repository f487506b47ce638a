------------------------------- MODULE MCMain -------------------------------
(***************************************************************************)
(* loader/main.c: small libraries for SoLoader, patched places for         *)
(* HookCode, the frame loop with short delays, what it reports of the pad  *)
(* and of three fingers, two assets for the translator, and three launches *)
(* with their logs.  They share no state, so each is checked on its own:   *)
(* "part" says which of them a behaviour is about, and the state spaces    *)
(* add up instead of multiplying.                                          *)
(***************************************************************************)
EXTENDS SoLoader, TLC

CONSTANTS
    gnustl, game, n1, n2,
    Parts,                                        \* of main.c that behaviours are about
    Delay, Arm, Limit, MaxSwaps,                  \* of the frame loop
    Buttons, Sticks, Near, Fingers, MaxReports,   \* of the pad and the panel
    MaxRuns, MaxFaults, MaxLines                  \* of the log

MCBoot == <<gnustl, game>>
MCBase == (gnustl :> 100) @@ (game :> 200)

Null == [name |-> n1, defined |-> FALSE, info |-> 0, value |-> 0]
Symbol(n, d, v) == [name |-> n, defined |-> d, info |-> 1, value |-> v]
All == {"dynamic", "dynstr", "dynsym", "reldyn", "relplt", "init_array"}
Relative == [type |-> "RELATIVE", sym |-> 1, addend |-> 7]
Gnustl ==
    {[phdrs |-> <<"text", "data">>, sections |-> s,
      syms |-> <<Null, Symbol(n1, d, 5), Symbol(n2, ~d, 6)>>,
      rels |-> <<Relative, [type |-> "JUMP_SLOT", sym |-> 2, addend |-> 1]>>,
      needed |-> <<>>, inits |-> <<1>>, bucket |-> [n \in Names |-> b]] :
     s \in {All \cup {"hash"}, All}, d \in BOOLEAN, b \in {<<2, 3>>, <<3, 2>>}}
GameImage(p, s, d, r, q) ==
    [phdrs |-> p, sections |-> s,
     syms |-> <<Null, Symbol(n1, d[1], 5), Symbol(n2, d[2], 6)>>,
     rels |-> <<Relative, r>>,
     needed |-> q, inits |-> <<1>>, bucket |-> [n \in Names |-> <<>>]]
Entries ==
    {[type |-> "ABS32", sym |-> k, addend |-> a] : k \in {2, 3}, a \in {0, 3}}
    \cup {[type |-> t, sym |-> 2, addend |-> 1] : t \in {"GLOB_DAT", "JUMP_SLOT"}}
TextData == <<"other", "text", "data">>
Game ==
    {GameImage(TextData, All, d, r, q) : d \in BOOLEAN \X BOOLEAN, r \in Entries, q \in {<<>>, <<gnustl>>}}
    \cup {GameImage(<<"data", "text">>, All, <<TRUE, TRUE>>, Relative, <<>>),
          GameImage(TextData, All \ {"relplt"}, <<TRUE, TRUE>>, Relative, <<>>)}
MCImages == {(gnustl :> x) @@ (game :> y) : x \in Gnustl, y \in Game}
MCLibs == {[n \in S |-> 300] : S \in SUBSET {n1, n2}}

VARIABLES
    part,
    code, tramp_used, orig, regs, z, c, hpc, stack, heap, entry,
    lpc, pending, left, count, last, quiet, armed, swapping, waiting, presented, stale, silent,
    turn, td, prev_buttons, prev_axis, on, vid, seen, held, axis, touch, mouse, before,
    vec, delivered, alive, tpc, asset, scanned, next, have, chunks, total, waited, result, died,
    disk, saves, log_fd, step, said, launches, wrote, logged, since, faults

MCPatches ==
    <<[kind |-> "hook", site |-> 10], [kind |-> "spin", site |-> 20],
      [kind |-> "guard", site |-> 30, ret |-> 99],
      [kind |-> "hook", site |-> 40], [kind |-> "hook", site |-> 50]>>   \* the pool is full at 50
Literal(r, o) == [op |-> "literal", cond |-> "al", rd |-> r, off |-> o]
LoadFrom(r) == [op |-> "load", cond |-> "al", rd |-> "r3", rn |-> r]
Word(v) == [op |-> "data", cond |-> "ls", val |-> v]
MCGame ==
    (10 :> Literal("ip", 3)) @@ (11 :> Literal("r3", -6)) @@ (7 :> Word(7)) @@ (15 :> Word(15))
    @@ (20 :> LoadFrom("r1")) @@ (21 :> [op |-> "cmp", cond |-> "al", rn |-> "r3", val |-> 2])
    @@ (22 :> [op |-> "b", cond |-> "ne", off |-> -4])
    @@ (30 :> LoadFrom("r0"))
    @@ (40 :> [op |-> "set", cond |-> "al", rd |-> "r0", val |-> 5]) @@ (41 :> Literal("r0", 0)) @@ (43 :> Word(43))
    @@ (50 :> [op |-> "set", cond |-> "al", rd |-> "ip", val |-> 5]) @@ (51 :> Literal("lr", 1)) @@ (54 :> Word(54))
Hooks == INSTANCE HookCode WITH
        Patches <- MCPatches, Game <- MCGame, Pool <- 100, PoolWords <- 30,
        Handler <- 1000, Delay <- 1001, Values <- {0, 1}, pc <- hpc


Frames == INSTANCE MainLoop WITH pc <- lpc
ASSUME LoopAssumption == Frames!LoopAssumption

Pad == INSTANCE Controls WITH at <- turn
ASSUME PadBound == MaxReports \in Nat

Chunks == INSTANCE TranslateWait WITH
        Assets <- {"a", "b"}, Total <- [a |-> 2, b |-> 3], Window <- 2,
        MaxWaits <- 2, pc <- tpc, last <- scanned

Log == INSTANCE BootLog WITH at <- step, run <- launches, before <- logged
ASSUME LogBound == MaxRuns \in Nat

hookVars == <<code, tramp_used, orig, regs, z, c, hpc, stack, heap, entry>>
loopVars == <<lpc, pending, left, count, last, quiet, armed, swapping, waiting, presented, stale, silent>>
padVars == <<turn, td, prev_buttons, prev_axis, on, vid, seen, held, axis, touch, mouse, before>>
waitVars == <<vec, delivered, alive, tpc, asset, scanned, next, have, chunks, total, waited, result, died>>
logVars == <<disk, saves, log_fd, step, said, launches, wrote, logged, since, faults>>
others == <<padVars, waitVars, logVars>>
all == <<part, vars, hookVars, loopVars, others>>

OneBoot == CHOOSE x \in MCImages : TRUE
MainInit ==
    /\ part \in Parts
    /\ Init /\ Hooks!Init /\ Frames!Init /\ Pad!Init /\ Chunks!Init /\ Log!Init
    /\ part # "loader" => image = OneBoot /\ lib = <<>>
LoaderNext == part = "loader" /\ Next /\ UNCHANGED <<part, hookVars, loopVars, others>>
HooksDo(A) == part = "hooks" /\ A /\ UNCHANGED <<part, vars, loopVars, others>>
LoopDo(A) == part = "loop" /\ A /\ UNCHANGED <<part, vars, hookVars, others>>
PadNext == part = "pad" /\ Pad!Next /\ UNCHANGED <<part, vars, hookVars, loopVars, waitVars, logVars>>
WaitDo(A) == part = "wait" /\ A /\ UNCHANGED <<part, vars, hookVars, loopVars, padVars, logVars>>
LogNext == part = "log" /\ Log!Next /\ UNCHANGED <<part, vars, hookVars, loopVars, padVars, waitVars>>
HooksNext == HooksDo(Hooks!Next)
HooksThread == HooksDo(Hooks!Thread)
HooksOther == HooksDo(Hooks!OtherThread)
LoopNext == LoopDo(Frames!Next)
LoopMain == LoopDo(Frames!Main)
WaitNext == WaitDo(Chunks!Next)
WaitTranslator == WaitDo(Chunks!Translator)
MainNext == LoaderNext \/ HooksNext \/ LoopNext \/ PadNext \/ WaitNext \/ LogNext
MainSpec ==
    /\ MainInit /\ [][MainNext]_all
    /\ WF_all(HooksThread) /\ SF_all(HooksOther) /\ WF_all(LoopMain) /\ WF_all(WaitTranslator)

(* A library's constructors run on final, flushed words, they are its own code,
   and the loading of the next library takes nothing of it back; its file was
   read whole, and a load that failed half-way left nothing behind.  Nothing is
   said of a boot once so_load follows the tables of a file that was cut short
   (so_util.c:71-395, main.c:484-499). *)
StartsReady ==
    /\ [](TypeOK /\ RunsOnFinalWords /\ CallsCode /\ LookupExact /\ LoadedOrFatal /\ RunsFlushed)
    /\ KeepsWords

(* Patched code faults nowhere the game's own would not, and leaves what that
   would have left (main.c:60-130). *)
Transparent == Hooks!TypeOK /\ Hooks!NoFault /\ Hooks!Transparent

(* A thread that spun lets the one it waits for run (main.c:83-103). *)
WaitEnds == Hooks!WaitEnds

(* The watchdog fires on no game that presents, and main presents at most once
   after the game's first present (main.c:659-664). *)
NoFalseStall == Frames!TypeOK /\ Frames!NoFalseStall /\ Frames!HandoverOnce

(* Every movie is reported as finished, and a game that stops is caught
   (main.c:646-663). *)
LoopResponds == Frames!MovieEnds /\ Frames!StallCaught

(* Pointers and mouse go down, move and go up in that order; a pointer belongs
   to one finger, fingers that rest are all reported, and what is released is
   released for the game (main.c:604-637). *)
InputFollows ==
    /\ [](Pad!TypeOK /\ Pad!LegalEvents /\ Pad!PadReleased)
    /\ Pad!SlotKeepsFinger /\ Pad!AllReported

(* The translator starts on an asset with its file or a full window queued, or
   when its time is up, and is never held for good (main.c:149-181). *)
TranslateStarts == [](Chunks!TypeOK /\ Chunks!StartsWhole) /\ Chunks!TranslateEnds

(* What a run wrote is kept while it runs, when it is over and, in the first
   place, through one launch that writes nothing (main.c:463-474, stubs.c:17-28). *)
LogKept == Log!TypeOK /\ Log!LogKept

(* "a relaunch after a crash no longer wipes the evidence" (main.c:463). *)
EvidenceKept == Log!EvidenceKept
=============================================================================

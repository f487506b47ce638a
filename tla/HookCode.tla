------------------------------ MODULE HookCode ------------------------------
(***************************************************************************)
(* The code that loader/main.c:57-130 and hook_arm of loader/so_util.c     *)
(* write into the game: trampolines of hooked functions, a loop that       *)
(* sleeps instead of spinning, and a guard against a NULL object.  The     *)
(* module runs that code.  Memory is a function from word addresses to     *)
(* words; an instruction names its condition and operands, and what is     *)
(* relative to the pc is decoded as the processor does, from two words     *)
(* behind the instruction.  The registers are those a call may change.     *)
(*                                                                         *)
(* The thread another one waits for has the same priority and no core of   *)
(* its own, so it runs only while the waiting thread sleeps.               *)
(***************************************************************************)
EXTENDS Integers, Sequences, TLC

CONSTANTS
    Patches,     \* what install_hooks does: a sequence of [kind, site, ret]
    Game,        \* the words at the sites and the literals they load
    Pool, PoolWords,
    Handler,     \* a hook's C function, which calls the original
    Delay,       \* sceKernelDelayThread
    Values       \* of registers; 0 is NULL, the others point to an object

VARIABLES
    code, tramp_used,
    orig,        \* per patch, its thunk, 0 if it was not installed
    regs, z, c, pc, stack,
    heap,        \* the word each object has at the offset loaded
    entry        \* the patch the thread came to, and its registers then

vars == <<code, tramp_used, orig, regs, z, c, pc, stack, heap, entry>>

Regs == {"r0", "r1", "r3", "ip", "lr"}
Zeros == [r \in Regs |-> 0]
Away == [patch |-> 0, regs |-> Zeros]

Init ==
    /\ code = Game /\ tramp_used = 0 /\ orig = <<>>
    /\ regs = Zeros /\ z = FALSE /\ c = FALSE /\ pc = 0 /\ stack = <<>>
    /\ heap = [p \in Values \ {0} |-> 0]
    /\ entry = Away

\* Words.  An address is in 0x9xxxxxxx: run as an instruction, its condition
\* is 9, "lower or same".
TopDigit8 == 8                               \* mutant: loaded at 0x8xxxxxxx
TopDigit == 9                                \* of LOAD_ADDR_GAME
CondOf(digit) == CASE digit = 8 -> "hi" [] digit = 9 -> "ls"
Data(v) == [op |-> "data", cond |-> CondOf(TopDigit), val |-> v]
LdrPc(cond, off) == [op |-> "ldrpc", cond |-> cond, off |-> off]
Load(rd, rn) == [op |-> "load", cond |-> "al", rd |-> rd, rn |-> rn]
Cmp(rn, v) == [op |-> "cmp", cond |-> "al", rn |-> rn, val |-> v]
Branch(cond, off) == [op |-> "b", cond |-> cond, off |-> off]
Literal(rd, off) == [op |-> "literal", cond |-> "al", rd |-> rd, off |-> off]
Set(rd, v) == [op |-> "set", cond |-> "al", rd |-> rd, val |-> v]
Op(name) == [op |-> name, cond |-> "al"]

\* make_trampoline: two instructions, of which one that loads a literal loads
\* a copy of it four words on, and the jump back.
MovedNot(w) == w                                                     \* mutant
Moved(w) == IF w.op = "literal" THEN [w EXCEPT !.off = 2] ELSE w
LiteralAt(a) == IF code[a].op = "literal" THEN code[a + 2 + code[a].off] ELSE Data(0)
Trampoline(a) ==
    <<Moved(code[a]), Moved(code[a + 1]), LdrPc("al", -1), Data(a + 2)>>
       \o IF "literal" \in {code[a].op, code[a + 1].op}
          THEN <<LiteralAt(a), LiteralAt(a + 1)>> ELSE <<>>

\* patch_spin and patch_null_guard.
Spins(a) == <<code[a], code[a + 1], code[a + 2]>> = <<Load("r3", "r1"), Cmp("r3", 2), Branch("ne", -4)>>
SpinThunkWith(a, eighth) ==
    <<Load("r3", "r1"), Cmp("r3", 2), Branch("eq", 5), Op("push"), Set("r0", 200), Literal("ip", 4),
      Op("blx"), eighth, Branch("al", -10), LdrPc("al", -1), Data(a + 3), Data(Delay)>>
SpinUnsaved(a) == SpinThunkWith(a, Set("r0", 200))                   \* mutant
SpinThunk(a) == SpinThunkWith(a, Op("pop"))
GuardThunk(a, ret) ==
    <<Cmp("r0", 0), LdrPc("eq", -1), Data(ret), Load("r3", "r0"), LdrPc("al", -1), Data(a + 1)>>

\* What a patch expects at its site, the words it asks for in the pool, and
\* those it writes there and at the site.
ExpectsLoad(p) ==                                                    \* mutant
    IF p.kind = "hook" THEN TRUE ELSE code[p.site] = Load("r3", "r0")
Expects(p) ==
    CASE p.kind = "hook" -> TRUE
      [] p.kind = "spin" -> Spins(p.site)
      [] p.kind = "guard" -> code[p.site] = Load("r3", "r0")
AsksNothing(p) == 0                                                  \* mutant
Asks(p) == CASE p.kind = "hook" -> 4 [] p.kind = "spin" -> 12 [] p.kind = "guard" -> 8
Thunk(p) ==
    CASE p.kind = "hook" -> Trampoline(p.site)
      [] p.kind = "spin" -> SpinThunk(p.site)
      [] p.kind = "guard" -> GuardThunk(p.site, p.ret)
AtSite(p, thunk) ==
    IF p.kind = "hook"
    THEN (p.site :> LdrPc("al", -1)) @@ (p.site + 1 :> Data(Handler))
    ELSE p.site :> Branch("al", thunk - (p.site + 2))

Installed == Len(orig) = Len(Patches)
Install ==
    /\ ~Installed
    /\ LET p == Patches[Len(orig) + 1]
           at == Pool + tramp_used
       IN  IF Expects(p) /\ tramp_used + Asks(p) <= PoolWords
           THEN /\ code' = AtSite(p, at) @@ [a \in at..(at + Len(Thunk(p)) - 1) |-> Thunk(p)[a - at + 1]] @@ code
                /\ tramp_used' = tramp_used + Len(Thunk(p))
                /\ orig' = Append(orig, at)
           ELSE orig' = Append(orig, 0) /\ UNCHANGED <<code, tramp_used>>
    /\ UNCHANGED <<regs, z, c, pc, stack, heap, entry>>

\* A thread of the game comes to a site; to the loop, with an object.
Patch == Patches[entry.patch]
Resume(p) == CASE p.kind = "hook" -> {p.site + 2} [] p.kind = "spin" -> {p.site + 3}
               [] p.kind = "guard" -> {p.site + 1, p.ret}
Enter(k, r) ==
    /\ Installed /\ pc = 0
    /\ Patches[k].kind = "spin" => r["r1"] # 0
    /\ pc' = Patches[k].site /\ regs' = r
    /\ entry' = [patch |-> k, regs |-> r]
    /\ UNCHANGED <<code, tramp_used, orig, z, c, stack, heap>>

\* It is past the patched place.
Left == pc # 0 /\ pc \in Resume(Patch)
Leave ==
    /\ Left
    /\ pc' = 0 /\ regs' = Zeros /\ z' = FALSE /\ c' = FALSE
    /\ entry' = Away
    /\ UNCHANGED <<code, tramp_used, orig, stack, heap>>

\* The processor: one instruction.
Passes(cond) == CASE cond = "al" -> TRUE [] cond = "eq" -> z [] cond = "ne" -> ~z
                  [] cond = "ls" -> ~c \/ z [] cond = "hi" -> c /\ ~z
Runs(op) == pc \in DOMAIN code /\ ~Left /\ code[pc].op = op /\ Passes(code[pc].cond)
Target == pc + 2 + code[pc].off
Reads(op) == Runs(op) /\ Target \in DOMAIN code /\ code[Target].op = "data"
Writes(r, v) == regs' = [regs EXCEPT ![r] = v]

Skip == pc \in DOMAIN code /\ ~Left /\ ~Passes(code[pc].cond)
        /\ pc' = pc + 1 /\ UNCHANGED <<regs, z, c, stack>>
Move == Runs("set") /\ Writes(code[pc].rd, code[pc].val)
        /\ pc' = pc + 1 /\ UNCHANGED <<z, c, stack>>
LoadWord == Runs("load") /\ regs[code[pc].rn] \in DOMAIN heap
        /\ Writes(code[pc].rd, heap[regs[code[pc].rn]])
        /\ pc' = pc + 1 /\ UNCHANGED <<z, c, stack>>
LoadLiteral == Reads("literal") /\ Writes(code[pc].rd, code[Target].val)
        /\ pc' = pc + 1 /\ UNCHANGED <<z, c, stack>>
Compare == Runs("cmp") /\ z' = (regs[code[pc].rn] = code[pc].val)
        /\ c' = (regs[code[pc].rn] >= code[pc].val)
        /\ pc' = pc + 1 /\ UNCHANGED <<regs, stack>>
Jump == Runs("b") /\ pc' = Target /\ UNCHANGED <<regs, z, c, stack>>
JumpFar == Reads("ldrpc") /\ pc' = code[Target].val /\ UNCHANGED <<regs, z, c, stack>>
Call == Runs("blx") /\ Writes("lr", pc + 1) /\ pc' = regs["ip"] /\ UNCHANGED <<z, c, stack>>
Push == Runs("push") /\ stack' = <<regs>> \o stack
        /\ pc' = pc + 1 /\ UNCHANGED <<regs, z, c>>
Pop == Runs("pop") /\ regs' = Head(stack) /\ stack' = Tail(stack)
        /\ pc' = pc + 1 /\ UNCHANGED <<z, c>>

Execute ==
    /\ \/ Skip \/ Move \/ LoadWord \/ LoadLiteral \/ Compare
       \/ Jump \/ JumpFar \/ Call \/ Push \/ Pop
    /\ UNCHANGED <<code, tramp_used, orig, heap, entry>>

\* The hook calls the original with the arguments it was given.
CallOriginal ==
    /\ pc = Handler
    /\ pc' = orig[entry.patch]
    /\ UNCHANGED <<code, tramp_used, orig, regs, z, c, stack, heap, entry>>

\* The kernel's sleep leaves nothing of the registers a call may change.
Sleep ==
    /\ pc = Delay
    /\ pc' = regs["lr"]
    /\ regs' = [r \in Regs |-> -1] /\ z' = FALSE /\ c' = FALSE
   
    /\ UNCHANGED <<code, tramp_used, orig, stack, heap, entry>>

\* The thread that is waited for.
OtherThread ==
    /\ pc \in {0, Delay}
    /\ \E p \in DOMAIN heap : heap[p] < 2 /\ heap' = [heap EXCEPT ![p] = @ + 1]
    /\ UNCHANGED <<code, tramp_used, orig, regs, z, c, pc, stack, entry>>

Thread == Execute \/ CallOriginal \/ Sleep \/ Leave
Next ==
    \/ Install \/ Thread \/ OtherThread
    \/ \E k \in 1..Len(Patches), r \in [Regs -> Values] : Enter(k, r)

\* A sleep is long enough for a thread that is ready to run.
Spec == Init /\ [][Next]_vars /\ WF_vars(Thread) /\ SF_vars(OtherThread)

----------------------------------------------------------------------------

TypeOK ==
    /\ tramp_used \in 0..PoolWords
    /\ DOMAIN code \ DOMAIN Game \subseteq Pool..(Pool + PoolWords - 1)
    /\ \A r \in Regs : regs[r] \in Int
    /\ Len(stack) <= 1 /\ Len(orig) <= Len(Patches)

\* A thread at a patched place never runs into data, reads a literal that is
\* none or follows a NULL pointer:
\* also not into the word behind "ldreq pc", an address that is skipped when
\* the object is there only because of the condition it reads as
\* (main.c:117-124).
NoFault ==
    pc # 0 /\ ~Left =>
        \/ pc \in {Handler, Delay}
        \/ /\ pc \in DOMAIN code
           /\ Passes(code[pc].cond) => code[pc].op # "data"
           /\ \A op \in {"literal", "ldrpc"} : Runs(op) => Reads(op)
           /\ Runs("load") => regs[code[pc].rn] \in DOMAIN heap

\* Past a patched place, the registers and the stack are what the game's own
\* instructions would have left, and the way on is theirs; a guarded NULL
\* leaves by the function's end (main.c:58-59,79-82,107-108).
AfterWord(rs, a) ==
    CASE Game[a].op = "set" -> [rs EXCEPT ![Game[a].rd] = Game[a].val]
      [] Game[a].op = "literal" -> [rs EXCEPT ![Game[a].rd] = Game[a + 2 + Game[a].off].val]
Transparent ==
    Left =>
        /\ stack = <<>>
        /\ CASE Patch.kind = "hook" -> regs = AfterWord(AfterWord(entry.regs, Patch.site), Patch.site + 1)
             [] Patch.kind = "spin" -> z /\ regs = [entry.regs EXCEPT !["r3"] = 2]
             [] Patch.kind = "guard" ->
                   IF entry.regs["r0"] = 0 THEN pc = Patch.ret /\ regs = entry.regs
                   ELSE /\ pc = Patch.site + 1
                        /\ regs = [entry.regs EXCEPT !["r3"] = regs["r3"]]

\* "re-checks, sleeps 200us between checks" (main.c:82): a waiting thread does
\* not hold the core that the thread it waits for needs, and gets on.
WaitEnds == (pc # 0) ~> (pc = 0)
=============================================================================

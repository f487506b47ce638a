------------------------------- MODULE GLLock -------------------------------
(***************************************************************************)
(* How the game's calls of GL reach VitaGL: through the import table       *)
(* (loader/default_dynlib.c:668-812) or eglGetProcAddress, in wrappers     *)
(* that hold gl_lock around the call (loader/gl_lock.c).  The wrappers of  *)
(* shader calls also keep, per shader, the source that it was last given   *)
(* (loader/default_dynlib.c:55-155), for the log of a failure.             *)
(*                                                                         *)
(* "glDrawArrays" stands for every wrapper that does nothing but lock,     *)
(* call and unlock (glLinkProgram, which logs the sources kept for the     *)
(* shaders of a program that failed, is one of them), "glMapBufferOES" for *)
(* those that only eglGetProcAddress hands out.  VitaGL and the heap are   *)
(* external.                                                               *)
(***************************************************************************)
EXTENDS Integers, FiniteSets

CONSTANTS
    Threads, NoThread,
    Shaders,     \* handles, not 0
    Sources,
    Blocks,      \* of the heap, not 0
    Cells,       \* of src_tab: 0..Cells-1
    Asked        \* names the game asks eglGetProcAddress for

ASSUME LockAssumption ==
    /\ NoThread \notin Threads
    /\ Shaders \subseteq Nat \ {0} /\ Blocks \subseteq Nat \ {0}
    /\ Cells \in Nat \ {0}

VARIABLES
    gl_lock,     \* its owner
    pc, call,    \* per thread, where it is, and the call it makes
    own,         \* per thread, the block with its pre-processed source, 0 if none
    cell,        \* per thread, the cell of src_tab it writes
    src_tab, src_tab_n,
    text,        \* a function from the allocated blocks to the sources in them
    last         \* per shader, the source it was last given

vars == <<gl_lock, pc, call, own, cell, src_tab, src_tab_n, text, last>>
table == <<src_tab, src_tab_n, text, last>>

Empty == [sh |-> 0, src |-> 0]
Untouched == "untouched"                \* given to VitaGL as it is, or not yet
Init ==
    /\ gl_lock = NoThread
    /\ pc = [t \in Threads |-> "idle"]
    /\ call = [t \in Threads |-> [kind |-> "none"]]
    /\ own = [t \in Threads |-> 0] /\ cell = [t \in Threads |-> 0]
    /\ src_tab = [i \in 0..(Cells - 1) |-> Empty] /\ src_tab_n = 0
    /\ text = <<>>
    /\ last = [s \in Shaders |-> Untouched]

\* What a name is bound to: a wrapper, a stub, or what calls VitaGL directly.
default_dynlib ==
    [glShaderSource |-> "source", glCompileShader |-> "compile", glDrawArrays |-> "plain",
     glBlendColor |-> "stub", glTexParameterfv |-> "direct"]
egl_get_proc_address_shim(name) ==
    CASE name \in DOMAIN default_dynlib \ {"glBlendColor", "glTexParameterfv"} -> default_dynlib[name]
      [] name = "glMapBufferOES" -> "plain"
      [] OTHER -> "direct"              \* vglGetProcAddress, which may know none
Kinds ==
    ({default_dynlib[n] : n \in DOMAIN default_dynlib}
       \cup {egl_get_proc_address_shim(n) : n \in Asked}) \ {"stub"}

Goto(t, p) == pc' = [pc EXCEPT ![t] = p]
At(t, p) == pc[t] = p
Shader(t) == call[t].sh
\* The heap: the first free block, if there is memory for one.
Allocated == LET free == Blocks \ DOMAIN text IN {b \in free : \A x \in free : b <= x}
Without(bs) == [b \in DOMAIN text \ bs |-> text[b]]
With(b, s, bs) == [x \in (DOMAIN text \ bs) \cup {b} |-> IF x = b THEN s ELSE text[x]]

Calls(kind) ==
    CASE kind = "source" -> [kind : {kind}, sh : Shaders, src : Sources]
      [] kind = "compile" -> [kind : {kind}, sh : Shaders]
      [] OTHER -> [kind : {kind}]
Call(t) ==
    /\ At(t, "idle")
    /\ \E kind \in Kinds : \E c \in Calls(kind) :
          /\ call' = [call EXCEPT ![t] = c]
          /\ Goto(t, IF kind = "direct" THEN "VitaGL" ELSE "lock")
    /\ UNCHANGED <<gl_lock, own, cell, table>>

Inside(t) == Goto(t, IF call[t].kind = "source" THEN "prepass" ELSE "VitaGL")
LockShared(t) ==                                                     \* mutant
    /\ At(t, "lock")
    /\ gl_lock' = t
    /\ Inside(t)
    /\ UNCHANGED <<call, own, cell, table>>
Lock(t) ==
    /\ At(t, "lock") /\ gl_lock = NoThread
    /\ gl_lock' = t
    /\ Inside(t)
    /\ UNCHANGED <<call, own, cell, table>>

\* glShaderSource_log: the three passes; a source in several strings, or one
\* for which there is no memory, goes to VitaGL as it is, and what was kept
\* for the shader stays.
Prepass(t) ==
    /\ At(t, "prepass")
    /\ \/ \E b \in Allocated :
             /\ own' = [own EXCEPT ![t] = b]
             /\ text' = With(b, call[t].src, {})
             /\ Goto(t, "remember") /\ UNCHANGED last
       \/ /\ Goto(t, "VitaGL")
          /\ last' = [last EXCEPT ![Shader(t)] = Untouched]
          /\ UNCHANGED <<own, text>>
    /\ UNCHANGED <<gl_lock, call, cell, src_tab, src_tab_n>>

\* remember_src: the shader's own cell or the next in turn; its text is freed ...
CellsOf(s) == {i \in DOMAIN src_tab : src_tab[i].sh = s}
RememberIn(t, found, freed) ==
    /\ At(t, "remember")
    /\ IF found # {}
       THEN cell' = [cell EXCEPT ![t] = CHOOSE i \in found : \A j \in found : i <= j] /\ UNCHANGED src_tab_n
       ELSE cell' = [cell EXCEPT ![t] = src_tab_n] /\ src_tab_n' = (src_tab_n + 1) % Cells
    /\ text' = IF freed THEN Without({src_tab[cell'[t]].src}) ELSE text
    /\ Goto(t, "store")
    /\ UNCHANGED <<gl_lock, call, own, src_tab, last>>
RememberNext(t) == RememberIn(t, {}, TRUE)                           \* mutant
RememberKept(t) == RememberIn(t, CellsOf(Shader(t)), FALSE)          \* mutant
Remember(t) == RememberIn(t, CellsOf(Shader(t)), TRUE)

\* ... and a copy of the new one is stored, if there is memory for it.
Store(t) ==
    /\ At(t, "store")
    /\ \/ \E b \in Allocated :
             /\ text' = With(b, text[own[t]], {})
             /\ src_tab' = [src_tab EXCEPT ![cell[t]] = [sh |-> Shader(t), src |-> b]]
       \/ /\ src_tab' = [src_tab EXCEPT ![cell[t]] =
                            IF @.sh = Shader(t) THEN [@ EXCEPT !.src = 0] ELSE Empty]
          /\ UNCHANGED text
    /\ last' = [last EXCEPT ![Shader(t)] = call[t].src]
    /\ Goto(t, "VitaGL")
    /\ UNCHANGED <<gl_lock, call, own, cell, src_tab_n>>

\* VitaGL is done.  The pre-processed source is freed; a shader that compiled
\* needs its source no more; then the lock is released.
UnlockedBy(t) == gl_lock' = IF call[t].kind = "direct" THEN gl_lock ELSE NoThread
Return(t, unlock) ==
    /\ At(t, "VitaGL")
    /\ \/ /\ call[t].kind = "compile"
          /\ src_tab' = [i \in DOMAIN src_tab |-> IF i \in CellsOf(Shader(t)) THEN Empty ELSE src_tab[i]]
          /\ text' = Without({src_tab[i].src : i \in CellsOf(Shader(t))})
       \/ /\ call[t].kind # "source" /\ UNCHANGED <<src_tab, text>>
       \/ /\ call[t].kind = "source" /\ text' = Without({own[t]}) /\ UNCHANGED src_tab
    /\ own' = [own EXCEPT ![t] = 0]
    /\ cell' = [cell EXCEPT ![t] = 0]
    /\ call' = [call EXCEPT ![t] = [kind |-> "none"]]
    /\ unlock
    /\ Goto(t, "idle")
    /\ UNCHANGED <<src_tab_n, last>>

ReturnLocked(t) ==                                                   \* mutant
    Return(t, IF call[t].kind = "source" /\ own[t] = 0 THEN UNCHANGED gl_lock ELSE UnlockedBy(t))
Leave(t) == Return(t, UnlockedBy(t))

Working(t) == Prepass(t) \/ Remember(t) \/ Store(t) \/ Leave(t)
Next == \E t \in Threads : Call(t) \/ Lock(t) \/ Working(t)

\* VitaGL returns, and the kernel gives the mutex to a thread that waits.
Spec == Init /\ [][Next]_vars /\ \A t \in Threads : WF_vars(Working(t)) /\ SF_vars(Lock(t))

----------------------------------------------------------------------------

TypeOK ==
    /\ gl_lock \in Threads \cup {NoThread}
    /\ \A t \in Threads : pc[t] \in {"idle", "lock", "prepass", "remember", "store", "VitaGL"}
    /\ DOMAIN text \subseteq Blocks
    /\ \A i \in DOMAIN src_tab : src_tab[i].sh \in Shaders \cup {0}
    /\ \A i, j \in DOMAIN src_tab : i # j /\ src_tab[i].sh = src_tab[j].sh => src_tab[i].sh = 0

\* "VitaGL has a single global context and is not thread-safe"
\* (gl_lock.c:2-3): wrapped calls are never in it at the same time, and no
\* other thread works on the kept sources meanwhile.
InCall(t) == ~(pc[t] \in {"idle", "lock"}) /\ call[t].kind # "direct"
WrappedSerialized == \A t, u \in Threads : InCall(t) /\ InCall(u) => t = u

\* "every GL entry the game imports, serialized through one recursive mutex"
\* (gl_lock.c:1): whatever the name it was called by, no call of VitaGL
\* overlaps another.
Serialized == \A t, u \in Threads : At(t, "VitaGL") /\ At(u, "VitaGL") => t = u

\* A cell's source is allocated, only there, and nothing else is but what a
\* call is working with (default_dynlib.c:59-62,129-143); in between, the cell
\* that a call writes is not looked at.
Storing == {cell[t] : t \in {u \in Threads : At(u, "store")}}
SourcesOwned ==
    LET settled == {i \in DOMAIN src_tab \ Storing : src_tab[i].src # 0} IN
    /\ DOMAIN text = {src_tab[i].src : i \in settled} \cup ({own[t] : t \in Threads} \ {0})
    /\ \A i, j \in settled : src_tab[i].src = src_tab[j].src => i = j

\* A source that is dumped for a shader is the one it was last given, unless
\* that one went to VitaGL untouched (default_dynlib.c:57,63-65,132).
RecallLast ==
    \A s \in Shaders : \A i \in CellsOf(s) \ Storing :
        last[s] # Untouched /\ src_tab[i].src # 0 => text[src_tab[i].src] = last[s]

\* While a wrapped call is in VitaGL no other is, and nobody else touches the
\* sources that are kept for the log (gl_lock.c:2-3).  What is kept is what the
\* shader was last given, allocated once and owned by one cell
\* (default_dynlib.c:55-65,129-143).
SourcesKept == TypeOK /\ WrappedSerialized /\ SourcesOwned /\ RecallLast

\* Every call of GL returns (gl_lock.c: each wrapper releases what it took).
CallsReturn == \A t \in Threads : ~At(t, "idle") ~> At(t, "idle")
=============================================================================

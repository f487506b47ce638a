---------------------------- MODULE GLLock_proofs ----------------------------
(***************************************************************************)
(* The global lock and the sources kept under it, for any threads, names,  *)
(* shaders, sources and memory.  First who holds the lock, from the place  *)
(* a call is at; then, as only the holder works on the kept sources, who   *)
(* owns each allocated block: a cell that is not being written, or the     *)
(* call whose pre-processed source it is, and never two of them.           *)
(*                                                                         *)
(* Then the parts of MCGLCalls beside them, the attachment caches and the  *)
(* rectangles of the screen.                                               *)
(***************************************************************************)
EXTENDS MCGLCalls, FiniteSetTheorems, TLAPS

Index == 0..(Cells - 1)
None == [kind |-> "none"]
Records ==
    {None}
    \cup [kind : {"source"}, sh : Shaders, src : Sources]
    \cup [kind : {"compile"}, sh : Shaders]
    \cup [kind : {"plain", "direct"}]

TypeInv ==
    /\ gl_lock \in Threads \cup {NoThread}
    /\ pc \in [Threads -> {"idle", "lock", "prepass", "remember", "store", "VitaGL"}]
    /\ call \in [Threads -> Records]
    /\ own \in [Threads -> Blocks \cup {0}]
    /\ cell \in [Threads -> Index]
    /\ src_tab \in [Index -> [sh : Shaders \cup {0}, src : Blocks \cup {0}]]
    /\ src_tab_n \in Index
    /\ DOMAIN text \subseteq Blocks /\ text \in [DOMAIN text -> Sources]
    /\ last \in [Shaders -> Sources \cup {Untouched}]

\* The lock is held by the thread that is in a wrapped call.
LockInv ==
    /\ \A t \in Threads : InCall(t) <=> gl_lock = t
    /\ \A t \in Threads : At(t, "lock") => call[t].kind # "direct"

\* What a call of glShaderSource has where it is.
SourceInv ==
    \A t \in Threads :
        /\ pc[t] \in {"prepass", "remember", "store"} => call[t].kind = "source"
        /\ pc[t] \in {"remember", "store"} =>
              own[t] \in DOMAIN text /\ text[own[t]] = call[t].src
        /\ own[t] # 0 => pc[t] \in {"remember", "store", "VitaGL"} /\ call[t].kind = "source"

\* Shaders have one cell at most, and a call that writes one has no other.
CellInv ==
    /\ \A i, j \in Index : src_tab[i].sh = src_tab[j].sh /\ src_tab[i].sh # 0 => i = j
    /\ \A t \in Threads, i \in Index : At(t, "store") /\ src_tab[i].sh = Shader(t) => i = cell[t]

\* A cell whose source is there to be read.
Settled(i) == src_tab[i].src # 0 /\ \A t \in Threads : At(t, "store") => cell[t] # i

OwnerInv ==
    /\ \A i \in Index : Settled(i) => src_tab[i].src \in DOMAIN text
    /\ \A t \in Threads : own[t] # 0 => own[t] \in DOMAIN text
    /\ \A b \in DOMAIN text : \/ \E i \in Index : Settled(i) /\ src_tab[i].src = b
                              \/ \E t \in Threads : own[t] = b
    /\ \A i, j \in Index : Settled(i) /\ Settled(j) /\ src_tab[i].src = src_tab[j].src => i = j
    /\ \A t \in Threads, i \in Index : Settled(i) => src_tab[i].src # own[t]

\* A settled source is the last one of its shader, unless that went untouched.
RecallInv ==
    \A i \in Index : /\ Settled(i) => src_tab[i].sh # 0
                     /\ Settled(i) /\ last[src_tab[i].sh] # Untouched
                           => text[src_tab[i].src] = last[src_tab[i].sh]

CallInv == TypeInv /\ LockInv /\ SourceInv
TabInv == CellInv /\ OwnerInv /\ RecallInv
IInv == CallInv /\ TabInv

----------------------------------------------------------------------------
(* Names, calls and blocks. *)

LEMMA BoundKinds ==
  Kinds \subseteq {"source", "compile", "plain", "direct"}
<1>1. \A n \in DOMAIN default_dynlib :
        default_dynlib[n] \in {"source", "compile", "plain", "stub", "direct"}
  BY DEF default_dynlib
<1>2. \A n : egl_get_proc_address_shim(n) \in {"source", "compile", "plain", "stub", "direct"}
  BY <1>1 DEF egl_get_proc_address_shim
<1>3. QED
  BY <1>1, <1>2 DEF Kinds

LEMMA CallTypes ==
  ASSUME NEW kind \in Kinds, NEW c \in Calls(kind)
  PROVE  c \in Records /\ c.kind = kind /\ kind # "none"
<1>1. kind \in {"source", "compile", "plain", "direct"}
  BY BoundKinds
<1>2. CASE kind = "source"
  BY <1>2 DEF Calls, Records
<1>3. CASE kind = "compile"
  BY <1>3 DEF Calls, Records
<1>4. CASE kind \in {"plain", "direct"}
  <2>1. c \in [kind : {kind}]
    BY <1>4 DEF Calls
  <2>2. QED
    BY <1>4, <2>1 DEF Records
<1>5. QED
  BY <1>1, <1>2, <1>3, <1>4

LEMMA RecordFields ==
  ASSUME NEW c \in Records
  PROVE  /\ c.kind = "source" => c.sh \in Shaders /\ c.src \in Sources
         /\ c.kind = "compile" => c.sh \in Shaders
<1>1. CASE c = None
  BY <1>1 DEF None
<1>2. CASE c \in [kind : {"source"}, sh : Shaders, src : Sources]
  BY <1>2
<1>3. CASE c \in [kind : {"compile"}, sh : Shaders]
  <2>1. c.kind = "compile" /\ c.sh \in Shaders
    BY <1>3
  <2>2. QED
    BY <2>1
<1>4. CASE c \in [kind : {"plain", "direct"}]
  <2>1. c.kind \in {"plain", "direct"}
    BY <1>4
  <2>2. QED
    BY <2>1
<1>5. QED
  BY <1>1, <1>2, <1>3, <1>4 DEF Records

LEMMA FreeBlock ==
  ASSUME NEW b \in Allocated
  PROVE  b \in Blocks /\ b \notin DOMAIN text /\ b # 0
  BY LockAssumption DEF Allocated

LEMMA WithFacts ==
  ASSUME text \in [DOMAIN text -> Sources], NEW b, NEW s \in Sources, text' = With(b, s, {})
  PROVE  /\ DOMAIN text' = DOMAIN text \cup {b}
         /\ text'[b] = s
         /\ \A x \in DOMAIN text : x # b => text'[x] = text[x]
         /\ text' \in [DOMAIN text' -> Sources]
  BY DEF With

LEMMA WithoutFacts ==
  ASSUME text \in [DOMAIN text -> Sources], NEW S, text' = Without(S)
  PROVE  /\ DOMAIN text' = DOMAIN text \ S
         /\ \A x \in DOMAIN text \ S : text'[x] = text[x]
         /\ text' \in [DOMAIN text' -> Sources]
  BY DEF Without

\* Nobody else is in a wrapped call.
LEMMA Alone ==
  ASSUME CallInv, NEW t \in Threads, InCall(t)
  PROVE  /\ gl_lock = t
         /\ \A u \in Threads : u # t => /\ ~InCall(u) /\ own[u] = 0
                                    /\ pc[u] \in {"idle", "lock", "VitaGL"}
<1>1. gl_lock = t
  BY DEF CallInv, LockInv
<1>2. ASSUME NEW u \in Threads, u # t
      PROVE  ~InCall(u) /\ own[u] = 0 /\ pc[u] \in {"idle", "lock", "VitaGL"}
  <2>1. ~InCall(u)
    BY <1>1, <1>2 DEF CallInv, LockInv
  <2>2. QED
    BY <2>1 DEF CallInv, TypeInv, SourceInv, InCall
<1>3. QED
  BY <1>1, <1>2

LEMMA InitInv == Init => IInv
<1> SUFFICES ASSUME Init PROVE IInv
  OBVIOUS
<1>1. DOMAIN text = {} /\ text \in [DOMAIN text -> Sources]
  BY DEF Init
<1>2. TypeInv
  BY <1>1, LockAssumption DEF Init, TypeInv, Records, None, Index, Empty
<1>3. LockInv /\ SourceInv
  BY LockAssumption DEF Init, LockInv, SourceInv, InCall, At
<1>4. \A i \in Index : src_tab[i] = Empty
  BY DEF Init, Index
<1>5. \A i \in Index : src_tab[i].sh = 0 /\ ~Settled(i)
  BY <1>4 DEF Empty, Settled
<1>6. \A t \in Threads : own[t] = 0 /\ ~At(t, "store")
  BY DEF Init, At
<1>7. TabInv
  BY <1>1, <1>5, <1>6 DEF TabInv, CellInv, OwnerInv, RecallInv
<1>8. QED
  BY <1>2, <1>3, <1>7 DEF IInv, CallInv

----------------------------------------------------------------------------
(* Who is where. *)

LEMMA CallCall ==
  ASSUME CallInv, NEW t \in Threads, Call(t)
  PROVE  CallInv'
<1>1. PICK kind \in Kinds : \E c \in Calls(kind) :
          /\ call' = [call EXCEPT ![t] = c]
          /\ Goto(t, IF kind = "direct" THEN "VitaGL" ELSE "lock")
  BY DEF Call
<1>2. PICK c \in Calls(kind) :
          /\ call' = [call EXCEPT ![t] = c]
          /\ pc' = [pc EXCEPT ![t] = IF kind = "direct" THEN "VitaGL" ELSE "lock"]
  BY <1>1 DEF Goto
<1>3. /\ c \in Records /\ c.kind = kind
      /\ pc[t] = "idle"
      /\ UNCHANGED <<gl_lock, own, cell, src_tab, src_tab_n, text, last>>
  BY CallTypes DEF Call, At, table
<1>4. TypeInv'
  BY <1>2, <1>3 DEF CallInv, TypeInv
<1>5. LockInv'
  BY <1>2, <1>3 DEF CallInv, TypeInv, LockInv, InCall, At
<1>6. SourceInv'
  BY <1>2, <1>3 DEF CallInv, TypeInv, SourceInv
<1>7. QED
  BY <1>4, <1>5, <1>6 DEF CallInv

LEMMA LockCall ==
  ASSUME CallInv, NEW t \in Threads, Lock(t)
  PROVE  CallInv'
<1>1. /\ pc[t] = "lock" /\ gl_lock = NoThread /\ gl_lock' = t
      /\ pc' = [pc EXCEPT ![t] = IF call[t].kind = "source" THEN "prepass" ELSE "VitaGL"]
      /\ call[t].kind # "direct"
      /\ UNCHANGED <<call, own, cell, src_tab, src_tab_n, text, last>>
  BY DEF Lock, Inside, Goto, At, table, CallInv, LockInv
<1>2. TypeInv'
  BY <1>1 DEF CallInv, TypeInv
<1>3. LockInv'
  BY <1>1, LockAssumption DEF CallInv, TypeInv, LockInv, InCall, At
<1>4. SourceInv'
  BY <1>1 DEF CallInv, TypeInv, SourceInv
<1>5. QED
  BY <1>2, <1>3, <1>4 DEF CallInv

LEMMA PrepassCall ==
  ASSUME CallInv, OwnerInv, NEW t \in Threads, Prepass(t)
  PROVE  CallInv'
<1>1. /\ pc[t] = "prepass" /\ call[t].kind = "source"
      /\ call[t].sh \in Shaders /\ call[t].src \in Sources
      /\ InCall(t)
      /\ UNCHANGED <<gl_lock, call, cell, src_tab, src_tab_n>>
  BY RecordFields DEF Prepass, At, CallInv, TypeInv, SourceInv, InCall
<1>2. CASE \E b \in Allocated : /\ own' = [own EXCEPT ![t] = b]
                                /\ text' = With(b, call[t].src, {})
                                /\ Goto(t, "remember") /\ UNCHANGED last
  <2>1. PICK b \in Allocated : /\ own' = [own EXCEPT ![t] = b]
                               /\ text' = With(b, call[t].src, {})
                               /\ pc' = [pc EXCEPT ![t] = "remember"] /\ UNCHANGED last
    BY <1>2 DEF Goto
  <2>2. b \in Blocks /\ b \notin DOMAIN text /\ b # 0
    BY FreeBlock
  <2>3. /\ DOMAIN text' = DOMAIN text \cup {b} /\ text'[b] = call[t].src
        /\ \A x \in DOMAIN text : x # b => text'[x] = text[x]
        /\ text' \in [DOMAIN text' -> Sources]
    BY <1>1, <2>1, WithFacts DEF CallInv, TypeInv
  <2>4. TypeInv'
    BY <1>1, <2>1, <2>2, <2>3 DEF CallInv, TypeInv
  <2>5. LockInv'
    BY <1>1, <2>1 DEF CallInv, TypeInv, LockInv, InCall, At
  <2>6. SourceInv'
    BY <1>1, <2>1, <2>2, <2>3 DEF CallInv, TypeInv, SourceInv
  <2>7. QED
    BY <2>4, <2>5, <2>6 DEF CallInv
<1>3. CASE /\ Goto(t, "VitaGL")
           /\ last' = [last EXCEPT ![Shader(t)] = Untouched]
           /\ UNCHANGED <<own, text>>
  <2>1. /\ pc' = [pc EXCEPT ![t] = "VitaGL"]
        /\ last' \in [Shaders -> Sources \cup {Untouched}]
    BY <1>1, <1>3 DEF Goto, CallInv, TypeInv, Shader
  <2>2. TypeInv'
    BY <1>1, <1>3, <2>1 DEF CallInv, TypeInv
  <2>3. LockInv' /\ SourceInv'
    BY <1>1, <1>3, <2>1 DEF CallInv, TypeInv, LockInv, SourceInv, InCall, At
  <2>4. QED
    BY <2>2, <2>3 DEF CallInv
<1>4. QED
  BY <1>2, <1>3 DEF Prepass

\* The cell of a shader is the only one, and is the one that is found.
LEMMA FoundCell ==
  ASSUME TypeInv, CellInv, NEW s \in Shaders, CellsOf(s) # {}
  PROVE  \E i \in Index : /\ CellsOf(s) = {i}
                          /\ (CHOOSE j \in CellsOf(s) : \A k \in CellsOf(s) : j <= k) = i
<1>1. DOMAIN src_tab = Index /\ s # 0
  BY LockAssumption DEF TypeInv
<1>2. PICK i \in Index : src_tab[i].sh = s
  BY <1>1 DEF CellsOf
<1>3. CellsOf(s) = {i}
  BY <1>1, <1>2 DEF CellsOf, CellInv
<1>4. i <= i
  BY <1>2, LockAssumption DEF Index
<1>5. QED
  BY <1>3, <1>4

\* remember_src settles on a cell, such that no other one is the shader's.
LEMMA RememberFacts ==
  ASSUME CallInv, CellInv, NEW t \in Threads, Remember(t)
  PROVE  \E c \in Index :
           /\ cell' = [cell EXCEPT ![t] = c]
           /\ \A i \in Index : src_tab[i].sh = Shader(t) => i = c
           /\ src_tab_n' \in Index
           /\ text' = Without({src_tab[c].src})
<1> DEFINE found == CellsOf(Shader(t))
<1>1. Shader(t) \in Shaders /\ t \in DOMAIN cell
  BY RecordFields DEF Remember, RememberIn, At, CallInv, TypeInv, SourceInv, Shader
<1>2. text' = Without({src_tab[cell'[t]].src})
  BY DEF Remember, RememberIn
<1>3. CASE found # {}
  <2>1. cell' = [cell EXCEPT ![t] = CHOOSE i \in found : \A j \in found : i <= j] /\ UNCHANGED src_tab_n
    BY <1>3 DEF Remember, RememberIn
  <2>2. PICK c \in Index : found = {c} /\ (CHOOSE i \in found : \A j \in found : i <= j) = c
    BY <1>1, <1>3, FoundCell DEF CallInv
  <2>3. cell' = [cell EXCEPT ![t] = c] /\ cell'[t] = c
    BY <1>1, <2>1, <2>2
  <2>4. \A i \in Index : src_tab[i].sh = Shader(t) => i = c
    BY <2>2 DEF CellsOf, CallInv, TypeInv
  <2>5. src_tab_n' \in Index
    BY <2>1 DEF CallInv, TypeInv
  <2>6. QED
    BY <1>2, <2>3, <2>4, <2>5
<1>4. CASE found = {}
  <2>1. cell' = [cell EXCEPT ![t] = src_tab_n] /\ src_tab_n' = (src_tab_n + 1) % Cells
    BY <1>4 DEF Remember, RememberIn
  <2>2. src_tab_n \in Index /\ src_tab_n' \in Index
    BY <2>1, LockAssumption DEF CallInv, TypeInv, Index
  <2>3. \A i \in Index : src_tab[i].sh # Shader(t)
    BY <1>4 DEF CellsOf, CallInv, TypeInv
  <2>4. cell'[t] = src_tab_n
    BY <1>1, <2>1
  <2>5. QED
    BY <1>2, <2>1, <2>2, <2>3, <2>4
<1>5. QED
  BY <1>3, <1>4

\* A call between the passes and VitaGL: it holds the lock, and has its source.
LEMMA SourceCall ==
  ASSUME CallInv, NEW t \in Threads, pc[t] \in {"remember", "store"}
  PROVE  /\ call[t].kind = "source" /\ Shader(t) \in Shaders /\ call[t].src \in Sources
         /\ own[t] \in DOMAIN text /\ own[t] \in Blocks /\ own[t] # 0
         /\ text[own[t]] = call[t].src
         /\ InCall(t)
  BY RecordFields, LockAssumption DEF CallInv, TypeInv, SourceInv, InCall, Shader

LEMMA RememberInv ==
  ASSUME IInv, NEW t \in Threads, Remember(t)
  PROVE  IInv'
<1>1. PICK c \in Index :
           /\ cell' = [cell EXCEPT ![t] = c]
           /\ \A i \in Index : src_tab[i].sh = Shader(t) => i = c
           /\ src_tab_n' \in Index
           /\ text' = Without({src_tab[c].src})
  BY RememberFacts DEF IInv, TabInv
<1>2. /\ pc[t] = "remember" /\ pc' = [pc EXCEPT ![t] = "store"]
      /\ UNCHANGED <<gl_lock, call, own, src_tab, last>>
  BY DEF Remember, RememberIn, At, Goto
<1>3. /\ call[t].kind = "source" /\ Shader(t) \in Shaders
      /\ own[t] \in DOMAIN text /\ own[t] # 0
      /\ text[own[t]] = call[t].src
      /\ InCall(t)
  BY <1>2, SourceCall DEF IInv
<1>4. \A u \in Threads : u # t => own[u] = 0 /\ pc[u] \in {"idle", "lock", "VitaGL"}
  BY <1>3, Alone DEF IInv
<1>5. /\ DOMAIN text' = DOMAIN text \ {src_tab[c].src}
      /\ \A x \in DOMAIN text \ {src_tab[c].src} : text'[x] = text[x]
      /\ text' \in [DOMAIN text' -> Sources]
  BY <1>1, WithoutFacts DEF IInv, CallInv, TypeInv
\* Before the step all cells are settled, after it all but this one.
<1>6. \A i \in Index : Settled(i) <=> src_tab[i].src # 0
  BY <1>2, <1>4 DEF Settled, At
<1>7. \A i \in Index : Settled(i)' <=> src_tab[i].src # 0 /\ i # c
  BY <1>1, <1>2, <1>4 DEF Settled, At, IInv, CallInv, TypeInv
<1>8. src_tab[c].src # own[t]
  BY <1>3, <1>6 DEF IInv, TabInv, OwnerInv
<1>9. TypeInv'
  BY <1>1, <1>2, <1>5 DEF IInv, CallInv, TypeInv
<1>10. LockInv'
  BY <1>2, <1>3 DEF IInv, CallInv, TypeInv, LockInv, InCall, At
<1>11. SourceInv'
  BY <1>2, <1>3, <1>4, <1>5, <1>8 DEF IInv, CallInv, TypeInv, SourceInv
<1>12. CellInv'
  BY <1>1, <1>2, <1>4 DEF IInv, CallInv, TypeInv, TabInv, CellInv, At, Shader
<1>13. OwnerInv'
  <2>1. \A i \in Index : Settled(i)' => Settled(i) /\ i # c
    BY <1>6, <1>7
  <2>2. \A i \in Index : Settled(i)' => src_tab[i].src \in DOMAIN text'
    BY <1>5, <1>6, <1>7, <2>1 DEF IInv, TabInv, OwnerInv
  <2>3. \A u \in Threads : own[u] # 0 => own[u] \in DOMAIN text'
    BY <1>3, <1>4, <1>5, <1>8
  <2>4. ASSUME NEW b \in DOMAIN text'
        PROVE  \/ \E i \in Index : Settled(i)' /\ src_tab[i].src = b
               \/ \E u \in Threads : own[u] = b
    <3>1. b \in DOMAIN text /\ b # src_tab[c].src
      BY <1>5
    <3>2. QED
      BY <1>6, <1>7, <3>1 DEF IInv, TabInv, OwnerInv
  <2>5. \A i, j \in Index : Settled(i)' /\ Settled(j)' /\ src_tab[i].src = src_tab[j].src => i = j
    BY <2>1 DEF IInv, TabInv, OwnerInv
  <2>6. \A u \in Threads, i \in Index : Settled(i)' => src_tab[i].src # own[u]
    BY <2>1 DEF IInv, TabInv, OwnerInv
  <2>7. QED
    BY <1>2, <2>2, <2>3, <2>4, <2>5, <2>6 DEF OwnerInv
<1>14. RecallInv'
  BY <1>2, <1>5, <1>6, <1>7 DEF IInv, TabInv, OwnerInv, RecallInv
<1>15. QED
  BY <1>9, <1>10, <1>11, <1>12, <1>13, <1>14 DEF IInv, CallInv, TabInv

LEMMA StoreInv ==
  ASSUME IInv, NEW t \in Threads, Store(t)
  PROVE  IInv'
<1> DEFINE c == cell[t]
           s == Shader(t)
<1>1. /\ pc[t] = "store" /\ pc' = [pc EXCEPT ![t] = "VitaGL"]
      /\ last' = [last EXCEPT ![s] = call[t].src]
      /\ UNCHANGED <<gl_lock, call, own, cell, src_tab_n>>
  BY DEF Store, At, Goto
<1>2. /\ call[t].kind = "source" /\ s \in Shaders /\ call[t].src \in Sources
      /\ own[t] \in DOMAIN text /\ own[t] # 0
      /\ text[own[t]] = call[t].src
      /\ InCall(t)
  BY <1>1, SourceCall DEF IInv
<1>3. \A u \in Threads : u # t => own[u] = 0 /\ pc[u] \in {"idle", "lock", "VitaGL"}
  BY <1>2, Alone DEF IInv
<1>4. c \in Index /\ s # 0
  BY <1>2, LockAssumption DEF IInv, CallInv, TypeInv
<1>5. \A i \in Index : src_tab[i].sh = s => i = c
  BY <1>1 DEF IInv, TabInv, CellInv, At
<1>6. \A i \in Index : Settled(i) <=> src_tab[i].src # 0 /\ i # c
  BY <1>1, <1>3 DEF Settled, At
<1>7. \A i \in Index : Settled(i)' <=> src_tab'[i].src # 0
  BY <1>1, <1>3 DEF Settled, At, IInv, CallInv, TypeInv
<1>8. LockInv'
  BY <1>1, <1>2 DEF IInv, CallInv, TypeInv, LockInv, InCall, At
<1>9. last' \in [Shaders -> Sources \cup {Untouched}] /\ last'[s] = call[t].src
      /\ \A x \in Shaders : x # s => last'[x] = last[x]
  BY <1>1, <1>2 DEF IInv, CallInv, TypeInv
<1>10. \A u \in Threads : pc'[u] # "store"
  BY <1>1, <1>3 DEF IInv, CallInv, TypeInv
<1>11. \A i \in Index : src_tab[i].sh \in Shaders \cup {0}
  BY DEF IInv, CallInv, TypeInv
<1>12. \A i, j \in Index : src_tab[i].sh = src_tab[j].sh /\ src_tab[i].sh # 0 => i = j
  BY DEF IInv, TabInv, CellInv
<1>13. \A i \in Index : Settled(i) => src_tab[i].sh # 0
  BY DEF IInv, TabInv, RecallInv
<1>14. \A i \in Index : Settled(i) /\ last[src_tab[i].sh] # Untouched
                         => text[src_tab[i].src] = last[src_tab[i].sh]
  BY DEF IInv, TabInv, RecallInv
<1> HIDE DEF c, s
<1>15. \A i \in Index : Settled(i) => src_tab[i].sh \in Shaders /\ src_tab[i].sh # s
  BY <1>11, <1>13, <1>5, <1>6
<1>16. CASE \E b \in Allocated : /\ text' = With(b, text[own[t]], {})
                                 /\ src_tab' = [src_tab EXCEPT ![c] = [sh |-> s, src |-> b]]
  <2>1. PICK b \in Allocated : /\ text' = With(b, text[own[t]], {})
                               /\ src_tab' = [src_tab EXCEPT ![c] = [sh |-> s, src |-> b]]
    BY <1>16
  <2>2. b \in Blocks /\ b \notin DOMAIN text /\ b # 0
    BY FreeBlock
  <2>3. /\ DOMAIN text' = DOMAIN text \cup {b} /\ text'[b] = call[t].src
        /\ \A x \in DOMAIN text : x # b => text'[x] = text[x]
        /\ text' \in [DOMAIN text' -> Sources]
    BY <1>2, <2>1, WithFacts DEF IInv, CallInv, TypeInv
  <2>4. /\ src_tab' \in [Index -> [sh : Shaders \cup {0}, src : Blocks \cup {0}]]
        /\ src_tab'[c].sh = s /\ src_tab'[c].src = b
        /\ \A i \in Index : i # c => src_tab'[i] = src_tab[i]
    BY <1>2, <1>4, <2>1, <2>2 DEF IInv, CallInv, TypeInv
  <2>5. TypeInv'
    BY <1>1, <1>9, <2>2, <2>3, <2>4 DEF IInv, CallInv, TypeInv
  <2>6. SourceInv'
    BY <1>1, <1>2, <1>3, <2>2, <2>3 DEF IInv, CallInv, TypeInv, SourceInv
  <2>7. CellInv'
    <3>1. \A i, j \in Index : src_tab'[i].sh = src_tab'[j].sh /\ src_tab'[i].sh # 0 => i = j
      BY <1>4, <1>5, <1>12, <2>4
    <3>2. QED
      BY <1>10, <3>1 DEF CellInv, At
  <2>8. \A i \in Index : Settled(i)' <=> i = c \/ Settled(i)
    BY <1>4, <1>6, <1>7, <2>2, <2>4
  <2>9. OwnerInv'
    <3>1. \A i \in Index : Settled(i)' => src_tab'[i].src \in DOMAIN text'
      BY <2>3, <2>4, <2>8 DEF IInv, TabInv, OwnerInv
    <3>2. \A u \in Threads : own[u] # 0 => own[u] \in DOMAIN text'
      BY <2>3 DEF IInv, TabInv, OwnerInv
    <3>3. ASSUME NEW x \in DOMAIN text'
          PROVE  \/ \E i \in Index : Settled(i)' /\ src_tab'[i].src = x
                 \/ \E u \in Threads : own[u] = x
      <4>1. CASE x = b
        BY <1>4, <2>4, <2>8, <4>1
      <4>2. CASE x \in DOMAIN text
        BY <1>6, <2>4, <2>8, <4>2 DEF IInv, TabInv, OwnerInv
      <4>3. QED
        BY <2>3, <4>1, <4>2
    <3>4. \A i, j \in Index :
             Settled(i)' /\ Settled(j)' /\ src_tab'[i].src = src_tab'[j].src => i = j
      BY <2>2, <2>4, <2>8 DEF IInv, TabInv, OwnerInv
    <3>5. \A u \in Threads, i \in Index : Settled(i)' => src_tab'[i].src # own[u]
      BY <2>2, <2>4, <2>8 DEF IInv, TabInv, OwnerInv
    <3>6. QED
      BY <1>1, <3>1, <3>2, <3>3, <3>4, <3>5 DEF OwnerInv
  <2>10. RecallInv'
    <3>1. \A i \in Index : Settled(i) => src_tab[i].src \in DOMAIN text
      BY DEF IInv, TabInv, OwnerInv
    <3>2. ASSUME NEW i \in Index, Settled(i)'
          PROVE  /\ src_tab'[i].sh # 0
                 /\ last'[src_tab'[i].sh] # Untouched
                       => text'[src_tab'[i].src] = last'[src_tab'[i].sh]
      <4>1. CASE i = c
        BY <1>4, <1>9, <2>3, <2>4, <4>1
      <4>2. CASE i # c
        <5>1. Settled(i) /\ src_tab'[i] = src_tab[i] /\ src_tab[i].src # b
          BY <2>2, <2>4, <2>8, <3>1, <3>2, <4>2
        <5>2. last'[src_tab[i].sh] = last[src_tab[i].sh] /\ text'[src_tab[i].src] = text[src_tab[i].src]
          BY <1>9, <1>15, <2>3, <3>1, <5>1
        <5>3. QED
          BY <1>13, <1>14, <5>1, <5>2
      <4>3. QED
        BY <4>1, <4>2
    <3>3. QED
      BY <3>2 DEF RecallInv
  <2>11. QED
    BY <1>8, <2>5, <2>6, <2>7, <2>9, <2>10 DEF IInv, CallInv, TabInv
<1>17. CASE /\ src_tab' = [src_tab EXCEPT ![c] = IF @.sh = s THEN [@ EXCEPT !.src = 0] ELSE Empty]
            /\ UNCHANGED text
  <2>1. /\ src_tab' \in [Index -> [sh : Shaders \cup {0}, src : Blocks \cup {0}]]
        /\ src_tab'[c].sh \in {s, 0} /\ src_tab'[c].src = 0
        /\ \A i \in Index : i # c => src_tab'[i] = src_tab[i]
    BY <1>2, <1>4, <1>17 DEF IInv, CallInv, TypeInv, Empty
  <2>2. TypeInv'
    BY <1>1, <1>9, <1>17, <2>1 DEF IInv, CallInv, TypeInv
  <2>3. SourceInv'
    BY <1>1, <1>2, <1>3, <1>17 DEF IInv, CallInv, TypeInv, SourceInv
  <2>4. CellInv'
    <3>1. \A i, j \in Index : src_tab'[i].sh = src_tab'[j].sh /\ src_tab'[i].sh # 0 => i = j
      BY <1>4, <1>5, <1>12, <2>1
    <3>2. QED
      BY <1>10, <3>1 DEF CellInv, At
  <2>5. \A i \in Index : Settled(i)' <=> Settled(i)
    BY <1>4, <1>6, <1>7, <2>1
  <2>6. \A i \in Index : Settled(i) => src_tab'[i] = src_tab[i]
    BY <1>6, <2>1
  <2>7. OwnerInv'
    <3>1. OwnerInv
      BY DEF IInv, TabInv
    <3>2. UNCHANGED <<own, text>>
      BY <1>1, <1>17
    <3>3. QED
      BY <2>5, <2>6, <3>1, <3>2 DEF OwnerInv
  <2>8. RecallInv'
    BY <1>9, <1>17, <1>15, <2>5, <2>6 DEF IInv, TabInv, RecallInv
  <2>9. QED
    BY <1>8, <2>2, <2>3, <2>4, <2>7, <2>8 DEF IInv, CallInv, TabInv
<1>18. QED
  BY <1>16, <1>17 DEF Store, c, s

\* A step that leaves the table and the heap as they are, and by which nobody
\* begins or ends to write a cell.
LEMMA TabKept ==
  ASSUME TabInv, UNCHANGED <<own, src_tab, text, last>>,
         \A u \in Threads : At(u, "store")' => At(u, "store") /\ Shader(u)' = Shader(u),
         \A u \in Threads : At(u, "store") => At(u, "store")' /\ cell'[u] = cell[u]
  PROVE  TabInv'
<1>1. \A i \in Index : Settled(i)' <=> Settled(i)
  BY DEF Settled
<1>2. CellInv'
  BY DEF TabInv, CellInv
<1>3. OwnerInv'
  BY <1>1 DEF TabInv, OwnerInv
<1>4. RecallInv'
  BY <1>1 DEF TabInv, RecallInv
<1>5. QED
  BY <1>2, <1>3, <1>4 DEF TabInv

LEMMA CallTab ==
  ASSUME IInv, NEW t \in Threads, Call(t)
  PROVE  TabInv'
<1>1. /\ pc[t] = "idle" /\ pc'[t] # "store"
      /\ \A u \in Threads : u # t => pc'[u] = pc[u] /\ call'[u] = call[u]
      /\ UNCHANGED <<own, cell, src_tab, text, last>>
  BY DEF Call, At, Goto, table, IInv, CallInv, TypeInv
<1>2. QED
  BY <1>1, TabKept DEF IInv, At, Shader

LEMMA LockTab ==
  ASSUME IInv, NEW t \in Threads, Lock(t)
  PROVE  TabInv'
<1>1. /\ pc[t] = "lock" /\ pc'[t] # "store"
      /\ \A u \in Threads : u # t => pc'[u] = pc[u]
      /\ UNCHANGED <<call, own, cell, src_tab, text, last>>
  BY DEF Lock, Inside, At, Goto, table, IInv, CallInv, TypeInv
<1>2. QED
  BY <1>1, TabKept DEF IInv, At, Shader

\* The pre-processed source is in a block of its own.
LEMMA PrepassTab ==
  ASSUME IInv, NEW t \in Threads, Prepass(t)
  PROVE  TabInv'
<1>1. /\ pc[t] = "prepass" /\ pc'[t] # "store"
      /\ \A u \in Threads : u # t => pc'[u] = pc[u]
      /\ UNCHANGED <<call, cell, src_tab>>
      /\ Shader(t) \in Shaders /\ call[t].src \in Sources /\ InCall(t)
  BY RecordFields DEF Prepass, At, Goto, IInv, CallInv, TypeInv, SourceInv, InCall, Shader
<1>2. \A u \in Threads : pc[u] # "store" /\ pc'[u] # "store"
  BY <1>1, Alone DEF IInv
<1>3. \A i \in Index : Settled(i)' <=> Settled(i)
  BY <1>1, <1>2 DEF Settled, At
<1>4. CellInv'
  BY <1>1, <1>2 DEF IInv, TabInv, CellInv, At
<1>5. CASE \E b \in Allocated : /\ own' = [own EXCEPT ![t] = b]
                                /\ text' = With(b, call[t].src, {})
                                /\ UNCHANGED last
  <2>1. PICK b \in Allocated : /\ own' = [own EXCEPT ![t] = b]
                               /\ text' = With(b, call[t].src, {})
                               /\ UNCHANGED last
    BY <1>5
  <2>2. b \notin DOMAIN text
    BY FreeBlock
  <2>3. /\ DOMAIN text' = DOMAIN text \cup {b} /\ text'[b] = call[t].src
        /\ \A x \in DOMAIN text : x # b => text'[x] = text[x]
        /\ text' \in [DOMAIN text' -> Sources]
    BY <1>1, <2>1, WithFacts DEF IInv, CallInv, TypeInv
  <2>4. own'[t] = b /\ own[t] = 0 /\ \A u \in Threads : u # t => own'[u] = own[u]
    BY <1>1, <2>1 DEF IInv, CallInv, TypeInv, SourceInv
  <2>5. OwnerInv'
    <3>1. \A i \in Index : Settled(i)' => src_tab'[i].src \in DOMAIN text'
      BY <1>1, <1>3, <2>3 DEF IInv, TabInv, OwnerInv
    <3>2. \A u \in Threads : own'[u] # 0 => own'[u] \in DOMAIN text'
      BY <2>3, <2>4 DEF IInv, TabInv, OwnerInv
    <3>3. 0 \notin DOMAIN text
      BY LockAssumption DEF IInv, CallInv, TypeInv
    <3>4. ASSUME NEW x \in DOMAIN text'
          PROVE  \/ \E i \in Index : Settled(i)' /\ src_tab'[i].src = x
                 \/ \E u \in Threads : own'[u] = x
      <4>1. CASE x = b
        BY <2>4, <4>1
      <4>2. CASE x \in DOMAIN text
        BY <1>1, <1>3, <2>4, <3>3, <4>2 DEF IInv, TabInv, OwnerInv
      <4>3. QED
        BY <2>3, <4>1, <4>2
    <3>5. \A i, j \in Index :
             Settled(i)' /\ Settled(j)' /\ src_tab'[i].src = src_tab'[j].src => i = j
      BY <1>1, <1>3 DEF IInv, TabInv, OwnerInv
    <3>6. \A u \in Threads, i \in Index : Settled(i)' => src_tab'[i].src # own'[u]
      BY <1>1, <1>3, <2>2, <2>4 DEF IInv, TabInv, OwnerInv
    <3>7. QED
      BY <3>1, <3>2, <3>4, <3>5, <3>6 DEF OwnerInv
  <2>6. RecallInv'
    BY <1>1, <1>3, <2>1, <2>2, <2>3 DEF IInv, TabInv, OwnerInv, RecallInv
  <2>7. QED
    BY <1>4, <2>5, <2>6 DEF TabInv
<1>6. CASE /\ last' = [last EXCEPT ![Shader(t)] = Untouched]
           /\ UNCHANGED <<own, text>>
  <2>1. OwnerInv'
    BY <1>1, <1>3, <1>6 DEF IInv, TabInv, OwnerInv
  <2>2. \A x \in Shaders : last'[x] = last[x] \/ last'[x] = Untouched
    BY <1>6 DEF IInv, CallInv, TypeInv
  <2>3. \A i \in Index : Settled(i) => src_tab[i].sh \in Shaders
    BY DEF IInv, CallInv, TypeInv, TabInv, RecallInv
  <2>4. RecallInv'
    BY <1>1, <1>3, <1>6, <2>2, <2>3 DEF IInv, TabInv, RecallInv
  <2>5. QED
    BY <1>4, <2>1, <2>4 DEF TabInv
<1>7. QED
  BY <1>5, <1>6 DEF Prepass

----------------------------------------------------------------------------
(* VitaGL is done. *)

LEMMA LeaveCall ==
  ASSUME IInv, NEW t \in Threads, Leave(t)
  PROVE  /\ LockInv'
         /\ pc[t] = "VitaGL"
         /\ pc' = [pc EXCEPT ![t] = "idle"] /\ own' = [own EXCEPT ![t] = 0]
         /\ cell' = [cell EXCEPT ![t] = 0] /\ call' = [call EXCEPT ![t] = None]
         /\ gl_lock' \in Threads \cup {NoThread}
         /\ UNCHANGED <<src_tab_n, last>>
<1>1. /\ pc[t] = "VitaGL"
      /\ pc' = [pc EXCEPT ![t] = "idle"] /\ own' = [own EXCEPT ![t] = 0]
      /\ cell' = [cell EXCEPT ![t] = 0] /\ call' = [call EXCEPT ![t] = None]
      /\ gl_lock' = IF call[t].kind = "direct" THEN gl_lock ELSE NoThread
      /\ UNCHANGED <<src_tab_n, last>>
  BY DEF Leave, Return, UnlockedBy, Goto, At, None
<1>2. \A u \in Threads : u # t => InCall(u)' = InCall(u)
  BY <1>1 DEF IInv, CallInv, TypeInv, InCall
<1>3. ~InCall(t)' /\ pc'[t] = "idle"
  BY <1>1 DEF IInv, CallInv, TypeInv, InCall
<1>4. CASE call[t].kind = "direct"
  BY <1>1, <1>2, <1>3, <1>4 DEF IInv, CallInv, TypeInv, LockInv, InCall, At
<1>5. CASE call[t].kind # "direct"
  <2>1. \A u \in Threads : u # t => ~InCall(u)
    BY <1>1, <1>5, Alone DEF IInv, InCall
  <2>2. \A u \in Threads : ~InCall(u)' /\ gl_lock' # u
    BY <1>1, <1>2, <1>3, <1>5, <2>1, LockAssumption
  <2>3. QED
    BY <1>1, <2>2, LockAssumption DEF IInv, CallInv, TypeInv, LockInv, At
<1>6. QED
  BY <1>1, <1>4, <1>5

LEMMA LeaveInv ==
  ASSUME IInv, NEW t \in Threads, Leave(t)
  PROVE  IInv'
<1>1. /\ LockInv'
      /\ pc[t] = "VitaGL"
      /\ pc' = [pc EXCEPT ![t] = "idle"] /\ own' = [own EXCEPT ![t] = 0]
      /\ cell' = [cell EXCEPT ![t] = 0] /\ call' = [call EXCEPT ![t] = None]
      /\ gl_lock' \in Threads \cup {NoThread}
      /\ UNCHANGED <<src_tab_n, last>>
  BY LeaveCall
<1>2. /\ own'[t] = 0 /\ \A u \in Threads : u # t => own'[u] = own[u] /\ call'[u] = call[u]
                                                  /\ pc'[u] = pc[u] /\ cell'[u] = cell[u]
      /\ pc'[t] = "idle"
  BY <1>1 DEF IInv, CallInv, TypeInv
<1>3. None \in Records /\ 0 \in Index
  BY LockAssumption DEF Records, Index
<1>4. ASSUME text' \in [DOMAIN text' -> Sources], DOMAIN text' \subseteq Blocks,
             src_tab' \in [Index -> [sh : Shaders \cup {0}, src : Blocks \cup {0}]]
      PROVE  TypeInv'
  BY <1>1, <1>3, <1>4 DEF IInv, CallInv, TypeInv
<1>5. ASSUME \A u \in Threads : u # t /\ own[u] # 0 =>
                own[u] \in DOMAIN text' /\ text'[own[u]] = text[own[u]]
      PROVE  SourceInv'
  BY <1>2, <1>5, LockAssumption DEF IInv, CallInv, TypeInv, SourceInv
\* No cell is written that was not before.
<1>6. \A i \in Index : Settled(i)' <=>
         src_tab'[i].src # 0 /\ \A u \in Threads : At(u, "store") => cell[u] # i
  BY <1>1, <1>2 DEF Settled, At
<1>7. 0 \notin DOMAIN text
  BY LockAssumption DEF IInv, CallInv, TypeInv
<1>8. CASE call[t].kind # "source" /\ UNCHANGED <<src_tab, text>>
  <2>1. own[t] = 0
    BY <1>8 DEF IInv, CallInv, SourceInv
  <2>2. UNCHANGED own
    BY <1>1, <1>2, <2>1 DEF IInv, CallInv, TypeInv
  <2>3. TabInv'
    BY <1>1, <1>2, <1>8, <2>2, TabKept DEF IInv, At, Shader
  <2>4. SourceInv'
    BY <1>5, <1>8 DEF IInv, TabInv, OwnerInv
  <2>5. TypeInv'
    BY <1>4, <1>8 DEF IInv, CallInv, TypeInv
  <2>6. QED
    BY <1>1, <2>3, <2>4, <2>5 DEF IInv, CallInv
<1>9. ASSUME call[t].kind # "direct"
      PROVE  \A u \in Threads : ~At(u, "store") /\ (u # t => own[u] = 0)
  BY <1>1, <1>9, Alone DEF IInv, InCall, At
<1>10. CASE call[t].kind = "source" /\ text' = Without({own[t]}) /\ UNCHANGED src_tab
  <2>1. \A u \in Threads : ~At(u, "store") /\ own'[u] = 0 /\ (u # t => own[u] = 0)
    BY <1>2, <1>9, <1>10
  <2>2. /\ DOMAIN text' = DOMAIN text \ {own[t]}
        /\ \A x \in DOMAIN text \ {own[t]} : text'[x] = text[x]
        /\ text' \in [DOMAIN text' -> Sources]
    BY <1>10, WithoutFacts DEF IInv, CallInv, TypeInv
  <2>3. \A i \in Index : Settled(i)' <=> Settled(i)
    BY <1>6, <1>10 DEF Settled
  <2>4. \A i \in Index : Settled(i) => src_tab[i].src \in DOMAIN text \ {own[t]}
    BY DEF IInv, TabInv, OwnerInv
  <2>5. OwnerInv'
    <3>1. \A i \in Index : Settled(i)' => src_tab'[i].src \in DOMAIN text'
      BY <1>10, <2>2, <2>3, <2>4
    <3>2. ASSUME NEW x \in DOMAIN text'
          PROVE  \E i \in Index : Settled(i)' /\ src_tab'[i].src = x
      <4>1. x \in DOMAIN text /\ x # own[t] /\ x # 0
        BY <1>7, <2>2
      <4>2. \A u \in Threads : own[u] # x
        BY <2>1, <4>1
      <4>3. QED
        BY <1>10, <2>3, <4>1, <4>2 DEF IInv, TabInv, OwnerInv
    <3>3. \A i, j \in Index :
             Settled(i)' /\ Settled(j)' /\ src_tab'[i].src = src_tab'[j].src => i = j
      BY <1>10, <2>3 DEF IInv, TabInv, OwnerInv
    <3>4. \A i \in Index : Settled(i)' => src_tab'[i].src # 0
      BY <1>10, <2>3 DEF Settled
    <3>5. QED
      BY <2>1, <3>1, <3>2, <3>3, <3>4 DEF OwnerInv
  <2>6. RecallInv'
    BY <1>1, <1>10, <2>2, <2>3, <2>4 DEF IInv, TabInv, RecallInv
  <2>7. CellInv'
    BY <1>2, <1>10, <2>1 DEF IInv, TabInv, CellInv, At
  <2>8. SourceInv'
    BY <1>5, <2>1
  <2>9. TypeInv'
    BY <1>4, <1>10, <2>2 DEF IInv, CallInv, TypeInv
  <2>10. QED
    BY <1>1, <2>5, <2>6, <2>7, <2>8, <2>9 DEF IInv, CallInv, TabInv
<1>11. CASE /\ call[t].kind = "compile"
            /\ src_tab' = [i \in DOMAIN src_tab |-> IF i \in CellsOf(Shader(t)) THEN Empty ELSE src_tab[i]]
            /\ text' = Without({src_tab[i].src : i \in CellsOf(Shader(t))})
  <2> DEFINE C == CellsOf(Shader(t))
             S == {src_tab[i].src : i \in C}
  <2>1. own[t] = 0 /\ UNCHANGED own
    BY <1>1, <1>11 DEF IInv, CallInv, TypeInv, SourceInv
  <2>2. \A u \in Threads : ~At(u, "store") /\ own[u] = 0
    BY <1>9, <1>11, <2>1
  <2>3. C \subseteq Index
    BY DEF CellsOf, IInv, CallInv, TypeInv
  <2>4. /\ \A i \in Index : src_tab'[i] = IF i \in C THEN Empty ELSE src_tab[i]
        /\ src_tab' \in [Index -> [sh : Shaders \cup {0}, src : Blocks \cup {0}]]
    BY <1>11 DEF IInv, CallInv, TypeInv, Empty
  <2>5. /\ DOMAIN text' = DOMAIN text \ S
        /\ \A x \in DOMAIN text \ S : text'[x] = text[x]
        /\ text' \in [DOMAIN text' -> Sources]
    BY <1>11, WithoutFacts DEF IInv, CallInv, TypeInv
  <2>6. /\ \A i \in Index : Settled(i) <=> src_tab[i].src # 0
        /\ \A i \in Index : Settled(i)' <=> Settled(i) /\ i \notin C
    BY <1>6, <2>2, <2>4 DEF Settled, Empty
  <2>7. \A i \in Index : Settled(i) /\ i \notin C => src_tab[i].src \notin S
    <3>1. SUFFICES ASSUME NEW i \in Index, Settled(i), NEW j \in C, src_tab[i].src = src_tab[j].src
                   PROVE  i = j
      OBVIOUS
    <3>2. Settled(j) /\ j \in Index
      BY <2>3, <2>6, <3>1
    <3>3. QED
      BY <3>1, <3>2 DEF IInv, TabInv, OwnerInv
  <2> HIDE DEF C, S
  <2>8. \A i \in Index : Settled(i) => src_tab[i].src \in DOMAIN text
    BY DEF IInv, TabInv, OwnerInv
  <2>9. OwnerInv'
    <3>1. \A i \in Index : Settled(i)' => src_tab'[i].src \in DOMAIN text'
      BY <2>4, <2>5, <2>6, <2>7, <2>8
    <3>2. ASSUME NEW x \in DOMAIN text'
          PROVE  \E i \in Index : Settled(i)' /\ src_tab'[i].src = x
      <4>1. x \in DOMAIN text /\ x \notin S /\ x # 0
        BY <1>7, <2>5
      <4>2. PICK i \in Index : Settled(i) /\ src_tab[i].src = x
        BY <2>2, <4>1 DEF IInv, TabInv, OwnerInv
      <4>3. i \notin C
        BY <4>1, <4>2 DEF S
      <4>4. QED
        BY <2>4, <2>6, <4>2, <4>3
    <3>3. \A i, j \in Index :
             Settled(i)' /\ Settled(j)' /\ src_tab'[i].src = src_tab'[j].src => i = j
      BY <2>4, <2>6 DEF IInv, TabInv, OwnerInv
    <3>4. \A i \in Index : Settled(i)' => src_tab'[i].src # 0
      BY <2>4, <2>6
    <3>5. QED
      BY <2>1, <2>2, <3>1, <3>2, <3>3, <3>4 DEF OwnerInv
  <2>10. RecallInv'
    BY <1>1, <2>4, <2>5, <2>6, <2>7, <2>8 DEF IInv, TabInv, RecallInv
  <2>11. CellInv'
    <3>1. \A i, j \in Index : src_tab'[i].sh = src_tab'[j].sh /\ src_tab'[i].sh # 0 => i = j
      BY <2>4 DEF IInv, TabInv, CellInv, Empty
    <3>2. \A u \in Threads : ~At(u, "store")'
      BY <1>2, <2>2 DEF At
    <3>3. QED
      BY <3>1, <3>2 DEF CellInv
  <2>12. SourceInv'
    BY <1>5, <2>2
  <2>13. TypeInv'
    BY <1>4, <2>4, <2>5 DEF IInv, CallInv, TypeInv
  <2>14. QED
    BY <1>1, <2>9, <2>10, <2>11, <2>12, <2>13 DEF IInv, CallInv, TabInv
<1>12. QED
  BY <1>8, <1>10, <1>11 DEF Leave, Return

----------------------------------------------------------------------------

LEMMA NextInv == IInv /\ [Next]_vars => IInv'
<1> SUFFICES ASSUME IInv, [Next]_vars PROVE IInv'
  OBVIOUS
<1>1. ASSUME NEW t \in Threads, Call(t) \/ Lock(t) \/ Prepass(t) PROVE IInv'
  <2>1. CallInv'
    BY <1>1, CallCall, LockCall, PrepassCall DEF IInv, TabInv
  <2>2. TabInv'
    BY <1>1, CallTab, LockTab, PrepassTab
  <2>3. QED
    BY <2>1, <2>2 DEF IInv
<1>2. ASSUME NEW t \in Threads, Remember(t) \/ Store(t) \/ Leave(t) PROVE IInv'
  BY <1>2, RememberInv, StoreInv, LeaveInv
<1>3. CASE UNCHANGED vars
  BY <1>3 DEF vars, IInv, CallInv, TabInv, TypeInv, LockInv, SourceInv, CellInv, OwnerInv,
     RecallInv, Settled, InCall, At, Shader
<1>4. QED
  BY <1>1, <1>2, <1>3 DEF Next, Working

LEMMA InvKept == IInv => SourcesKept
<1> SUFFICES ASSUME IInv PROVE SourcesKept
  OBVIOUS
<1>1. DOMAIN src_tab = Index
  BY DEF IInv, CallInv, TypeInv
<1>2. TypeOK
  BY <1>1 DEF IInv, CallInv, TypeInv, TabInv, CellInv, TypeOK
<1>3. WrappedSerialized
  BY DEF IInv, CallInv, LockInv, WrappedSerialized
<1>4. \A i \in Index : Settled(i) <=> i \notin Storing /\ src_tab[i].src # 0
  BY DEF Settled, Storing
<1>5. SourcesOwned
  <2> DEFINE settled == {i \in DOMAIN src_tab \ Storing : src_tab[i].src # 0}
  <2>1. \A i : i \in settled <=> i \in Index /\ Settled(i)
    BY <1>1, <1>4
  <2>2. 0 \notin DOMAIN text
    BY LockAssumption DEF IInv, CallInv, TypeInv
  <2> HIDE DEF settled
  <2>3. DOMAIN text = {src_tab[i].src : i \in settled} \cup ({own[t] : t \in Threads} \ {0})
    <3>1. ASSUME NEW b \in DOMAIN text
          PROVE  b \in {src_tab[i].src : i \in settled} \cup ({own[t] : t \in Threads} \ {0})
      <4>1. \/ \E i \in Index : Settled(i) /\ src_tab[i].src = b
            \/ \E t \in Threads : own[t] = b
        BY DEF IInv, TabInv, OwnerInv
      <4>2. QED
        BY <2>1, <2>2, <4>1
    <3>2. \A i \in settled : src_tab[i].src \in DOMAIN text
      BY <2>1 DEF IInv, TabInv, OwnerInv
    <3>3. \A t \in Threads : own[t] # 0 => own[t] \in DOMAIN text
      BY DEF IInv, TabInv, OwnerInv
    <3>4. QED
      BY <3>1, <3>2, <3>3
  <2>4. \A i, j \in settled : src_tab[i].src = src_tab[j].src => i = j
    BY <2>1 DEF IInv, TabInv, OwnerInv
  <2>5. QED
    BY <2>3, <2>4 DEF SourcesOwned, settled
<1>6. RecallLast
  BY <1>1, <1>4 DEF IInv, TabInv, RecallInv, RecallLast, CellsOf
<1>7. QED
  BY <1>2, <1>3, <1>5, <1>6 DEF SourcesKept

(* Wrapped calls exclude each other, whichever names and shaders the threads
   call with and whatever memory is left; every allocated source has one owner,
   and what is kept for a shader is what it was last given (gl_lock.c:1-3,
   default_dynlib.c:55-155). *)
THEOREM Kept == Spec => []SourcesKept
  BY InitInv, NextInv, InvKept, PTL DEF Spec

----------------------------------------------------------------------------
(* The attachment caches.  What a cache has is what VitaGL has, so what is *)
(* skipped would change nothing: for renderbuffers, whose entries go with  *)
(* them, and for textures while their first incarnation lives.  What       *)
(* VitaGL has is also what the cache has, unless there was no room for it. *)

CacheTypes ==
    /\ Cache!TypeOK
    /\ \A at \in {texAt, rbAt, texAsked, rbAsked} : at \in [Cache!Keys -> Cache!Attachment]
    /\ \A cache \in {texCache, rbCache} :
         cache = [key \in DOMAIN cache |-> cache[key]] /\ IsFiniteSet(DOMAIN cache)
    /\ bound # 0 => cur_fbo = bound
    /\ \A n \in alive : births[n] >= 1

RbCached ==
    \A key \in DOMAIN rbCache, rb \in Rbs :
        rbCache[key] = <<rb, 0>> => rb \in alive /\ rbAt[key] = <<<<rb, births[rb]>>, 0>>
RbInv == RbCached /\ Cache!RbAttached

TexCached ==
    \A key \in DOMAIN texCache, tex \in Textures, l \in Levels :
        texCache[key] = <<tex, l>> =>
            /\ births[tex] >= 1
            /\ tex \in alive /\ births[tex] = 1 => texAt[key] = <<<<tex, 1>>, l>>
TexInv == TexCached /\ Cache!FirstTextureAttached

TexKnown ==
    \A key \in Cache!Keys, tex \in Textures, l \in Levels :
        texAt[key] # <<>> /\ texAt[key][1][1] = tex /\ texAt[key][2] = l =>
            IF key \in DOMAIN texCache
            THEN texCache[key] = <<tex, l>>
            ELSE Cardinality(DOMAIN texCache) >= CacheSize
LeakInv == TexKnown /\ Cache!NoLeak

CacheInv == CacheTypes /\ RbInv /\ TexInv /\ LeakInv

LEMMA CacheCard == \A S : Cache!Cardinality(S) = Cardinality(S)
  BY DEF Cache!Cardinality, Cardinality

LEMMA PutFacts ==
  ASSUME NEW cache, cache = [j \in DOMAIN cache |-> cache[j]], IsFiniteSet(DOMAIN cache),
         Cardinality(DOMAIN cache) <= CacheSize, NEW key, NEW obj,
         NEW new, new = Cache!Put(cache, key, obj)
  PROVE  /\ new = [j \in DOMAIN new |-> new[j]] /\ IsFiniteSet(DOMAIN new)
         /\ DOMAIN cache \subseteq DOMAIN new /\ DOMAIN new \subseteq DOMAIN cache \cup {key}
         /\ Cardinality(DOMAIN cache) <= Cardinality(DOMAIN new)
         /\ Cardinality(DOMAIN new) <= CacheSize
         /\ IF key \in DOMAIN new
            THEN new[key] = obj
            ELSE Cardinality(DOMAIN new) >= CacheSize
         /\ \A j \in DOMAIN new : j # key => new[j] = cache[j]
<1>1. CacheSize \in Nat /\ Cardinality(DOMAIN cache) \in Nat
  BY CacheAssumption, FS_CardinalityType DEF Cache!CacheAssumption
<1>2. CASE key \in DOMAIN cache \/ Cardinality(DOMAIN cache) < CacheSize
  <2>1. new = [j \in DOMAIN cache \cup {key} |-> IF j = key THEN obj ELSE cache[j]]
    BY <1>2, CacheCard DEF Cache!Put
  <2>2. /\ IsFiniteSet(DOMAIN cache \cup {key})
        /\ Cardinality(DOMAIN cache \cup {key}) =
             IF key \in DOMAIN cache THEN Cardinality(DOMAIN cache) ELSE Cardinality(DOMAIN cache) + 1
    BY FS_AddElement
  <2>3. DOMAIN new = DOMAIN cache \cup {key}
    BY <2>1
  <2>4. /\ Cardinality(DOMAIN cache) <= Cardinality(DOMAIN new)
        /\ Cardinality(DOMAIN new) <= CacheSize
    BY <1>1, <1>2, <2>2, <2>3
  <2>5. QED
    BY <2>1, <2>2, <2>3, <2>4
<1>3. CASE ~(key \in DOMAIN cache \/ Cardinality(DOMAIN cache) < CacheSize)
  <2>1. new = cache
    BY <1>3, CacheCard DEF Cache!Put
  <2>2. QED
    BY <1>1, <1>3, <2>1
<1>4. QED
  BY <1>2, <1>3

LEMMA ForgetFacts ==
  ASSUME NEW cache, NEW stale, NEW new, new = Cache!Forget(cache, stale)
  PROVE  /\ new = [j \in DOMAIN new |-> new[j]] /\ DOMAIN new = DOMAIN cache
         /\ \A j \in DOMAIN new : new[j] = IF j \in stale THEN <<0, 0>> ELSE cache[j]
  BY DEF Cache!Forget, Cache!Invalid

LEMMA WithoutKeys ==
  ASSUME NEW at \in [Cache!Keys -> Cache!Attachment], NEW cleared,
         NEW new, new = Cache!Without(at, cleared)
  PROVE  /\ new \in [Cache!Keys -> Cache!Attachment]
         /\ \A key \in Cache!Keys : new[key] = IF key \in cleared THEN <<>> ELSE at[key]
  BY DEF Cache!Without, Cache!Nothing, Cache!Attachment

LEMMA Names ==
  /\ \A rb \in Rbs : rb \notin Textures \cup Fbos /\ rb # 0
  /\ \A tex \in Textures : tex \notin Rbs \cup Fbos /\ tex # 0
  /\ \A fbo \in Fbos : fbo \notin Rbs \cup Textures /\ fbo # 0
  BY CacheAssumption DEF Cache!CacheAssumption

LEMMA CacheStart == Cache!Init => CacheInv
<1> SUFFICES ASSUME Cache!Init PROVE CacheInv
  OBVIOUS
<1>1. DOMAIN texCache = {} /\ DOMAIN rbCache = {}
  BY DEF Cache!Init
<1>2. Cardinality({}) = 0 /\ IsFiniteSet({})
  BY FS_EmptySet
<1>3. \A at \in {texAt, rbAt, texAsked, rbAsked} : at = [key \in Cache!Keys |-> <<>>]
  BY DEF Cache!Init, Cache!Nothing
<1>4. \A at \in {texAt, rbAt, texAsked, rbAsked} : at \in [Cache!Keys -> Cache!Attachment]
  BY <1>3 DEF Cache!Attachment, Cache!Nothing
<1>5. births \in [Cache!Names -> 0..MaxBirths]
  BY CacheAssumption DEF Cache!Init, Cache!CacheAssumption
<1>6. CacheSize >= 0
  BY CacheAssumption DEF Cache!CacheAssumption
<1>7. Cache!TypeOK
  BY <1>1, <1>2, <1>4, <1>5, <1>6, CacheCard DEF Cache!Init, Cache!TypeOK, Cache!Screen
<1>8. \A cache \in {texCache, rbCache} : cache = [key \in DOMAIN cache |-> cache[key]]
  BY DEF Cache!Init
<1>9. CacheTypes
  BY <1>1, <1>2, <1>4, <1>7, <1>8 DEF CacheTypes, Cache!Init, Cache!Screen
<1>10. RbInv /\ TexInv /\ LeakInv
  BY <1>1, <1>3
  DEF RbInv, RbCached, Cache!RbAttached, TexInv, TexCached, Cache!FirstTextureAttached,
      LeakInv, TexKnown, Cache!NoLeak, Cache!Nothing
<1>11. QED
  BY <1>9, <1>10 DEF CacheInv

\* What each entry does to the types.
LEMMA GenTypes ==
  ASSUME CacheTypes, NEW n \in Cache!Names, Cache!Gen(n)
  PROVE  CacheTypes'
<1>1. births \in [Cache!Names -> 0..MaxBirths] /\ births[n] < MaxBirths
  BY DEF CacheTypes, Cache!TypeOK, Cache!Gen
<1>2. births' \in [Cache!Names -> 0..MaxBirths] /\ births'[n] = births[n] + 1
  BY <1>1, CacheAssumption DEF Cache!Gen, Cache!CacheAssumption
<1>3. \A m \in alive' : births'[m] >= 1
  BY <1>1, <1>2 DEF CacheTypes, Cache!TypeOK, Cache!Gen
<1>4. QED
  BY <1>2, <1>3 DEF CacheTypes, Cache!TypeOK, Cache!Gen, Cache!game

LEMMA BindTypes ==
  ASSUME CacheTypes, NEW f \in Fbos \cup {0}, Cache!glBindFramebuffer(f)
  PROVE  CacheTypes'
  BY DEF CacheTypes, Cache!TypeOK, Cache!glBindFramebuffer, Cache!game, Cache!Screen

LEMMA FboTypes ==
  ASSUME CacheTypes, NEW f \in Fbos, Cache!glDeleteFramebuffers(f)
  PROVE  CacheTypes'
<1>1. \A at \in {texAt', rbAt', texAsked', rbAsked'} : at \in [Cache!Keys -> Cache!Attachment]
  BY WithoutKeys DEF CacheTypes, Cache!glDeleteFramebuffers, Cache!DeleteFramebufferForgetting
<1>2. \A key \in DOMAIN texCache' : texCache'[key] \in {texCache[key], <<0, 0>>}
  BY ForgetFacts DEF Cache!glDeleteFramebuffers, Cache!DeleteFramebufferForgetting
<1>3. \A key \in DOMAIN rbCache' : rbCache'[key] \in {rbCache[key], <<0, 0>>}
  BY ForgetFacts DEF Cache!glDeleteFramebuffers, Cache!DeleteFramebufferForgetting
<1>4. /\ texCache' = [key \in DOMAIN texCache' |-> texCache'[key]] /\ DOMAIN texCache' = DOMAIN texCache
      /\ rbCache' = [key \in DOMAIN rbCache' |-> rbCache'[key]] /\ DOMAIN rbCache' = DOMAIN rbCache
  BY ForgetFacts DEF Cache!glDeleteFramebuffers, Cache!DeleteFramebufferForgetting
<1>5. surfaces' \in [Cache!Keys -> 0..2]
  BY DEF CacheTypes, Cache!TypeOK, Cache!glDeleteFramebuffers, Cache!DeleteFramebufferForgetting
<1>6. births' = births /\ alive' \subseteq alive /\ cur_fbo' = cur_fbo
  BY DEF Cache!glDeleteFramebuffers, Cache!DeleteFramebufferForgetting
<1>7. bound' \in (Fbos \cap alive') \cup {0} /\ (bound' # 0 => cur_fbo' = bound')
  BY DEF CacheTypes, Cache!TypeOK, Cache!Screen, Cache!glDeleteFramebuffers, Cache!DeleteFramebufferForgetting
<1>8. Cache!TypeOK'
  BY <1>1, <1>2, <1>3, <1>4, <1>5, <1>6, <1>7
  DEF CacheTypes, Cache!TypeOK, Cache!Screen, Cache!Invalid
<1>9. QED
  BY <1>1, <1>4, <1>6, <1>7, <1>8 DEF CacheTypes

LEMMA RbTypes ==
  ASSUME CacheTypes, NEW r \in Rbs, Cache!glDeleteRenderbuffers(r)
  PROVE  CacheTypes'
<1>1. \A at \in {texAt', rbAt', texAsked', rbAsked'} : at \in [Cache!Keys -> Cache!Attachment]
  BY WithoutKeys DEF CacheTypes, Cache!glDeleteRenderbuffers, Cache!DeleteRenderbufferForgetting
<1>2. \A key \in DOMAIN rbCache' : rbCache'[key] \in {rbCache[key], <<0, 0>>}
  BY ForgetFacts DEF Cache!glDeleteRenderbuffers, Cache!DeleteRenderbufferForgetting
<1>3. rbCache' = [key \in DOMAIN rbCache' |-> rbCache'[key]] /\ DOMAIN rbCache' = DOMAIN rbCache
  BY ForgetFacts DEF Cache!glDeleteRenderbuffers, Cache!DeleteRenderbufferForgetting
<1>4. bound' \in (Fbos \cap alive') \cup {0}
  BY Names DEF CacheTypes, Cache!TypeOK, Cache!Screen, Cache!glDeleteRenderbuffers, Cache!DeleteRenderbufferForgetting
<1>5. births' = births /\ alive' \subseteq alive /\ cur_fbo' = cur_fbo /\ bound' = bound
      /\ surfaces' = surfaces /\ texCache' = texCache
  BY DEF Cache!glDeleteRenderbuffers, Cache!DeleteRenderbufferForgetting
<1>6. Cache!TypeOK'
  BY <1>1, <1>2, <1>3, <1>4, <1>5
  DEF CacheTypes, Cache!TypeOK, Cache!Screen, Cache!Invalid
<1>7. QED
  BY <1>1, <1>3, <1>5, <1>6 DEF CacheTypes

LEMMA TexTypes ==
  ASSUME CacheTypes, NEW x \in Textures, Cache!glDeleteTextures(x)
  PROVE  CacheTypes'
<1>1. \A at \in {texAt', rbAt', texAsked', rbAsked'} : at \in [Cache!Keys -> Cache!Attachment]
  BY WithoutKeys DEF CacheTypes, Cache!glDeleteTextures
<1>2. bound' \in (Fbos \cap alive') \cup {0}
  BY Names DEF CacheTypes, Cache!TypeOK, Cache!Screen, Cache!glDeleteTextures
<1>3. births' = births /\ alive' \subseteq alive /\ cur_fbo' = cur_fbo /\ bound' = bound
      /\ surfaces' = surfaces /\ texCache' = texCache /\ rbCache' = rbCache
  BY DEF Cache!glDeleteTextures
<1>4. Cache!TypeOK'
  BY <1>1, <1>2, <1>3
  DEF CacheTypes, Cache!TypeOK, Cache!Screen, Cache!Invalid
<1>5. QED
  BY <1>1, <1>3, <1>4 DEF CacheTypes

\* What is attached is attached to the framebuffer bound, and known under it.
LEMMA Here ==
  ASSUME CacheTypes, NEW p \in Points, bound # 0
  PROVE  <<cur_fbo, p>> = <<bound, p>> /\ <<bound, p>> \in Cache!Keys
  BY DEF CacheTypes, Cache!TypeOK, Cache!Screen, Cache!Keys

LEMMA ObjectType ==
  ASSUME CacheTypes, NEW n \in Textures \cup Rbs, NEW l \in Levels
  PROVE  <<Cache!Object(n), l>> \in Cache!Attachment /\ Cache!Object(n) = <<n, births[n]>>
<1>1. births[n] \in 0..MaxBirths
  BY DEF CacheTypes, Cache!TypeOK, Cache!Names
<1>2. QED
  BY <1>1 DEF Cache!Attachment, Cache!Object

LEMMA RbAttachTypes ==
  ASSUME CacheTypes, NEW p \in Points, NEW r \in Rbs, Cache!glFramebufferRenderbuffer(p, r)
  PROVE  CacheTypes'
<1>1. bound # 0 /\ <<cur_fbo, p>> = <<bound, p>> /\ <<bound, p>> \in Cache!Keys
  BY Here DEF Cache!glFramebufferRenderbuffer, Cache!Screen
<1>2. <<Cache!Object(r), 0>> \in Cache!Attachment
  BY ObjectType, CacheAssumption DEF Cache!CacheAssumption
<1>3. \A at \in {texAt', rbAt', texAsked', rbAsked'} : at \in [Cache!Keys -> Cache!Attachment]
  BY <1>1, <1>2 DEF CacheTypes, Cache!glFramebufferRenderbuffer
<1>4. /\ rbCache' = [key \in DOMAIN rbCache' |-> rbCache'[key]] /\ IsFiniteSet(DOMAIN rbCache')
      /\ Cardinality(DOMAIN rbCache') <= CacheSize /\ DOMAIN rbCache' \subseteq Cache!Keys
      /\ \A key \in DOMAIN rbCache' : rbCache'[key] \in (Rbs \X {0}) \cup {<<0, 0>>}
  <2>1. /\ rbCache = [key \in DOMAIN rbCache |-> rbCache[key]] /\ IsFiniteSet(DOMAIN rbCache)
        /\ Cardinality(DOMAIN rbCache) <= CacheSize /\ DOMAIN rbCache \subseteq Cache!Keys
        /\ \A key \in DOMAIN rbCache : rbCache[key] \in (Rbs \X {0}) \cup {<<0, 0>>}
    BY CacheCard DEF CacheTypes, Cache!TypeOK, Cache!Invalid
  <2>2. CASE rbCache' = rbCache
    BY <2>1, <2>2
  <2>3. CASE rbCache' = Cache!Put(rbCache, <<cur_fbo, p>>, <<r, 0>>)
    <3>1. /\ rbCache' = [key \in DOMAIN rbCache' |-> rbCache'[key]] /\ IsFiniteSet(DOMAIN rbCache')
          /\ Cardinality(DOMAIN rbCache') <= CacheSize
          /\ DOMAIN rbCache' \subseteq DOMAIN rbCache \cup {<<cur_fbo, p>>}
          /\ <<cur_fbo, p>> \in DOMAIN rbCache' => rbCache'[<<cur_fbo, p>>] = <<r, 0>>
          /\ \A key \in DOMAIN rbCache' : key # <<cur_fbo, p>> => rbCache'[key] = rbCache[key]
      BY <2>1, <2>3, PutFacts
    <3>2. QED
      BY <1>1, <2>1, <3>1
  <2>4. QED
    BY <2>2, <2>3 DEF Cache!glFramebufferRenderbuffer
<1>5. births' = births /\ alive' = alive /\ cur_fbo' = cur_fbo /\ bound' = bound
      /\ surfaces' = surfaces /\ texCache' = texCache
  BY DEF Cache!glFramebufferRenderbuffer
<1>6. Cache!TypeOK'
  BY <1>3, <1>4, <1>5, CacheCard
  DEF CacheTypes, Cache!TypeOK, Cache!Screen, Cache!Invalid
<1>7. QED
  BY <1>3, <1>4, <1>5, <1>6 DEF CacheTypes

LEMMA TexAttachTypes ==
  ASSUME CacheTypes, NEW p \in Points, NEW x \in Textures, NEW l \in Levels,
         Cache!glFramebufferTexture2D(p, x, l)
  PROVE  CacheTypes'
<1>1. bound # 0 /\ <<cur_fbo, p>> = <<bound, p>> /\ <<bound, p>> \in Cache!Keys
  BY Here DEF Cache!glFramebufferTexture2D, Cache!TextureSkippedIf, Cache!Screen
<1>2. <<Cache!Object(x), l>> \in Cache!Attachment
  BY ObjectType
<1>3. \A at \in {texAt', rbAt', texAsked', rbAsked'} : at \in [Cache!Keys -> Cache!Attachment]
  BY <1>1, <1>2 DEF CacheTypes, Cache!glFramebufferTexture2D, Cache!TextureSkippedIf
<1>4. /\ texCache' = [key \in DOMAIN texCache' |-> texCache'[key]] /\ IsFiniteSet(DOMAIN texCache')
      /\ Cardinality(DOMAIN texCache') <= CacheSize /\ DOMAIN texCache' \subseteq Cache!Keys
      /\ \A key \in DOMAIN texCache' : texCache'[key] \in (Textures \X Levels) \cup {<<0, 0>>}
  <2>1. /\ texCache = [key \in DOMAIN texCache |-> texCache[key]] /\ IsFiniteSet(DOMAIN texCache)
        /\ Cardinality(DOMAIN texCache) <= CacheSize /\ DOMAIN texCache \subseteq Cache!Keys
        /\ \A key \in DOMAIN texCache : texCache[key] \in (Textures \X Levels) \cup {<<0, 0>>}
    BY CacheCard DEF CacheTypes, Cache!TypeOK, Cache!Invalid
  <2>2. CASE texCache' = texCache
    BY <2>1, <2>2
  <2>3. CASE texCache' = Cache!Put(texCache, <<cur_fbo, p>>, <<x, l>>)
    <3>1. /\ texCache' = [key \in DOMAIN texCache' |-> texCache'[key]]
          /\ IsFiniteSet(DOMAIN texCache')
          /\ Cardinality(DOMAIN texCache') <= CacheSize
          /\ DOMAIN texCache' \subseteq DOMAIN texCache \cup {<<cur_fbo, p>>}
          /\ <<cur_fbo, p>> \in DOMAIN texCache' => texCache'[<<cur_fbo, p>>] = <<x, l>>
          /\ \A key \in DOMAIN texCache' : key # <<cur_fbo, p>> => texCache'[key] = texCache[key]
      BY <2>1, <2>3, PutFacts
    <3>2. QED
      BY <1>1, <2>1, <3>1
  <2>4. QED
    BY <2>2, <2>3 DEF Cache!glFramebufferTexture2D, Cache!TextureSkippedIf
<1>5. births' = births /\ alive' = alive /\ cur_fbo' = cur_fbo /\ bound' = bound
      /\ rbCache' = rbCache
  BY DEF Cache!glFramebufferTexture2D, Cache!TextureSkippedIf
<1>6. surfaces' \in [Cache!Keys -> 0..2]
  <2>1. surfaces \in [Cache!Keys -> 0..2]
    BY DEF CacheTypes, Cache!TypeOK
  <2>2. surfaces' = surfaces \/ \E n \in 1..2 : surfaces' = [surfaces EXCEPT ![<<bound, p>>] = n]
    BY DEF Cache!glFramebufferTexture2D, Cache!TextureSkippedIf
  <2>3. QED
    BY <2>1, <2>2
<1>7. Cache!TypeOK'
  BY <1>3, <1>4, <1>5, <1>6, CacheCard
  DEF CacheTypes, Cache!TypeOK, Cache!Screen, Cache!Invalid
<1>8. QED
  BY <1>3, <1>4, <1>5, <1>7 DEF CacheTypes

\* Renderbuffers.
LEMMA RbAttachInv ==
  ASSUME CacheTypes, RbInv, NEW p \in Points, NEW r \in Rbs, Cache!glFramebufferRenderbuffer(p, r)
  PROVE  RbInv'
<1>1. PICK here \in Cache!Keys : here = <<bound, p>> /\ here = <<cur_fbo, p>>
  BY Here DEF Cache!glFramebufferRenderbuffer, Cache!Screen
<1>2. PICK obj : obj = <<<<r, births[r]>>, 0>>
  OBVIOUS
<1>3. /\ rbAsked' = [rbAsked EXCEPT ![here] = obj]
      /\ r \in alive /\ alive' = alive /\ births' = births
      /\ IF here \in DOMAIN rbCache /\ rbCache[here] = <<r, 0>>
         THEN rbCache' = rbCache /\ rbAt' = rbAt
         ELSE /\ rbCache' = Cache!Put(rbCache, here, <<r, 0>>)
              /\ rbAt' = [rbAt EXCEPT ![here] = obj]
  BY <1>1, <1>2 DEF Cache!glFramebufferRenderbuffer, Cache!Object, Cache!Cached
<1>4. rbAt' \in [Cache!Keys -> Cache!Attachment] /\ rbAsked' \in [Cache!Keys -> Cache!Attachment]
      /\ rbAt \in [Cache!Keys -> Cache!Attachment] /\ rbAsked \in [Cache!Keys -> Cache!Attachment]
  BY RbAttachTypes DEF CacheTypes
<1>5. rbAt'[here] = obj /\ rbAsked'[here] = obj
  BY <1>2, <1>3, <1>4 DEF RbInv, RbCached
<1>6. \A key \in Cache!Keys : key # here => rbAt'[key] = rbAt[key] /\ rbAsked'[key] = rbAsked[key]
  BY <1>3, <1>4
<1>7. Cache!RbAttached'
  BY <1>5, <1>6 DEF RbInv, Cache!RbAttached
<1>8. \A key \in DOMAIN rbCache' :
        IF key = here THEN rbCache'[key] = <<r, 0>> ELSE key \in DOMAIN rbCache /\ rbCache'[key] = rbCache[key]
  <2>1. CASE here \in DOMAIN rbCache /\ rbCache[here] = <<r, 0>>
    BY <1>3, <2>1
  <2>2. CASE ~(here \in DOMAIN rbCache /\ rbCache[here] = <<r, 0>>)
    <3>1. rbCache' = Cache!Put(rbCache, here, <<r, 0>>)
      BY <1>3, <2>2
    <3>2. /\ rbCache = [key \in DOMAIN rbCache |-> rbCache[key]] /\ IsFiniteSet(DOMAIN rbCache)
          /\ Cardinality(DOMAIN rbCache) <= CacheSize
      BY CacheCard DEF CacheTypes, Cache!TypeOK
    <3>3. /\ DOMAIN rbCache' \subseteq DOMAIN rbCache \cup {here}
          /\ here \in DOMAIN rbCache' => rbCache'[here] = <<r, 0>>
          /\ \A key \in DOMAIN rbCache' : key # here => rbCache'[key] = rbCache[key]
      BY <3>1, <3>2, PutFacts
    <3>4. QED
      BY <3>3
  <2>3. QED
    BY <2>1, <2>2
<1>9. DOMAIN rbCache' \subseteq Cache!Keys
  BY RbAttachTypes DEF CacheTypes, Cache!TypeOK
<1>10. RbCached'
  <2>1. SUFFICES ASSUME NEW key \in DOMAIN rbCache', NEW rb \in Rbs, rbCache'[key] = <<rb, 0>>
                 PROVE  rb \in alive' /\ rbAt'[key] = <<<<rb, births'[rb]>>, 0>>
    BY DEF RbCached
  <2>2. CASE key = here
    BY <1>2, <1>3, <1>5, <1>8, <2>1, <2>2
  <2>3. CASE key # here
    BY <1>3, <1>6, <1>8, <1>9, <2>1, <2>3 DEF RbInv, RbCached
  <2>4. QED
    BY <2>2, <2>3
<1>11. QED
  BY <1>7, <1>10 DEF RbInv

LEMMA RbDeleteInv ==
  ASSUME CacheTypes, RbInv, NEW r \in Rbs, Cache!glDeleteRenderbuffers(r)
  PROVE  RbInv'
<1>1. rbAt \in [Cache!Keys -> Cache!Attachment] /\ rbAsked \in [Cache!Keys -> Cache!Attachment]
      /\ DOMAIN rbCache \subseteq Cache!Keys
  BY DEF CacheTypes, Cache!TypeOK
<1>2. \A key \in Cache!Keys :
        rbAsked'[key] = IF rbAsked[key] # <<>> /\ rbAsked[key][1] = <<r, births[r]>> THEN <<>> ELSE rbAsked[key]
  BY <1>1, WithoutKeys
  DEF Cache!glDeleteRenderbuffers, Cache!DeleteRenderbufferForgetting, Cache!KeysWith, Cache!Object,
      Cache!Nothing
<1>3. \A key \in Cache!Keys :
        rbAt'[key] = rbAt[key] \/ (rbAt[key] # <<>> /\ rbAt[key][1] = <<r, births[r]>>)
  BY <1>1, WithoutKeys
  DEF Cache!glDeleteRenderbuffers, Cache!DeleteRenderbufferForgetting, Cache!KeysWith, Cache!Object,
      Cache!Nothing
<1>4. Cache!RbAttached'
  BY <1>2, <1>3 DEF RbInv, Cache!RbAttached, Cache!Nothing
<1>5. /\ DOMAIN rbCache' = DOMAIN rbCache
      /\ \A key \in DOMAIN rbCache' :
           rbCache'[key] = IF rbCache[key] = <<r, 0>> THEN <<0, 0>> ELSE rbCache[key]
  BY ForgetFacts DEF Cache!glDeleteRenderbuffers, Cache!DeleteRenderbufferForgetting
<1>6. alive' = alive \ {r} /\ births' = births
  BY DEF Cache!glDeleteRenderbuffers, Cache!DeleteRenderbufferForgetting
<1>7. RbCached'
  <2>1. SUFFICES ASSUME NEW key \in DOMAIN rbCache', NEW rb \in Rbs, rbCache'[key] = <<rb, 0>>
                 PROVE  rb \in alive' /\ rbAt'[key] = <<<<rb, births'[rb]>>, 0>>
    BY DEF RbCached
  <2>2. rb # r /\ rbCache[key] = <<rb, 0>>
    BY <1>5, <2>1, Names
  <2>3. rb \in alive /\ rbAt[key] = <<<<rb, births[rb]>>, 0>>
    BY <1>5, <2>2 DEF RbInv, RbCached
  <2>4. rbAt'[key] = rbAt[key]
    BY <1>1, <1>3, <1>5, <2>2, <2>3
  <2>5. QED
    BY <1>6, <2>2, <2>3, <2>4
<1>8. QED
  BY <1>4, <1>7 DEF RbInv

LEMMA RbFboInv ==
  ASSUME CacheTypes, RbInv, NEW f \in Fbos, Cache!glDeleteFramebuffers(f)
  PROVE  RbInv'
<1>1. rbAt \in [Cache!Keys -> Cache!Attachment] /\ rbAsked \in [Cache!Keys -> Cache!Attachment]
      /\ DOMAIN rbCache \subseteq Cache!Keys
  BY DEF CacheTypes, Cache!TypeOK
<1>2. \A key \in Cache!Keys :
        /\ rbAsked'[key] = IF key \in Cache!KeysOf(f) THEN <<>> ELSE rbAsked[key]
        /\ rbAt'[key] = IF key \in Cache!KeysOf(f) THEN <<>> ELSE rbAt[key]
  BY <1>1, WithoutKeys DEF Cache!glDeleteFramebuffers, Cache!DeleteFramebufferForgetting
<1>3. Cache!RbAttached'
  BY <1>2 DEF RbInv, Cache!RbAttached, Cache!Nothing
<1>4. /\ DOMAIN rbCache' = DOMAIN rbCache
      /\ \A key \in DOMAIN rbCache' :
           rbCache'[key] = IF key \in Cache!KeysOf(f) THEN <<0, 0>> ELSE rbCache[key]
  BY ForgetFacts DEF Cache!glDeleteFramebuffers, Cache!DeleteFramebufferForgetting
<1>5. alive' = alive \ {f} /\ births' = births
  BY DEF Cache!glDeleteFramebuffers, Cache!DeleteFramebufferForgetting
<1>6. RbCached'
  <2>1. SUFFICES ASSUME NEW key \in DOMAIN rbCache', NEW rb \in Rbs, rbCache'[key] = <<rb, 0>>
                 PROVE  rb \in alive' /\ rbAt'[key] = <<<<rb, births'[rb]>>, 0>>
    BY DEF RbCached
  <2>2. rb # 0 /\ rb # f
    BY Names
  <2>3. key \notin Cache!KeysOf(f) /\ rbCache[key] = <<rb, 0>>
    BY <1>4, <2>1, <2>2
  <2>4. rb \in alive /\ rbAt[key] = <<<<rb, births[rb]>>, 0>>
    BY <1>4, <2>3 DEF RbInv, RbCached
  <2>5. QED
    BY <1>1, <1>2, <1>4, <1>5, <2>2, <2>3, <2>4
<1>7. QED
  BY <1>3, <1>6 DEF RbInv

LEMMA RbGenInv ==
  ASSUME CacheTypes, RbInv, NEW n \in Cache!Names, Cache!Gen(n)
  PROVE  RbInv'
<1>1. n \notin alive /\ alive \subseteq alive' /\ \A m \in alive : births'[m] = births[m]
  BY DEF CacheTypes, Cache!TypeOK, Cache!Gen
<1>2. rbCache' = rbCache /\ rbAt' = rbAt /\ rbAsked' = rbAsked
  BY DEF Cache!Gen, Cache!game
<1>3. QED
  BY <1>1, <1>2 DEF RbInv, RbCached, Cache!RbAttached

LEMMA RbTexInv ==
  ASSUME CacheTypes, RbInv, NEW x \in Textures, Cache!glDeleteTextures(x)
  PROVE  RbInv'
<1>1. alive' = alive \ {x} /\ births' = births /\ rbCache' = rbCache /\ rbAt' = rbAt /\ rbAsked' = rbAsked
  BY DEF Cache!glDeleteTextures
<1>2. QED
  BY <1>1, Names DEF RbInv, RbCached, Cache!RbAttached

\* Textures: an attach writes one cell of everything, or none of it.
LEMMA TexAttachFacts ==
  ASSUME CacheTypes, NEW p \in Points, NEW x \in Textures, NEW l \in Levels,
         Cache!glFramebufferTexture2D(p, x, l), NEW here, here = <<bound, p>>
  PROVE  /\ here \in Cache!Keys
         /\ texAsked'[here] = <<<<x, births[x]>>, l>>
         /\ \A key \in Cache!Keys :
              key # here => texAsked'[key] = texAsked[key] /\ texAt'[key] = texAt[key] /\ surfaces'[key] = surfaces[key]
         /\ IF here \in DOMAIN texCache /\ texCache[here] = <<x, l>>
            THEN texCache' = texCache /\ texAt' = texAt /\ surfaces' = surfaces
            ELSE /\ texAt'[here] = <<<<x, births[x]>>, l>>
                 /\ surfaces'[here] = IF texAt[here] = <<<<x, births[x]>>, l>> THEN 2 ELSE 1
                 /\ IF here \in DOMAIN texCache'
                    THEN texCache'[here] = <<x, l>>
                    ELSE Cardinality(DOMAIN texCache') >= CacheSize
         /\ DOMAIN texCache \subseteq DOMAIN texCache' /\ DOMAIN texCache' \subseteq DOMAIN texCache \cup {here}
         /\ Cardinality(DOMAIN texCache) <= Cardinality(DOMAIN texCache')
         /\ \A key \in DOMAIN texCache' : key # here => texCache'[key] = texCache[key]
         /\ x \in alive /\ alive' = alive /\ births' = births
<1>1. here \in Cache!Keys /\ here = <<cur_fbo, p>>
  BY Here DEF Cache!glFramebufferTexture2D, Cache!TextureSkippedIf, Cache!Screen
<1>2. PICK obj : obj = <<<<x, births[x]>>, l>>
  OBVIOUS
<1>3. /\ texAsked' = [texAsked EXCEPT ![here] = obj]
      /\ x \in alive /\ alive' = alive /\ births' = births
      /\ IF here \in DOMAIN texCache /\ texCache[here] = <<x, l>>
         THEN texCache' = texCache /\ texAt' = texAt /\ surfaces' = surfaces
         ELSE /\ texCache' = Cache!Put(texCache, here, <<x, l>>)
              /\ texAt' = [texAt EXCEPT ![here] = obj]
              /\ surfaces' = [surfaces EXCEPT ![here] = IF texAt[here] = obj THEN 2 ELSE 1]
  BY <1>1, <1>2 DEF Cache!glFramebufferTexture2D, Cache!TextureSkippedIf, Cache!Object, Cache!Cached
<1>4. texAt \in [Cache!Keys -> Cache!Attachment] /\ texAsked \in [Cache!Keys -> Cache!Attachment]
      /\ surfaces \in [Cache!Keys -> 0..2]
  BY DEF CacheTypes, Cache!TypeOK
<1>5. texAsked'[here] = obj /\ \A key \in Cache!Keys : key # here => texAsked'[key] = texAsked[key]
  BY <1>1, <1>3, <1>4
<1>6. /\ texCache = [key \in DOMAIN texCache |-> texCache[key]] /\ IsFiniteSet(DOMAIN texCache)
      /\ Cardinality(DOMAIN texCache) <= CacheSize
  BY CacheCard DEF CacheTypes, Cache!TypeOK
<1>7. Cardinality(DOMAIN texCache) \in Nat
  BY <1>6, FS_CardinalityType
<1>8. CASE here \in DOMAIN texCache /\ texCache[here] = <<x, l>>
  BY <1>1, <1>2, <1>3, <1>5, <1>7, <1>8
<1>9. CASE ~(here \in DOMAIN texCache /\ texCache[here] = <<x, l>>)
  <2>1. /\ IF here \in DOMAIN texCache'
           THEN texCache'[here] = <<x, l>>
           ELSE Cardinality(DOMAIN texCache') >= CacheSize
        /\ DOMAIN texCache \subseteq DOMAIN texCache' /\ DOMAIN texCache' \subseteq DOMAIN texCache \cup {here}
        /\ Cardinality(DOMAIN texCache) <= Cardinality(DOMAIN texCache')
        /\ \A key \in DOMAIN texCache' : key # here => texCache'[key] = texCache[key]
    BY <1>3, <1>6, <1>9, PutFacts
  <2>2. texAt'[here] = obj /\ surfaces'[here] = IF texAt[here] = obj THEN 2 ELSE 1
    BY <1>1, <1>3, <1>4, <1>9
  <2>3. \A key \in Cache!Keys : key # here => texAt'[key] = texAt[key] /\ surfaces'[key] = surfaces[key]
    BY <1>3, <1>4, <1>9
  <2>4. QED
    BY <1>1, <1>2, <1>3, <1>5, <1>9, <2>1, <2>2, <2>3
<1>10. QED
  BY <1>8, <1>9

LEMMA TexAttachInv ==
  ASSUME CacheTypes, TexInv, LeakInv, NEW p \in Points, NEW x \in Textures, NEW l \in Levels,
         Cache!glFramebufferTexture2D(p, x, l)
  PROVE  TexInv' /\ LeakInv'
<1>1. PICK here : here = <<bound, p>>
  OBVIOUS
<1>2. here \in Cache!Keys
  BY <1>1, TexAttachFacts
<1>3. texAsked'[here] = <<<<x, births[x]>>, l>>
      /\ \A key \in Cache!Keys : key # here => texAsked'[key] = texAsked[key]
  BY <1>1, TexAttachFacts
<1>4. \A key \in Cache!Keys : key # here => texAt'[key] = texAt[key] /\ surfaces'[key] = surfaces[key]
  BY <1>1, TexAttachFacts
<1>5. IF here \in DOMAIN texCache /\ texCache[here] = <<x, l>>
      THEN texCache' = texCache /\ texAt' = texAt /\ surfaces' = surfaces
      ELSE /\ texAt'[here] = <<<<x, births[x]>>, l>>
           /\ surfaces'[here] = IF texAt[here] = <<<<x, births[x]>>, l>> THEN 2 ELSE 1
           /\ IF here \in DOMAIN texCache'
              THEN texCache'[here] = <<x, l>>
              ELSE Cardinality(DOMAIN texCache') >= CacheSize
  BY <1>1, TexAttachFacts
<1>6. /\ DOMAIN texCache \subseteq DOMAIN texCache' /\ DOMAIN texCache' \subseteq DOMAIN texCache \cup {here}
      /\ Cardinality(DOMAIN texCache) <= Cardinality(DOMAIN texCache')
      /\ \A key \in DOMAIN texCache' : key # here => texCache'[key] = texCache[key]
  BY <1>1, TexAttachFacts
<1>7. x \in alive /\ alive' = alive /\ births' = births /\ births[x] \in Nat /\ births[x] >= 1
  <2>1. births[x] \in 0..MaxBirths
    BY DEF CacheTypes, Cache!TypeOK, Cache!Names
  <2>2. QED
    BY <1>1, <2>1, TexAttachFacts DEF CacheTypes
<1>8. DOMAIN texCache' \subseteq Cache!Keys /\ DOMAIN texCache \subseteq Cache!Keys
  BY TexAttachTypes DEF CacheTypes, Cache!TypeOK
<1>9. Cardinality(DOMAIN texCache) \in Nat /\ Cardinality(DOMAIN texCache') \in Nat /\ CacheSize \in Nat
  BY TexAttachTypes, FS_CardinalityType, CacheAssumption DEF CacheTypes, Cache!CacheAssumption
<1>10. births[x] = 1 => texAt'[here] = <<<<x, 1>>, l>>
  BY <1>2, <1>5, <1>7 DEF TexInv, TexCached
<1>11. here \in DOMAIN texCache' => texCache'[here] = <<x, l>>
  BY <1>5
<1>12. TexCached'
  <2>1. SUFFICES ASSUME NEW key \in DOMAIN texCache', NEW tex \in Textures, NEW k \in Levels,
                        texCache'[key] = <<tex, k>>
                 PROVE  births'[tex] >= 1 /\ (tex \in alive' /\ births'[tex] = 1 => texAt'[key] = <<<<tex, 1>>, k>>)
    BY DEF TexCached
  <2>2. CASE key = here
    BY <1>7, <1>10, <1>11, <2>1, <2>2
  <2>3. CASE key # here
    BY <1>4, <1>6, <1>7, <1>8, <2>1, <2>3 DEF TexInv, TexCached
  <2>4. QED
    BY <2>2, <2>3
<1>13. Cache!FirstTextureAttached'
  <2>1. SUFFICES ASSUME NEW key \in Cache!Keys, texAsked'[key] # <<>>, texAsked'[key][1][2] = 1
                 PROVE  texAt'[key] = texAsked'[key]
    BY DEF Cache!FirstTextureAttached, Cache!Nothing
  <2>2. CASE key = here
    BY <1>3, <1>10, <2>1, <2>2
  <2>3. CASE key # here
    BY <1>3, <1>4, <2>1, <2>3 DEF TexInv, Cache!FirstTextureAttached, Cache!Nothing
  <2>4. QED
    BY <2>2, <2>3
<1>14. TexKnown'
  <2>1. SUFFICES ASSUME NEW key \in Cache!Keys, NEW tex \in Textures, NEW k \in Levels,
                        texAt'[key] # <<>>, texAt'[key][1][1] = tex, texAt'[key][2] = k
                 PROVE  IF key \in DOMAIN texCache'
                        THEN texCache'[key] = <<tex, k>>
                        ELSE Cardinality(DOMAIN texCache') >= CacheSize
    BY DEF TexKnown
  <2>2. CASE key # here \/ (here \in DOMAIN texCache /\ texCache[here] = <<x, l>>)
    <3>1. texAt'[key] = texAt[key]
      BY <1>4, <1>5, <2>2
    <3>2. IF key \in DOMAIN texCache
          THEN texCache[key] = <<tex, k>>
          ELSE Cardinality(DOMAIN texCache) >= CacheSize
      BY <2>1, <3>1 DEF LeakInv, TexKnown
    <3>3. key \in DOMAIN texCache' <=> key \in DOMAIN texCache
      BY <1>5, <1>6, <2>2
    <3>4. key \in DOMAIN texCache => texCache'[key] = texCache[key]
      BY <1>5, <1>6, <2>2
    <3>5. QED
      BY <1>6, <1>9, <3>2, <3>3, <3>4
  <2>3. CASE key = here /\ ~(here \in DOMAIN texCache /\ texCache[here] = <<x, l>>)
    BY <1>5, <2>1, <2>3
  <2>4. QED
    BY <2>2, <2>3
<1>15. Cache!NoLeak'
  <2>1. SUFFICES ASSUME NEW key \in DOMAIN texCache' PROVE surfaces'[key] < 2
    BY DEF Cache!NoLeak
  <2>2. CASE key # here \/ (here \in DOMAIN texCache /\ texCache[here] = <<x, l>>)
    BY <1>4, <1>5, <1>6, <1>8, <2>2 DEF LeakInv, Cache!NoLeak
  <2>3. CASE key = here /\ ~(here \in DOMAIN texCache /\ texCache[here] = <<x, l>>)
    <3>1. SUFFICES ASSUME texAt[here] = <<<<x, births[x]>>, l>> PROVE FALSE
      BY <1>5, <2>3
    <3>2. here \notin DOMAIN texCache /\ Cardinality(DOMAIN texCache) >= CacheSize
      BY <1>2, <2>3, <3>1 DEF LeakInv, TexKnown
    <3>3. CacheSize >= Cardinality(DOMAIN texCache')
      BY TexAttachTypes, CacheCard DEF CacheTypes, Cache!TypeOK
    <3>4. Cardinality(DOMAIN texCache') = Cardinality(DOMAIN texCache) + 1
      <4>1. DOMAIN texCache' = DOMAIN texCache \cup {here}
        BY <1>6, <2>3
      <4>2. QED
        BY <3>2, <4>1, FS_AddElement DEF CacheTypes
    <3>5. QED
      BY <1>9, <3>2, <3>3, <3>4
  <2>4. QED
    BY <2>2, <2>3
<1>16. QED
  BY <1>12, <1>13, <1>14, <1>15 DEF TexInv, LeakInv

LEMMA TexDeleteInv ==
  ASSUME CacheTypes, TexInv, LeakInv, NEW x \in Textures, Cache!glDeleteTextures(x)
  PROVE  TexInv' /\ LeakInv'
<1>1. texAt \in [Cache!Keys -> Cache!Attachment] /\ texAsked \in [Cache!Keys -> Cache!Attachment]
      /\ DOMAIN texCache \subseteq Cache!Keys
  BY DEF CacheTypes, Cache!TypeOK
<1>2. \A key \in Cache!Keys :
        texAsked'[key] =
          IF texAsked[key] # <<>> /\ texAsked[key][1] = <<x, births[x]>> THEN <<>> ELSE texAsked[key]
  BY <1>1, WithoutKeys DEF Cache!glDeleteTextures, Cache!KeysWith, Cache!Object, Cache!Nothing
<1>3. \A key \in Cache!Keys :
        \/ texAt'[key] = texAt[key]
        \/ texAt'[key] = <<>> /\ texAt[key] # <<>> /\ texAt[key][1] = <<x, births[x]>>
  BY <1>1, WithoutKeys DEF Cache!glDeleteTextures, Cache!KeysWith, Cache!Object, Cache!Nothing
<1>4. alive' = alive \ {x} /\ births' = births /\ texCache' = texCache /\ surfaces' = surfaces
  BY DEF Cache!glDeleteTextures
<1>5. TexCached'
  <2>1. SUFFICES ASSUME NEW key \in DOMAIN texCache', NEW tex \in Textures, NEW k \in Levels,
                        texCache'[key] = <<tex, k>>
                 PROVE  births'[tex] >= 1 /\ (tex \in alive' /\ births'[tex] = 1 => texAt'[key] = <<<<tex, 1>>, k>>)
    BY DEF TexCached
  <2>2. births[tex] >= 1 /\ (tex \in alive /\ births[tex] = 1 => texAt[key] = <<<<tex, 1>>, k>>)
    BY <1>4, <2>1 DEF TexInv, TexCached
  <2>3. ASSUME tex \in alive', births'[tex] = 1 PROVE texAt'[key] = <<<<tex, 1>>, k>>
    <3>1. tex # x /\ texAt[key] = <<<<tex, 1>>, k>>
      BY <1>4, <2>2, <2>3
    <3>2. texAt[key][1] # <<x, births[x]>>
      BY <3>1
    <3>3. QED
      BY <1>1, <1>3, <1>4, <3>1, <3>2
  <2>4. QED
    BY <1>4, <2>2, <2>3
<1>6. Cache!FirstTextureAttached'
  BY <1>2, <1>3 DEF TexInv, Cache!FirstTextureAttached, Cache!Nothing
<1>7. TexKnown'
  BY <1>3, <1>4 DEF LeakInv, TexKnown
<1>8. QED
  BY <1>4, <1>5, <1>6, <1>7 DEF TexInv, LeakInv, Cache!NoLeak

LEMMA TexFboInv ==
  ASSUME CacheTypes, TexInv, LeakInv, NEW f \in Fbos, Cache!glDeleteFramebuffers(f)
  PROVE  TexInv' /\ LeakInv'
<1>1. texAt \in [Cache!Keys -> Cache!Attachment] /\ texAsked \in [Cache!Keys -> Cache!Attachment]
      /\ DOMAIN texCache \subseteq Cache!Keys
  BY DEF CacheTypes, Cache!TypeOK
<1>2. \A key \in Cache!Keys :
        /\ texAsked'[key] = IF key \in Cache!KeysOf(f) THEN <<>> ELSE texAsked[key]
        /\ texAt'[key] = IF key \in Cache!KeysOf(f) THEN <<>> ELSE texAt[key]
  BY <1>1, WithoutKeys DEF Cache!glDeleteFramebuffers, Cache!DeleteFramebufferForgetting
<1>3. /\ DOMAIN texCache' = DOMAIN texCache
      /\ \A key \in DOMAIN texCache' :
           texCache'[key] = IF key \in Cache!KeysOf(f) THEN <<0, 0>> ELSE texCache[key]
  BY ForgetFacts DEF Cache!glDeleteFramebuffers, Cache!DeleteFramebufferForgetting
<1>4. alive' = alive \ {f} /\ births' = births
      /\ \A key \in Cache!Keys : surfaces'[key] = IF key \in Cache!KeysOf(f) THEN 0 ELSE surfaces[key]
  BY DEF Cache!glDeleteFramebuffers, Cache!DeleteFramebufferForgetting
<1>5. TexCached'
  <2>1. SUFFICES ASSUME NEW key \in DOMAIN texCache', NEW tex \in Textures, NEW k \in Levels,
                        texCache'[key] = <<tex, k>>
                 PROVE  births'[tex] >= 1 /\ (tex \in alive' /\ births'[tex] = 1 => texAt'[key] = <<<<tex, 1>>, k>>)
    BY DEF TexCached
  <2>2. tex # 0
    BY Names
  <2>3. key \notin Cache!KeysOf(f) /\ texCache[key] = <<tex, k>>
    BY <1>3, <2>1, <2>2
  <2>4. births[tex] >= 1 /\ (tex \in alive /\ births[tex] = 1 => texAt[key] = <<<<tex, 1>>, k>>)
    BY <1>3, <2>3 DEF TexInv, TexCached
  <2>5. QED
    BY <1>1, <1>2, <1>3, <1>4, <2>3, <2>4
<1>6. Cache!FirstTextureAttached'
  BY <1>2 DEF TexInv, Cache!FirstTextureAttached, Cache!Nothing
<1>7. TexKnown'
  <2>1. SUFFICES ASSUME NEW key \in Cache!Keys, NEW tex \in Textures, NEW k \in Levels,
                        texAt'[key] # <<>>, texAt'[key][1][1] = tex, texAt'[key][2] = k
                 PROVE  IF key \in DOMAIN texCache'
                        THEN texCache'[key] = <<tex, k>>
                        ELSE Cardinality(DOMAIN texCache') >= CacheSize
    BY DEF TexKnown
  <2>2. key \notin Cache!KeysOf(f) /\ texAt'[key] = texAt[key]
    BY <1>2, <2>1
  <2>3. QED
    BY <1>3, <2>1, <2>2 DEF LeakInv, TexKnown
<1>8. Cache!NoLeak'
  BY <1>1, <1>3, <1>4 DEF LeakInv, Cache!NoLeak
<1>9. QED
  BY <1>5, <1>6, <1>7, <1>8 DEF TexInv, LeakInv

LEMMA TexGenInv ==
  ASSUME CacheTypes, TexInv, LeakInv, NEW n \in Cache!Names, Cache!Gen(n)
  PROVE  TexInv' /\ LeakInv'
<1>1. texCache' = texCache /\ texAt' = texAt /\ texAsked' = texAsked /\ surfaces' = surfaces
  BY DEF Cache!Gen, Cache!game
<1>2. births \in [Cache!Names -> Nat] /\ Textures \subseteq Cache!Names
  BY DEF CacheTypes, Cache!TypeOK, Cache!Names
<1>3. alive' = alive \cup {n} /\ births'[n] = births[n] + 1
      /\ \A m \in Cache!Names : m # n => births'[m] = births[m]
  BY <1>2 DEF Cache!Gen
<1>4. TexCached'
  <2>1. SUFFICES ASSUME NEW key \in DOMAIN texCache', NEW tex \in Textures, NEW k \in Levels,
                        texCache'[key] = <<tex, k>>
                 PROVE  births'[tex] >= 1 /\ (tex \in alive' /\ births'[tex] = 1 => texAt'[key] = <<<<tex, 1>>, k>>)
    BY DEF TexCached
  <2>2. births[tex] >= 1 /\ (tex \in alive /\ births[tex] = 1 => texAt[key] = <<<<tex, 1>>, k>>)
    BY <1>1, <2>1 DEF TexInv, TexCached
  <2>3. CASE tex = n
    BY <1>2, <1>3, <2>2, <2>3
  <2>4. CASE tex # n
    BY <1>1, <1>2, <1>3, <2>2, <2>4
  <2>5. QED
    BY <2>3, <2>4
<1>5. QED
  BY <1>1, <1>4 DEF TexInv, LeakInv, TexKnown, Cache!FirstTextureAttached, Cache!NoLeak

LEMMA TexRbInv ==
  ASSUME CacheTypes, TexInv, LeakInv, NEW r \in Rbs, Cache!glDeleteRenderbuffers(r)
  PROVE  TexInv' /\ LeakInv'
<1>1. /\ texCache' = texCache /\ texAt' = texAt /\ texAsked' = texAsked /\ surfaces' = surfaces
      /\ alive' = alive \ {r} /\ births' = births
  BY DEF Cache!glDeleteRenderbuffers, Cache!DeleteRenderbufferForgetting
<1>2. QED
  BY <1>1 DEF TexInv, LeakInv, TexCached, TexKnown, Cache!FirstTextureAttached, Cache!NoLeak

LEMMA CacheStep == CacheInv /\ [Cache!Next]_cacheVars => CacheInv'
<1> SUFFICES ASSUME CacheInv, [Cache!Next]_cacheVars PROVE CacheInv'
  OBVIOUS
<1> USE DEF CacheInv
<1>1. ASSUME NEW n \in Cache!Names, Cache!Gen(n) PROVE CacheInv'
  BY <1>1, GenTypes, RbGenInv, TexGenInv
<1>2. ASSUME NEW f \in Fbos \cup {0}, Cache!glBindFramebuffer(f) PROVE CacheInv'
  <2>1. CacheTypes'
    BY <1>2, BindTypes
  <2>2. /\ births' = births /\ alive' = alive /\ surfaces' = surfaces
        /\ texAt' = texAt /\ texAsked' = texAsked /\ texCache' = texCache
        /\ rbAt' = rbAt /\ rbAsked' = rbAsked /\ rbCache' = rbCache
    BY <1>2 DEF Cache!glBindFramebuffer, Cache!game
  <2>3. QED
    BY <2>1, <2>2
    DEF RbInv, RbCached, TexInv, TexCached, LeakInv, TexKnown, Cache!RbAttached, Cache!FirstTextureAttached,
        Cache!NoLeak
<1>3. ASSUME NEW f \in Fbos, Cache!glDeleteFramebuffers(f) PROVE CacheInv'
  BY <1>3, FboTypes, RbFboInv, TexFboInv
<1>4. ASSUME NEW r \in Rbs, Cache!glDeleteRenderbuffers(r) PROVE CacheInv'
  BY <1>4, RbTypes, RbDeleteInv, TexRbInv
<1>5. ASSUME NEW x \in Textures, Cache!glDeleteTextures(x) PROVE CacheInv'
  BY <1>5, TexTypes, RbTexInv, TexDeleteInv
<1>6. ASSUME NEW p \in Points, NEW r \in Rbs, Cache!glFramebufferRenderbuffer(p, r) PROVE CacheInv'
  <2>1. /\ births' = births /\ alive' = alive /\ surfaces' = surfaces
        /\ texAt' = texAt /\ texAsked' = texAsked /\ texCache' = texCache
    BY <1>6 DEF Cache!glFramebufferRenderbuffer
  <2>2. TexInv' /\ LeakInv'
    BY <2>1 DEF TexInv, TexCached, LeakInv, TexKnown, Cache!FirstTextureAttached, Cache!NoLeak
  <2>3. QED
    BY <1>6, <2>2, RbAttachTypes, RbAttachInv
<1>7. ASSUME NEW p \in Points, NEW x \in Textures, NEW l \in Levels, Cache!glFramebufferTexture2D(p, x, l)
      PROVE  CacheInv'
  <2>1. births' = births /\ alive' = alive /\ rbAt' = rbAt /\ rbAsked' = rbAsked /\ rbCache' = rbCache
    BY <1>7 DEF Cache!glFramebufferTexture2D, Cache!TextureSkippedIf
  <2>2. RbInv'
    BY <2>1 DEF RbInv, RbCached, Cache!RbAttached
  <2>3. QED
    BY <1>7, <2>2, TexAttachTypes, TexAttachInv
<1>8. CASE UNCHANGED cacheVars
  <2>1. /\ births' = births /\ alive' = alive /\ surfaces' = surfaces /\ bound' = bound /\ cur_fbo' = cur_fbo
        /\ texAt' = texAt /\ texAsked' = texAsked /\ texCache' = texCache
        /\ rbAt' = rbAt /\ rbAsked' = rbAsked /\ rbCache' = rbCache
    BY <1>8 DEF cacheVars
  <2>2. CacheTypes'
    BY <2>1 DEF CacheTypes, Cache!TypeOK
  <2>3. RbInv' /\ TexInv'
    BY <2>1 DEF RbInv, RbCached, TexInv, TexCached, Cache!RbAttached, Cache!FirstTextureAttached
  <2>4. LeakInv'
    BY <2>1 DEF LeakInv, TexKnown, Cache!NoLeak
  <2>5. QED
    BY <2>2, <2>3, <2>4
<1>9. QED
  BY <1>1, <1>2, <1>3, <1>4, <1>5, <1>6, <1>7, <1>8 DEF Cache!Next, Cache!Screen

(* The steps of the composition, seen from one part. *)
LEMMA Apart ==
  ASSUME [CallsNext]_all
  PROVE  [Cache!Next]_cacheVars /\ [Screen!Next]_rectVars /\ [Next]_vars
<1>1. CASE Do(Next)
  BY <1>1 DEF Do, others
<1>2. CASE part = "cache" /\ Cache!Next /\ UNCHANGED <<part, vars, rectVars, textVars>>
  BY <1>2
<1>3. CASE part = "rects" /\ Screen!Next /\ UNCHANGED <<part, vars, cacheVars, textVars>>
  BY <1>3
<1>4. CASE part = "text" /\ Text!Next /\ UNCHANGED <<part, vars, cacheVars, rectVars>>
  BY <1>4
<1>5. CASE UNCHANGED all
  BY <1>5 DEF all, others
<1>6. QED
  BY <1>1, <1>2, <1>3, <1>4, <1>5 DEF CallsNext

\* "Skip attaches that change nothing" (gl_lock.c:155): for any names, levels and
\* attachment points, and caches of any size, what the game attached last is
\* attached, textures as long as their names are used for the first time, and no
\* attachment that is remembered allocates twice (gl_lock.c:37-169).
THEOREM AttachedSafe == CallsSpec => []AttachedAsAsked
<1>1. CallsInit => CacheInv
  BY CacheStart DEF CallsInit
<1>2. CacheInv /\ [CallsNext]_all => CacheInv'
  BY Apart, CacheStep
<1>3. CacheInv => AttachedAsAsked
  BY DEF CacheInv, CacheTypes, RbInv, TexInv, LeakInv, AttachedAsAsked
<1>4. QED
  BY <1>1, <1>2, <1>3, PTL DEF CallsSpec

----------------------------------------------------------------------------
(* The rectangles of the screen.  What VitaGL was given is what fit_rect    *)
(* makes of what was asked for, and what that is follows from the quotient  *)
(* of the rounding: the side that the scale is for takes the whole display, *)
(* and the other no more than there is.                                     *)

LEMMA Quotient ==
  ASSUME NEW a \in Int, NEW m \in Nat, m > 0
  PROVE  a \div m \in Int /\ m * (a \div m) <= a /\ a < m * (a \div m) + m
  BY SMT

LEMMA Bounded ==
  ASSUME NEW m \in Nat, m > 0, NEW q \in Int, NEW k \in Int, m * q < m * k + m
  PROVE  q <= k
<1>1. SUFFICES ASSUME q >= k + 1 PROVE FALSE
  OBVIOUS
<1>2. m * (q - (k + 1)) >= 0
  BY <1>1, SMT
<1>3. m * (q - (k + 1)) = m * q - (m * k + m)
  BY SMT
<1>4. QED
  BY <1>2, <1>3, SMT

\* The quotient that is rounded to the nearest.
LEMMA Nearest ==
  ASSUME NEW n \in Nat, NEW d \in Nat, d > 0
  PROVE  /\ Screen!Rounded(n, d) \in Nat
         /\ 2 * (d * Screen!Rounded(n, d)) <= 2 * n + d
         /\ 2 * n + d < 2 * (d * Screen!Rounded(n, d)) + 2 * d
<1>1. PICK q \in Int : q = Screen!Rounded(n, d) /\ (2 * d) * q <= 2 * n + d /\ 2 * n + d < (2 * d) * q + 2 * d
  BY Quotient DEF Screen!Rounded
<1>2. (2 * d) * q = 2 * (d * q)
  BY SMT
<1>3. q >= 0
  <2>1. SUFFICES ASSUME q < 0 PROVE FALSE
    OBVIOUS
  <2>2. d * (-1 - q) >= 0
    BY <2>1, SMT
  <2>3. d * (-1 - q) = -d - d * q
    BY SMT
  <2>4. QED
    BY <1>1, <1>2, <2>2, <2>3, SMT
<1>4. QED
  BY <1>1, <1>2, <1>3

\* A side scaled by the display's is the display's.
LEMMA Whole ==
  ASSUME NEW k \in Nat, NEW d \in Nat, d > 0
  PROVE  Screen!Rounded(d * k, d) = k
<1>1. PICK n \in Nat : n = d * k
  BY SMT
<1>2. PICK q \in Nat : q = Screen!Rounded(n, d) /\ 2 * (d * q) <= 2 * n + d /\ 2 * n + d < 2 * (d * q) + 2 * d
  BY Nearest
<1>3. d * q < d * k + d /\ d * k < d * q + d
  BY <1>1, <1>2, SMT
<1>4. q <= k /\ k <= q
  BY <1>3, Bounded
<1>5. QED
  BY <1>1, <1>2, <1>4

\* The other side has the proportion, within half a pixel, and no more than its bound.
LEMMA Scaled ==
  ASSUME NEW n \in Nat, NEW d \in Nat, d > 0, NEW q, q = Screen!Rounded(n, d)
  PROVE  /\ q \in Nat /\ 2 * (n - q * d) <= d /\ 2 * (q * d - n) <= d
         /\ \A k \in Nat : n <= k * d => q <= k
<1>1. q \in Nat /\ 2 * (d * q) <= 2 * n + d /\ 2 * n + d < 2 * (d * q) + 2 * d
  BY Nearest
<1>2. d * q = q * d /\ d * q \in Nat
  BY <1>1, SMT
<1>3. ASSUME NEW k \in Nat, n <= k * d PROVE q <= k
  <2>1. d * k = k * d /\ d * k \in Nat
    BY SMT
  <2>2. d * q < d * k + d
    BY <1>1, <1>2, <1>3, <2>1, SMT
  <2>3. QED
    BY <1>1, <2>2, Bounded
<1>4. QED
  BY <1>1, <1>2, <1>3, SMT

LEMMA TruncType ==
  ASSUME NEW n \in Int, NEW d \in Nat, d > 0
  PROVE  Screen!Trunc(n, d) \in Int /\ (n = 0 => Screen!Trunc(n, d) = 0)
<1>1. n \div d \in Int /\ (-n) \div d \in Int
  BY Quotient
<1>2. 0 \div d = 0
  BY SMT
<1>3. QED
  BY <1>1, <1>2 DEF Screen!Trunc

Rectangle == [x : Int, y : Int, w : Nat, h : Nat]

LEMMA Fitted ==
  ASSUME NEW a \in Rectangle, Screen!Larger(a), NEW g, g = Screen!fit_rect(0, a)
  PROVE  g \in Rectangle /\ Screen!Fits(a, g)
<1>1. a.x \in Int /\ a.y \in Int /\ a.w \in Nat /\ a.h \in Nat
  BY DEF Rectangle
<1>2. PICK n, d : n = Screen!Scale(a)[1] /\ d = Screen!Scale(a)[2]
  OBVIOUS
<1>3. PICK nw, nh : nw = Screen!Rounded(a.w * n, d) /\ nh = Screen!Rounded(a.h * n, d)
  OBVIOUS
<1>4. g = [x |-> Screen!Trunc(a.x * n, d) + (960 - nw) \div 2,
           y |-> Screen!Trunc(a.y * n, d) + (544 - nh) \div 2, w |-> nw, h |-> nh]
  BY <1>2, <1>3 DEF Screen!fit_rect, Screen!DISP_W, Screen!DISP_H
<1>5. /\ n \in Nat /\ d \in Nat /\ d > 0
      /\ nw \in Nat /\ nh \in Nat /\ nw <= 960 /\ nh <= 544
      /\ nw = 960 \/ nh = 544
      /\ 2 * (nw * a.h - nh * a.w) <= d /\ 2 * (nh * a.w - nw * a.h) <= d
      /\ d <= a.w + a.h
  <2>1. CASE 960 * a.h <= 544 * a.w
    <3>1. n = 960 /\ d = a.w
      BY <1>2, <2>1 DEF Screen!Scale, Screen!DISP_W, Screen!DISP_H
    <3>2. d \in Nat /\ d > 0
      BY <1>1, <2>1, <3>1 DEF Screen!Larger, Screen!DISP_W, Screen!DISP_H
    <3>3. nw = 960
      BY <1>3, <3>1, <3>2, Whole
    <3>4. PICK e \in Nat : /\ e = a.h * n /\ e = 960 * a.h /\ e <= 544 * d
      BY <1>1, <2>1, <3>1
    <3>5. nh = Screen!Rounded(e, d)
      BY <1>3, <3>4
    <3>6. /\ nh \in Nat /\ 2 * (e - nh * d) <= d /\ 2 * (nh * d - e) <= d
          /\ \A k \in Nat : e <= k * d => nh <= k
      BY <3>2, <3>5, Scaled
    <3>7. nh <= 544
      BY <3>4, <3>6
    <3>8. QED
      BY <1>1, <3>1, <3>2, <3>3, <3>4, <3>6, <3>7
  <2>2. CASE ~(960 * a.h <= 544 * a.w)
    <3>1. n = 544 /\ d = a.h
      BY <1>2, <2>2 DEF Screen!Scale, Screen!DISP_W, Screen!DISP_H
    <3>2. d \in Nat /\ d > 0
      BY <1>1, <2>2, <3>1
    <3>3. nh = 544
      BY <1>3, <3>1, <3>2, Whole
    <3>4. PICK e \in Nat : /\ e = a.w * n /\ e = 544 * a.w /\ e <= 960 * d
      BY <1>1, <2>2, <3>1
    <3>5. nw = Screen!Rounded(e, d)
      BY <1>3, <3>4
    <3>6. /\ nw \in Nat /\ 2 * (e - nw * d) <= d /\ 2 * (nw * d - e) <= d
          /\ \A k \in Nat : e <= k * d => nw <= k
      BY <3>2, <3>5, Scaled
    <3>7. nw <= 960
      BY <3>4, <3>6
    <3>8. QED
      BY <1>1, <3>1, <3>2, <3>3, <3>4, <3>6, <3>7
  <2>3. QED
    BY <2>1, <2>2
<1>6. PICK tx \in Int, ty \in Int : /\ tx = Screen!Trunc(a.x * n, d) /\ ty = Screen!Trunc(a.y * n, d)
                                    /\ (a.x = 0 => tx = 0) /\ (a.y = 0 => ty = 0)
  <2>1. a.x * n \in Int /\ a.y * n \in Int /\ (a.x = 0 => a.x * n = 0) /\ (a.y = 0 => a.y * n = 0)
    BY <1>1, <1>5, SMT
  <2>2. QED
    BY <1>5, <2>1, TruncType
<1>7. PICK cx \in Nat, cy \in Nat :
        /\ cx = (960 - nw) \div 2 /\ cy = (544 - nh) \div 2
        /\ 2 * cx <= 960 - nw /\ 960 - nw <= 2 * cx + 1 /\ 2 * cy <= 544 - nh /\ 544 - nh <= 2 * cy + 1
  BY <1>5, SMT
<1>8. g = [x |-> tx + cx, y |-> ty + cy, w |-> nw, h |-> nh]
  BY <1>4, <1>6, <1>7
<1>9. g \in Rectangle
  BY <1>5, <1>6, <1>7, <1>8 DEF Rectangle
<1>10. g.w = nw /\ g.h = nh /\ g.x = tx + cx /\ g.y = ty + cy
  BY <1>8
<1>11. 2 * Screen!Magnitude(nw * a.h - nh * a.w) <= a.w + a.h
  <2>1. PICK e \in Int : e = nw * a.h - nh * a.w /\ nh * a.w - nw * a.h = -e
    BY <1>1, <1>5, SMT
  <2>2. QED
    BY <1>1, <1>5, <2>1 DEF Screen!Magnitude
<1>12. a.x = 0 /\ a.y = 0 =>
         /\ g.x >= 0 /\ g.y >= 0 /\ g.x + g.w <= 960 /\ g.y + g.h <= 544
         /\ Screen!Magnitude(2 * g.x + g.w - 960) <= 1 /\ Screen!Magnitude(2 * g.y + g.h - 544) <= 1
  BY <1>5, <1>6, <1>7, <1>10 DEF Screen!Magnitude
<1>13. QED
  BY <1>5, <1>9, <1>10, <1>11, <1>12 DEF Screen!Fits, Screen!DISP_W, Screen!DISP_H

\* What the bridge took for the target is the target, or it is the screen and
\* the rectangle is left alone.
SetRight(s) ==
    /\ s.gone = FALSE => s.given = Screen!fit_rect(s.on, s.asked)
    /\ s.gone = TRUE => s.on = 0 /\ s.given = s.asked
ScreenInv ==
    /\ Screen!TypeOK
    /\ gone = FALSE => target = active_fb
    /\ gone = TRUE => active_fb = 0 /\ target # 0
    /\ \A s \in {viewport, scissor} : SetRight(s)

LEMMA ScreenStart == Screen!Init => ScreenInv
<1> SUFFICES ASSUME Screen!Init PROVE ScreenInv
  OBVIOUS
<1>1. PICK s : s = viewport /\ s = scissor /\ s = [asked |-> Screen!Display, on |-> 0, gone |-> FALSE, given |-> Screen!Display]
  BY DEF Screen!Init
<1>2. Screen!Display \in Rectangle
  BY DEF Screen!Display, Screen!DISP_W, Screen!DISP_H, Rectangle
<1>3. ~Screen!Larger(Screen!Display)
  BY DEF Screen!Larger, Screen!Display, Screen!DISP_W, Screen!DISP_H
<1>4. s.given = Screen!fit_rect(s.on, s.asked)
  BY <1>1, <1>3 DEF Screen!fit_rect
<1>5. Screen!TypeOK
  BY <1>1, <1>2 DEF Screen!Init, Screen!TypeOK, Screen!RectSets, Rectangle
<1>6. QED
  BY <1>1, <1>4, <1>5 DEF ScreenInv, SetRight, Screen!Init

LEMMA SetFits ==
  ASSUME ScreenInv, NEW r \in Rectangles, NEW s, s = Screen!Set(r)
  PROVE  s \in Screen!RectSets /\ SetRight(s)
<1>1. s = [asked |-> r, on |-> active_fb, gone |-> gone, given |-> Screen!fit_rect(target, r)]
  BY DEF Screen!Set
<1>2. r \in Rectangle /\ target \in Targets \cup {0}
  BY RectAssumption DEF Screen!RectAssumption, Rectangle, Screen!TypeOK, ScreenInv
<1>3. Screen!fit_rect(target, r) \in Rectangle
  <2>1. CASE target # 0 \/ ~Screen!Larger(r)
    BY <1>2, <2>1 DEF Screen!fit_rect
  <2>2. CASE ~(target # 0 \/ ~Screen!Larger(r))
    BY <1>2, <2>2, Fitted
  <2>3. QED
    BY <2>1, <2>2
<1>4. s \in Screen!RectSets
  BY <1>1, <1>2, <1>3 DEF Screen!RectSets, Rectangle, ScreenInv, Screen!TypeOK
<1>5. SetRight(s)
  <2>1. CASE gone = FALSE
    BY <1>1, <2>1 DEF SetRight, ScreenInv
  <2>2. CASE gone = TRUE
    BY <1>1, <2>2 DEF SetRight, ScreenInv, Screen!fit_rect
  <2>3. QED
    BY <2>1, <2>2 DEF ScreenInv, Screen!TypeOK
<1>6. QED
  BY <1>4, <1>5

LEMMA ScreenStep == ScreenInv /\ [Screen!Next]_rectVars => ScreenInv'
<1> SUFFICES ASSUME ScreenInv, [Screen!Next]_rectVars PROVE ScreenInv'
  OBVIOUS
<1> USE DEF ScreenInv
<1>1. ASSUME NEW f \in Targets \cup {0}, Screen!glBindFramebuffer_locked(f) PROVE ScreenInv'
  BY <1>1 DEF Screen!glBindFramebuffer_locked, Screen!TypeOK, SetRight
<1>2. ASSUME NEW r \in Rectangles, Screen!glViewport_locked(r) PROVE ScreenInv'
  BY <1>2, SetFits DEF Screen!glViewport_locked, Screen!fbVars, Screen!TypeOK, SetRight
<1>3. ASSUME NEW r \in Rectangles, Screen!glScissor_locked(r) PROVE ScreenInv'
  BY <1>3, SetFits DEF Screen!glScissor_locked, Screen!fbVars, Screen!TypeOK, SetRight
<1>4. CASE UNCHANGED rectVars
  BY <1>4 DEF rectVars, Screen!TypeOK, SetRight
<1>5. ASSUME NEW f \in Targets, Screen!glDeleteFramebuffers_locked(f) PROVE ScreenInv'
  <2>1. UNCHANGED <<target, viewport, scissor>>
    BY <1>5 DEF Screen!glDeleteFramebuffers_locked
  <2>2. CASE active_fb = f
    BY <1>5, <2>1, <2>2, RectAssumption DEF Screen!RectAssumption, Screen!glDeleteFramebuffers_locked, Screen!TypeOK, SetRight
  <2>3. CASE active_fb # f
    BY <1>5, <2>1, <2>3 DEF Screen!glDeleteFramebuffers_locked, Screen!TypeOK, SetRight
  <2>4. QED
    BY <2>2, <2>3
<1>6. QED
  BY <1>1, <1>2, <1>3, <1>4, <1>5 DEF Screen!Next

LEMMA ScreenFits == ScreenInv => FitsScreen
<1> SUFFICES ASSUME ScreenInv PROVE FitsScreen
  OBVIOUS
<1>1. ASSUME NEW s \in {viewport, scissor}
      PROVE  /\ s.on # 0 \/ ~Screen!Larger(s.asked) => s.given = s.asked
             /\ s.on = 0 /\ ~s.gone /\ Screen!Larger(s.asked) => Screen!Fits(s.asked, s.given)
  <2>1. SetRight(s)
    BY DEF ScreenInv
  <2>2. s.asked \in Rectangle
    BY RectAssumption
    DEF ScreenInv, Screen!TypeOK, Screen!RectSets, Screen!RectAssumption, Rectangle, Screen!Display,
        Screen!DISP_W, Screen!DISP_H
  <2>3. ASSUME s.on = 0, ~s.gone, Screen!Larger(s.asked) PROVE Screen!Fits(s.asked, s.given)
    <3>1. s.given = Screen!fit_rect(0, s.asked)
      BY <2>1, <2>3 DEF SetRight
    <3>2. QED
      BY <2>2, <2>3, <3>1, Fitted
  <2>4. ASSUME s.on # 0 \/ ~Screen!Larger(s.asked) PROVE s.given = s.asked
    BY <2>1, <2>4 DEF SetRight, Screen!fit_rect
  <2>5. QED
    BY <2>3, <2>4
<1>2. ASSUME viewport.asked = scissor.asked, Screen!SameTarget
      PROVE  viewport.given = scissor.given
  <2>1. SetRight(viewport) /\ SetRight(scissor)
    BY DEF ScreenInv
  <2>2. CASE viewport.on # 0 \/ ~Screen!Larger(viewport.asked)
    BY <1>1, <1>2, <2>2 DEF Screen!SameTarget
  <2>3. CASE viewport.on = 0 /\ Screen!Larger(viewport.asked)
    <3>1. viewport.on = 0 /\ scissor.on = 0 /\ viewport.gone = scissor.gone
      BY <1>2, <2>3 DEF Screen!SameTarget
    <3>2. viewport.gone \in BOOLEAN
      BY DEF ScreenInv, Screen!TypeOK, Screen!RectSets
    <3>3. CASE viewport.gone = TRUE
      BY <1>2, <2>1, <3>1, <3>3 DEF SetRight
    <3>4. CASE viewport.gone = FALSE
      BY <1>2, <2>1, <3>1, <3>4 DEF SetRight
    <3>5. QED
      BY <3>2, <3>3, <3>4
  <2>4. QED
    BY <2>2, <2>3
<1>3. QED
  BY <1>1, <1>2 DEF ScreenInv, FitsScreen, Screen!FitsScreen

\* "Screen-space rects larger than the display are scaled to fit 960x544 ...
\* Off-screen render targets are left alone" (gl_lock.c:256-258): for any
\* rectangles of integers, whatever targets are bound and deleted in between,
\* on every off-screen target and on a screen that the game bound.
THEOREM ScreenSafe == CallsSpec => []FitsScreen
<1>1. CallsInit => ScreenInv
  BY ScreenStart DEF CallsInit
<1>2. ScreenInv /\ [CallsNext]_all => ScreenInv'
  BY Apart, ScreenStep
<1>3. QED
  BY <1>1, <1>2, ScreenFits, PTL DEF CallsSpec
=============================================================================

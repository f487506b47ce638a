----------------------------- MODULE AssetStream -----------------------------
(***************************************************************************)
(* Android's AssetManager over the files on the card                       *)
(* (loader/jni_patch.c:95-203,353-382): streams with a position of their   *)
(* own next to the kernel's, the exception a failed open leaves behind     *)
(* (:418-420), and memory.cfg, which is read whole and rewritten.          *)
(*                                                                         *)
(* A file is a sequence; in memory.cfg its elements are the words and      *)
(* signs that the rewriting tells apart, " " standing for a tab as well.   *)
(* The dump of the file to the log is left out, and there is memory for    *)
(* streams.  The game closes a stream once and reads no closed one.        *)
(***************************************************************************)
EXTENDS Integers, Sequences, FiniteSets, SequencesExt

CONSTANTS
    Threads,
    Handles, Fds,
    Cards,         \* what the card may hold: functions from names to files
    Kind,          \* what asset_open sees in a name
    ErrorMissing,  \* errormissing.fxo
    BankMax,       \* 64 MB
    memcfg_rules,  \* names and sizes, in order
    Lengths,       \* of reads and skips
    Shorts         \* by how much the card may fail to deliver memory.cfg, 0 if it does not

NoFd == -1
NULL == 0

AssetsAssumption ==
    /\ Handles \subseteq Nat \ {NULL} /\ Fds \subseteq Nat
    /\ Lengths \subseteq Nat \ {0} /\ Shorts \subseteq Nat
    /\ \A c \in Cards : \A name \in DOMAIN c : c[name] \in Seq(Range(c[name]))

VARIABLES
    card,
    kernel,        \* a function from the open descriptors to [name, off]
    streams,       \* a function from the open streams to [fd, size, pos, mem]
    pending_exception,
    pc, ret, seen, \* per thread, of open: where it is, its result, was it told of an exception
    taken,         \* per thread, did another clear the exception before it asked (history)
    want, at,      \* per open stream: what the game should read, and where it is
    got            \* the read just done: its place, what came, and whether it was the end

game == <<pc, ret, seen, taken>>
vars == <<card, kernel, streams, pending_exception, game, want, at, got>>

Nothing == <<>>
NoRead == [from |-> <<>>, at |-> 0, data |-> <<>>, end |-> FALSE]
Init ==
    /\ card \in Cards
    /\ kernel = Nothing /\ streams = Nothing /\ want = Nothing /\ at = Nothing
    /\ pending_exception = FALSE
    /\ pc = [t \in Threads |-> "idle"]
    /\ ret = [t \in Threads |-> NULL] /\ seen = [t \in Threads |-> FALSE]
    /\ taken = [t \in Threads |-> FALSE]
    /\ got = NoRead

With(f, k, v) == [x \in DOMAIN f \cup {k} |-> IF x = k THEN v ELSE f[x]]
Without(f, k) == [x \in DOMAIN f \ {k} |-> f[x]]
FirstOf(S) == CHOOSE x \in S : \A y \in S : x <= y

----------------------------------------------------------------------------
(* rewrite_memcfg *)

Is(f, i, S) == i \in DOMAIN f /\ f[i] \in S
Named(f, i, name) ==
    /\ i < Len(f) /\ f[i] = name
    /\ i = 1 \/ Is(f, i - 1, {" "})
    /\ Is(f, i + 1, {" "})

\* The first "size=" from j on, or the end of the line.
SizeFrom(f, j) == FirstOf({k \in j..(Len(f) + 1) : k > Len(f) \/ f[k] \in {"\n", "size="}})

\* Where the value from "vs" on ends: at a sign that is in no braces.
EndOfValue(f) ==
    LET E[ve \in Nat, depth \in Int] ==
            CASE ve > Len(f) -> ve
              [] Is(f, ve, {"{"}) -> E[ve + 1, depth + 1]
              [] Is(f, ve, {"}"}) -> E[ve + 1, depth - 1]
              [] depth = 0 /\ f[ve] \in {",", "]", " ", "\n"} -> ve
              [] OTHER -> E[ve + 1, depth]
    IN  E
ValueEndFlat(f, vs) ==                                               \* mutant
    FirstOf({k \in vs..(Len(f) + 1) : k > Len(f) \/ f[k] \in {",", "]", " ", "\n", "}"}})
ValueEnd(f, vs) == EndOfValue(f)[vs, 0]

Applied(rule) ==
    LET A[f \in Seq(STRING), i \in Nat] ==
            LET j == SizeFrom(f, i + 1)
                ve == ValueEnd(f, j + 1)
            IN  CASE i >= Len(f) -> f
                  [] ~Named(f, i, rule.name) \/ ~Is(f, j, {"size="}) -> A[f, i + 1]
                  [] OTHER -> A[SubSeq(f, 1, j) \o <<rule.size>> \o SubSeq(f, ve, Len(f)), j + 3]
    IN  A
rewrite_memcfg(f) == FoldLeft(LAMBDA g, rule : Applied(rule)[g, 1], f, memcfg_rules)

\* What the rules ask for: each "size=" that is the first behind a ruled name in
\* its line gets the size of the last such rule for its value.
Depth(f, a, b) ==
    Cardinality({i \in a..b : f[i] = "{"}) - Cardinality({i \in a..b : f[i] = "}"})
Region(f, j) ==
    LET ends == {e \in (j + 1)..Len(f) : f[e] \in {",", "]", " ", "\n"} /\ Depth(f, j + 1, e - 1) = 0}
    IN  {p \in (j + 1)..Len(f) : \A e \in ends : p < e}
RulesAt(f, j) ==
    {r \in DOMAIN memcfg_rules :
        \E i \in 1..(j - 1) :
            /\ Named(f, i, memcfg_rules[r].name)
            /\ \A k \in (i + 1)..(j - 1) : f[k] \notin {"size=", "\n"}}
Ruled(f) ==
    LET sizes == {j \in DOMAIN f : f[j] = "size=" /\ RulesAt(f, j) # {}}
        Piece(p) ==
            CASE p \in sizes -> <<"size=", memcfg_rules[CHOOSE r \in RulesAt(f, p) : \A q \in RulesAt(f, p) : q <= r].size>>
              [] \E j \in sizes : p \in Region(f, j) -> <<>>
              [] OTHER -> <<f[p]>>
    IN  FlattenSeq([p \in DOMAIN f |-> Piece(p)])

----------------------------------------------------------------------------
(* The calls of the game *)

FreeFds == Fds \ DOMAIN kernel
\* sceIoOpen: the name that is opened, if any is.
Opened(name) ==
    IF FreeFds = {} THEN {}
    ELSE IF name \in DOMAIN card THEN {name}
    ELSE IF Kind[name] = "shader" THEN {ErrorMissing} \cap DOMAIN card
    ELSE {}

Returned(t, h) ==
    /\ ret' = [ret EXCEPT ![t] = h] /\ pc' = [pc EXCEPT ![t] = "called"]
    /\ taken' = [taken EXCEPT ![t] = FALSE]
Throw(t) == pending_exception' = TRUE /\ Returned(t, NULL) /\ UNCHANGED <<streams, want, at>>
Stream(h, s, text) ==
    /\ streams' = With(streams, h, s)
    /\ want' = With(want, h, text)
    /\ at' = With(at, h, 0)

OpenMovieOr(t, name, throws) ==
    /\ Kind[name] = "movie"
    /\ IF throws THEN Throw(t) ELSE Returned(t, NULL) /\ UNCHANGED <<pending_exception, streams, want, at>>
    /\ UNCHANGED kernel
OpenMovieQuietly(t, name) == OpenMovieOr(t, name, FALSE)             \* mutant
OpenMovie(t, name) == OpenMovieOr(t, name, TRUE)

OpenMissing(t, name) ==
    /\ Kind[name] # "movie" /\ Opened(name) = {}
    /\ Throw(t)
    /\ UNCHANGED kernel

TooLarge(name) == Kind[name] = "bank" /\ \E n \in Opened(name) : Len(card[n]) > BankMax
OpenTooLarge(t, name, closes) ==
    /\ TooLarge(name)
    /\ Throw(t)
    /\ kernel' = IF closes THEN kernel ELSE With(kernel, FirstOf(FreeFds), [name |-> name, off |-> 0])

\* memory.cfg is read, as far as that goes, closed and rewritten.
OpenConfig(t, name, h) ==
    /\ Kind[name] = "config" /\ Opened(name) # {}
    /\ \E short \in Shorts :
          LET raw == SubSeq(card[name], 1, Len(card[name]) - short)
              text == rewrite_memcfg(raw)
          IN  Stream(h, [fd |-> NoFd, size |-> Len(text), pos |-> 0, mem |-> text], Ruled(raw))
    /\ Returned(t, h)
    /\ UNCHANGED <<kernel, pending_exception>>

OpenFile(t, name, h) ==
    /\ Kind[name] \notin {"movie", "config"} /\ ~TooLarge(name)
    /\ \E n \in Opened(name), fd \in {FirstOf(FreeFds)} :
          /\ kernel' = With(kernel, fd, [name |-> n, off |-> 0])
          /\ Stream(h, [fd |-> fd, size |-> Len(card[n]), pos |-> 0, mem |-> <<>>], card[n])
    /\ Returned(t, h)
    /\ UNCHANGED pending_exception

Open(t, closes) ==
    /\ pc[t] = "idle"
    /\ \E name \in DOMAIN Kind :
          \/ OpenMovie(t, name) \/ OpenMissing(t, name) \/ OpenTooLarge(t, name, closes)
          \/ /\ Handles \ DOMAIN streams # {}
             /\ LET h == FirstOf(Handles \ DOMAIN streams) IN OpenConfig(t, name, h) \/ OpenFile(t, name, h)
    /\ got' = NoRead /\ UNCHANGED <<card, seen>>
OpenUnclosed(t) == Open(t, FALSE)                                    \* mutant
asset_open(t) == Open(t, TRUE)

\* The game asks after the call, and clears an exception it is told of.
ExceptionCheck(t) ==
    /\ pc[t] = "called"
    /\ seen' = [seen EXCEPT ![t] = pending_exception]
    /\ pc' = [pc EXCEPT ![t] = "checked"]
    /\ got' = NoRead /\ UNCHANGED <<card, kernel, streams, pending_exception, ret, taken, want, at>>
ExceptionClear(t) ==
    /\ pc[t] = "checked"
    /\ pending_exception' = (pending_exception /\ ~seen[t])
    /\ taken' = [u \in Threads |-> taken[u] \/ (seen[t] /\ pc[u] = "called")]
    /\ pc' = [pc EXCEPT ![t] = "idle"]
    /\ ret' = [ret EXCEPT ![t] = NULL] /\ seen' = [seen EXCEPT ![t] = FALSE]
    /\ got' = NoRead /\ UNCHANGED <<card, kernel, streams, want, at>>

InMemory(s) == s.fd = NoFd
File(s) == card[kernel[s.fd].name]
Seek(s, p) == IF InMemory(s) THEN kernel ELSE [kernel EXCEPT ![s.fd].off = p]
Least(a, b) == IF a < b THEN a ELSE b

asset_read(h) ==
    LET s == streams[h]
        Came(data, end) == got' = [from |-> want[h], at |-> at[h], data |-> data, end |-> end]
        Advance(n) == streams' = [streams EXCEPT ![h].pos = @ + n] /\ at' = [at EXCEPT ![h] = @ + n]
    IN  /\ \/ /\ s.pos >= s.size
              /\ Came(<<>>, TRUE) /\ UNCHANGED <<kernel, streams, at>>
           \/ /\ s.pos < s.size /\ InMemory(s)
              /\ \E len \in Lengths :
                    LET n == Least(len, s.size - s.pos) IN
                    Came(SubSeq(s.mem, s.pos + 1, s.pos + n), FALSE) /\ Advance(n)
              /\ UNCHANGED kernel
           \/ /\ s.pos < s.size /\ ~InMemory(s)
              /\ \E len \in Lengths :
                    LET off == kernel[s.fd].off
                        n == Least(len, Len(File(s)) - off)
                    IN  /\ Came(SubSeq(File(s), off + 1, off + n), n = 0)
                        /\ kernel' = Seek(s, off + n) /\ Advance(n)
           \/ /\ s.pos < s.size /\ ~InMemory(s)      \* the card fails
              /\ Came(<<>>, FALSE) /\ UNCHANGED <<kernel, streams, at>>
        /\ UNCHANGED <<card, pending_exception, want, game>>

SkipWithin(h, end) ==
    LET s == streams[h] IN
    /\ \E n \in Lengths :
          LET np == Least(s.pos + n, end) IN
          /\ kernel' = Seek(s, np)
          /\ streams' = [streams EXCEPT ![h].pos = np]
          /\ at' = [at EXCEPT ![h] = @ + (np - s.pos)]
    /\ got' = NoRead /\ UNCHANGED <<card, pending_exception, want, game>>
SkipPast(h) == SkipWithin(h, streams[h].size + 1)                    \* mutant
asset_skip(h) == SkipWithin(h, streams[h].size)

ResetIn(h, offsets) ==
    /\ kernel' = offsets
    /\ streams' = [streams EXCEPT ![h].pos = 0]
    /\ at' = [at EXCEPT ![h] = 0]
    /\ got' = NoRead /\ UNCHANGED <<card, pending_exception, want, game>>
ResetPosition(h) == ResetIn(h, kernel)                               \* mutant
asset_reset(h) == ResetIn(h, Seek(streams[h], 0))

asset_close(h) ==
    /\ kernel' = Without(kernel, streams[h].fd)
    /\ streams' = Without(streams, h) /\ want' = Without(want, h) /\ at' = Without(at, h)
    /\ got' = NoRead /\ UNCHANGED <<card, pending_exception, game>>

Next ==
    \/ \E t \in Threads : asset_open(t) \/ ExceptionCheck(t) \/ ExceptionClear(t)
    \/ \E h \in DOMAIN streams : asset_read(h) \/ asset_skip(h) \/ asset_reset(h) \/ asset_close(h)

Spec == Init /\ [][Next]_vars

----------------------------------------------------------------------------

TypeOK ==
    /\ DOMAIN kernel \subseteq Fds /\ DOMAIN streams \subseteq Handles
    /\ \A h \in DOMAIN streams :
          streams[h].fd \in Fds \cup {NoFd} /\ streams[h].pos \in 0..streams[h].size
    /\ pending_exception \in BOOLEAN
    /\ \A t \in Threads : ret[t] \in Handles \cup {NULL}

\* What a read brings is what is at the game's place in the asset, and it finds
\* the end only there, after whatever reads, skips and resets
\* (jni_patch.c:180-198: two positions, the stream's and the kernel's).  A card
\* that fails is told of the same way as the end, and is not counted as one.
ReadsWanted ==
    /\ got.data = SubSeq(got.from, got.at + 1, got.at + Len(got.data))
    /\ got.end => got.at = Len(got.from)

\* Every open descriptor belongs to one open stream: the opens that give up
\* half-way leak none (jni_patch.c:150-178).
FdsOwned ==
    LET onCard == {h \in DOMAIN streams : streams[h].fd # NoFd} IN
    /\ DOMAIN kernel = {streams[h].fd : h \in onCard}
    /\ \A g, h \in onCard : streams[g].fd = streams[h].fd => g = h

\* "Rules match by allocator name (whitespace-delimited) and replace the whole
\* size=... token" (jni_patch.c:109-111), and the stream is as long as the result.
RewriteExact ==
    \A h \in DOMAIN streams :
        /\ InMemory(streams[h]) => streams[h].mem = want[h]
        /\ streams[h].size = Len(want[h])

\* The exception is one flag for all threads (jni_patch.c:101,418): a thread whose
\* open failed is told of it, unless another that asked between the two cleared it;
\* and one that did not fail is told of one only while the open of another did, so
\* that a thread alone is told exactly when its own failed.
NoticesFailure ==
    /\ \A t \in Threads : pc[t] = "checked" /\ ret[t] = NULL /\ ~taken[t] => seen[t]
    /\ pending_exception => \E t \in Threads : pc[t] \in {"called", "checked"} /\ ret[t] = NULL
=============================================================================

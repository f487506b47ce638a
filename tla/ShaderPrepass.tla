---------------------------- MODULE ShaderPrepass ----------------------------
(* The text of a shader on its way to VitaGL's translator
   (default_dynlib.c:70-145): three passes, each into a block of its own that
   the heap may refuse.

   A source is a sequence of lines, a line a sequence of tokens: names, blanks,
   marks.  A pass tells apart only what stands in a token's place, so Width
   gives the characters of the tokens that have more than one. *)
EXTENDS Integers, SequencesExt

CONSTANTS
    Sources,       \* the sources the game gives
    Width(_)       \* the characters of a token

VARIABLES
    pc,            \* the pass to come
    source,        \* what the game gave
    strings,       \* in how many strings
    buf,           \* what the passes so far have made of it
    room,          \* characters in the block buf was written to
    given          \* what VitaGL was given of it, at last

vars == <<pc, source, strings, buf, room, given>>

NotName == {" ", ";", "=", "*=", "*", "+", "(", ")", "{", "}", "#", "//", "(b+c)"}
is_id_char(tok) == tok \notin NotName

LineWidth(line) == FoldLeft(LAMBDA n, tok : n + Width(tok), 0, line)
SourceWidth(src) == FoldLeft(LAMBDA n, line : n + LineWidth(line) + 1, 0, src)
Occurrences(src, tok) == FoldLeft(LAMBDA n, line : n + Len(SelectSeq(line, LAMBDA x : x = tok)), 0, src)
ForEach(src, Pass(_)) == [i \in DOMAIN src |-> Pass(src[i])]

-----------------------------------------------------------------------------
(* The name, with its .swizzle and [index], that ends a line. *)
Trimmed(line) == SubSeq(line, 1, SelectLastInSeq(line, LAMBDA x : x # " "))
LhsUntrimmed(line) ==                                                           \* mutant
    SubSeq(line, SelectLastInSeq(line, LAMBDA x : ~is_id_char(x)) + 1, Len(line))
Lhs(line) ==
    LET t == Trimmed(line)
    IN SubSeq(t, SelectLastInSeq(t, LAMBDA x : ~is_id_char(x)) + 1, Len(t))

ShortOfAny(lhs) == lhs # <<>>                                                   \* mutant
Short(lhs) == LineWidth(lhs) \in 1 .. 47

(* Behind the lhs that is written already, "= lhs *" takes the place of "*=". *)
Expand(line) ==
    FoldLeft(LAMBDA out, tok :
                 IF tok = "*=" /\ Short(Lhs(out))
                 THEN out \o <<"=", " ">> \o Lhs(out) \o <<" ", "*">>
                 ELSE Append(out, tok),
             <<>>, line)
glsl_prepass(src) == ForEach(src, Expand)

rename_tex_sampler(src) ==
    ForEach(src, LAMBDA line : [i \in DOMAIN line |-> IF line[i] = "tex" THEN "s_tex" ELSE line[i]])

(* Braces that are open after n lines. *)
Occurs(src, n, tok) == Occurrences(SubSeq(src, 1, n), tok)
DepthNow(src, n) == 0                                                           \* mutant
Depth(src, n) == Occurs(src, n, "{") - Occurs(src, n, "}")

Qualifiers == {"uniform", "attribute", "varying", "struct", "precision", "const", "invariant", "static"}
Indent(line) == SelectInSeq(line, LAMBDA x : x # " ") - 1
IsGlobal(src, n) ==
    LET t == SubSeq(src[n], Indent(src[n]) + 1, Len(Trimmed(src[n])))
    IN /\ Depth(src, n - 1) = 0
       /\ LineWidth(t) > 2 /\ Last(t) = ";"
       /\ {"(", "(b+c)", "=", "*=", "{", "}"} \cap Range(t) = {}
       /\ Head(t) \notin Qualifiers \cup {"#", "//"}

static_globals(src) ==
    [n \in DOMAIN src |->
        IF IsGlobal(src, n)
        THEN LET b == Indent(src[n])
             IN SubSeq(src[n], 1, b) \o <<"static", " ">> \o SubSeq(src[n], b + 1, Len(src[n]))
        ELSE src[n]]

-----------------------------------------------------------------------------
Init ==
    /\ pc = "idle" /\ source = <<>> /\ strings = 1
    /\ buf = <<>> /\ room = 1 /\ given = <<>>

(* Only a source in one string is worked on. *)
glShaderSource_log(src, n) ==
    /\ pc = "idle"
    /\ source' = src /\ strings' = n /\ buf' = src /\ room' = SourceWidth(src) + 1
    /\ IF n = 1 THEN pc' = "prepass" /\ given' = <<>> ELSE pc' = "idle" /\ given' = src

PassTo(from, to, out, size) ==
    /\ pc = from
    /\ pc' = to /\ buf' = out /\ room' = size
    /\ UNCHANGED <<source, strings, given>>
Prepass ==
    PassTo("prepass", "rename", glsl_prepass(buf), SourceWidth(buf) + 64 * Occurrences(buf, "*=") + 1)
Rename == PassTo("rename", "static", rename_tex_sampler(buf), 2 * SourceWidth(buf) + 64)
Static == PassTo("static", "source", static_globals(buf), SourceWidth(buf) + 7 * (Len(buf) + 1) + 1)

(* The heap is too full for a pass: the source goes through as it is. *)
PassThrough ==
    /\ pc \in {"prepass", "rename", "static"}
    /\ pc' = "idle" /\ given' = source
    /\ UNCHANGED <<source, strings, buf, room>>

Source == pc = "source" /\ pc' = "idle" /\ given' = buf /\ UNCHANGED <<source, strings, buf, room>>

Next ==
    \/ \E src \in Sources, n \in 1 .. 2 : glShaderSource_log(src, n)
    \/ Prepass \/ Rename \/ Static \/ PassThrough \/ Source

Spec == Init /\ [][Next]_vars

-----------------------------------------------------------------------------
TypeOK ==
    /\ pc \in {"idle", "prepass", "rename", "static", "source"}
    /\ source \in Sources \cup {<<>>} /\ strings \in 1 .. 2 /\ room \in Nat

Names(line) == [i \in DOMAIN line |-> IF line[i] = "tex" THEN "s_tex" ELSE line[i]]
Words(line) == SelectSeq(Names(line), LAMBDA x : x \notin {" ", "static"})
OperatorOf(w) == SelectInSeq(w, LAMBDA x : x \in {"=", "*="})
To(w) == SubSeq(w, 1, OperatorOf(w) - 1)
Value(w) == SubSeq(w, OperatorOf(w) + 1, Len(w))
Grouped(v) == IF "+" \in Range(v) THEN <<"(">> \o v \o <<")">> ELSE v

(* What a line means, read as GLSL: blanks and the name given to "tex" aside,
   an assignment says what is assigned to what. *)
Meaning(line) ==
    LET w == Words(line)
        op == OperatorOf(w)
    IN IF op = 0 THEN w
       ELSE <<To(w), IF w[op] = "=" THEN Value(w) ELSE To(w) \o <<"*">> \o Grouped(Value(w))>>

(* "rewrite lhs *= rhs; as lhs = lhs * rhs;" (default_dynlib.c:70-71) *)
AsSaid(line) ==
    LET w == Words(line)
    IN IF "*=" \in Range(w) THEN To(w) \o <<"=">> \o To(w) \o <<"*">> \o Value(w) ELSE w

(* The left sides that the pass can take: names, swizzles and indices that are
   names, with no blank and no operator within, of less than 48 characters. *)
Target(line) ==
    LET t == Trimmed(SubSeq(line, 1, SelectInSeq(line, LAMBDA x : x = "*=") - 1))
    IN SubSeq(t, Indent(t) + 1, Len(t))
Plain(line) == {" ", "+"} \cap Range(Target(line)) = {}
Fits(line) == LineWidth(Target(line)) < 48

Types == {"vec3", "Out"}
(* A variable of the file without an initial value, alone on its line. *)
IsVariable(src, n) ==
    LET w == Words(src[n])
    IN /\ Occurs(src, n, "{") = Occurs(src, n, "}")
       /\ Len(w) >= 3 /\ w[1] \in Types /\ Last(w) = ";" /\ {"(", "="} \cap Range(w) = {}
IsGlobalVariable(src, n) ==
    LET w == Words(src[n])
    IN Occurs(src, n, "{") = Occurs(src, n, "}") /\ Len(w) >= 3 /\ w[1] \in Types /\ w[3] # "("

Done == given # <<>> /\ pc = "idle" /\ given # source
SameLines == Len(given) = Len(source)
StaticLine(n) == "static" \in Range(given[n])

(* "Rewrite lhs *= rhs as lhs = lhs * rhs" (default_dynlib.c:70-71).  VitaGL's
   translator meets no "*=" behind a plain left side of less than 48 characters,
   and the line means what it meant if its right side is a product; of a sum it is
   the first term that is multiplied, as nothing puts it in parentheses.  A longer
   left side is left as it is, and so is every line without "*=".  An index with
   a blank or an operator in it is torn apart: see RewrittenAsSaid. *)
MeansTheSame ==
    Done => /\ SameLines
            /\ \A n \in DOMAIN given :
                LET l == source[n] IN
                /\ "tex" \notin Range(given[n])
                /\ "*=" \notin Range(l) \/ ~Fits(l) => Words(given[n]) = Words(l)
                /\ "*=" \in Range(l) /\ Plain(l) /\ Fits(l) =>
                      /\ "*=" \notin Range(given[n])
                      /\ Words(given[n]) = AsSaid(l)
                      /\ "+" \notin Range(l) => Meaning(given[n]) = Meaning(l)

(* "Prefix static to every file-scope declaration that is not uniform/attribute/
   varying/const/struct/precision" (default_dynlib.c:105), and nothing else: each
   that is alone on its line and has no initial value.  See EveryGlobalStatic. *)
StaticAsDeclared == Done => \A n \in DOMAIN given : StaticLine(n) <=> IsVariable(source, n)

(* What the two comments say without those conditions. *)
RewrittenAsSaid == Done => \A n \in DOMAIN given : Words(given[n]) = AsSaid(source[n])
EveryGlobalStatic == Done => \A n \in DOMAIN given : IsGlobalVariable(source, n) => StaticLine(n)

(* Each pass writes within the block it allocated, whose size it guessed before
   it knew what it would write (default_dynlib.c:74-75,91,108-109). *)
WithinBlock == SourceWidth(buf) <= room
=============================================================================

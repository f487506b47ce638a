------------------------------ MODULE MCGLCalls ------------------------------
(* The calls of GL with two threads and fewer cells, and less memory, than the
   shaders need; what is done behind them, where the entries hold the lock
   throughout: attachment caches, and rectangles of the screen; and the text of
   a shader.  "part" says which of these a behaviour is about. *)
EXTENDS GLLock, SequencesExt

CONSTANTS
    f1, f2, x1, r1, p1,
    Parts,                                        \* that behaviours are about
    Fbos, Textures, Rbs, Levels, Points,          \* of the attachment caches
    CacheSize, MaxBirths,
    Rectangles, Targets                           \* of the screen

Rect(x, y, w, h) == [x |-> x, y |-> y, w |-> w, h |-> h]
MCRects ==
    {Rect(0, 0, 1280, 720), Rect(3, -3, 1280, 720), Rect(0, 0, 1024, 1024), Rect(0, 0, 1000, 500),
     Rect(0, 0, 961, 1), Rect(0, 0, 1920, 544), Rect(700, 400, 300, 200)}

(* A shader declares something and assigns something; its blanks, a struct, the
   name "tex", initial values, comments, sums, indices and left sides of the
   longest length the pass takes and of one more are what the passes look at. *)
Left ==
    {<<"a">>, <<" ", "a", ".", "x", " ">>, <<"tex">>, <<"long">>, <<"longer">>, <<"a", "[", "i", "]">>,
     <<"a", "[", " ", "i", " ", "]">>, <<"a", "[", "i", "+", "b", "]">>}
Right == {<<"b">>, <<" ", "b", "*", "tex">>, <<"(b+c)">>, <<"b", " ", "+", " ", "c">>}
Statements ==
    {l \o <<op>> \o r \o <<";">> : l \in Left, op \in {"=", "*="}, r \in Right}
    \cup {<<"vec3", " ", "a", ";">>}
Declarations ==
    {<<"vec3", " ", "a", ";">>, <<" ", "Out", " ", "tex", ";", " ">>,
     <<"vec3", " ", "a", "=", "b", ";">>, <<"vec3", " ", "a", ";", " ", "//">>,
     <<"uniform", " ", "vec3", " ", "u", ";">>, <<"vec3", " ", "f", "(", "vec3", " ", "a", ")", ";">>}
Struct == << <<"struct", " ", "Out", " ", "{">>, <<"vec3", " ", "tex", ";">>, <<"}", ";">> >>
Main == << <<"void", " ", "main", "(", ")">>, <<"{">> >>
ShaderOf(d, st) == Struct \o <<d>> \o Main \o <<st, <<"}">> >>
PlainVariable == <<"vec3", " ", "a", ";">>
GivenSources == {ShaderOf(d, PlainVariable) : d \in Declarations} \cup {ShaderOf(PlainVariable, st) : st \in Statements}
Widths ==
    [vec3 |-> 4, void |-> 4, main |-> 4, Out |-> 3, tex |-> 3, s_tex |-> 5, struct |-> 6,
     static |-> 6, uniform |-> 7, long |-> 47, longer |-> 48] @@ ("*=" :> 2) @@ ("//" :> 2) @@ ("(b+c)" :> 5)
CharsOf(tok) == IF tok \in DOMAIN Widths THEN Widths[tok] ELSE 1

VARIABLES
    part,
    births, alive, bound, texAt, rbAt, surfaces, cur_fbo, texCache, rbCache, texAsked, rbAsked,
    target, active_fb, gone, viewport, scissor,
    ppc, source, strings, buf, room, given

Cache == INSTANCE FboCache
ASSUME CacheAssumption == Cache!CacheAssumption

Screen == INSTANCE ScreenRects WITH Rects <- Rectangles, Fbos <- Targets, cur_fbo <- target
ASSUME RectAssumption == Screen!RectAssumption

Text == INSTANCE ShaderPrepass WITH Sources <- GivenSources, Width <- CharsOf, pc <- ppc

cacheVars == <<births, alive, bound, texAt, rbAt, surfaces, cur_fbo, texCache, rbCache, texAsked, rbAsked>>
rectVars == <<target, active_fb, gone, viewport, scissor>>
textVars == <<ppc, source, strings, buf, room, given>>
others == <<cacheVars, rectVars, textVars>>
all == <<part, vars, others>>

CallsInit == part \in Parts /\ Init /\ Cache!Init /\ Screen!Init /\ Text!Init
Do(A) == part = "calls" /\ A /\ UNCHANGED <<part, others>>
CallsNext ==
    \/ Do(Next)
    \/ part = "cache" /\ Cache!Next /\ UNCHANGED <<part, vars, rectVars, textVars>>
    \/ part = "rects" /\ Screen!Next /\ UNCHANGED <<part, vars, cacheVars, textVars>>
    \/ part = "text" /\ Text!Next /\ UNCHANGED <<part, vars, cacheVars, rectVars>>
CallsSpec ==
    /\ CallsInit /\ [][CallsNext]_all
    /\ \A t \in Threads : WF_all(Do(Working(t))) /\ SF_all(Do(Lock(t)))

(* "Skip attaches that change nothing" (gl_lock.c:155): what the game attached
   last is attached, through deletes and a full cache; for textures as long as
   their names are not used again; what is remembered is not repeated
   (gl_lock.c:124-169). *)
AttachedAsAsked == Cache!TypeOK /\ Cache!RbAttached /\ Cache!FirstTextureAttached /\ Cache!NoLeak

(* "Skip attaches that change nothing" (gl_lock.c:155), whatever names are
   used again. *)
TextureAttached == Cache!TextureAttached

(* "Screen-space rects larger than the display are scaled to fit 960x544 [...]
   Off-screen render targets are left alone" (gl_lock.c:256-258), while the
   target is one that the game bound. *)
FitsScreen == Screen!FitsScreen

(* "Screen-space rects larger than the display are scaled to fit 960x544"
   (gl_lock.c:256-258), whenever it is the screen that they are set on. *)
AnyScreenFits == Screen!AnyScreenFits

(* VitaGL is given the shader as it was written or one without "tex", without
   implicit uniforms but initialised ones, and without "*=" behind plain left
   sides of less than 48 characters, where products mean what they meant; and no
   pass writes past its block (default_dynlib.c:70-145). *)
PrepassMeans == Text!TypeOK /\ Text!MeansTheSame /\ Text!StaticAsDeclared /\ Text!WithinBlock
=============================================================================

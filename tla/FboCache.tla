------------------------------- MODULE FboCache -------------------------------
(***************************************************************************)
(* The attachment caches of loader/gl_lock.c: VitaGL allocates on every    *)
(* attach, so attaches that would change nothing are not passed on.  Every *)
(* entry holds gl_lock throughout, so an entry is one step.                *)
(*                                                                         *)
(* VitaGL's side (external): names are handed out again after a delete,    *)
(* which is why an object here is a name together with its incarnation; a  *)
(* deleted framebuffer is unbound, and a deleted object is detached from   *)
(* the bound framebuffer only; attaching a texture allocates a surface.    *)
(***************************************************************************)
EXTENDS Integers, FiniteSets

CONSTANTS
    Fbos,             \* framebuffer names
    Textures, Rbs,    \* texture and renderbuffer names
    Levels,           \* mip levels
    Points,           \* attachment points
    CacheSize,        \* 256
    MaxBirths         \* bound: incarnations of a name

\* Names of the three kinds are told apart, and 0 is none.
CacheAssumption ==
    /\ 0 \notin Fbos \cup Textures \cup Rbs
    /\ Fbos \cap (Textures \cup Rbs) = {} /\ Textures \cap Rbs = {}
    /\ 0 \in Levels /\ CacheSize \in Nat /\ MaxBirths \in Nat

VARIABLES
    births,      \* per name, how often it was generated
    alive,       \* the names in use
    bound,       \* VitaGL's bound framebuffer, 0 for the screen
    texAt, rbAt, \* VitaGL's attachments, per framebuffer and point
    surfaces,    \* surfaces VitaGL allocated for the present texture, up to 2
    cur_fbo,
    texCache,    \* fbo_attach_cache, from <<fbo, point>> to <<texture, level>>
    rbCache,     \* fbo_rb_cache, from <<fbo, point>> to <<renderbuffer, 0>>
    texAsked, rbAsked  \* what the game attached last, while it exists (history)

game == <<texAsked, rbAsked>>
vars == <<births, alive, bound, texAt, rbAt, surfaces, cur_fbo, texCache, rbCache, game>>

Names == Fbos \cup Textures \cup Rbs
Keys == Fbos \X Points
Screen == 0
Nothing == <<>>
Invalid == <<0, 0>>      \* 0xFFFFFFFF in the cache: a name that does not exist

\* The object a name stands for now.
Object(n) == <<n, births[n]>>

Init ==
    /\ births = [n \in Names |-> 0]
    /\ alive = {}
    /\ bound = Screen /\ cur_fbo = Screen
    /\ texAt = [k \in Keys |-> Nothing] /\ rbAt = [k \in Keys |-> Nothing]
    /\ surfaces = [k \in Keys |-> 0]
    /\ texCache = [k \in {} |-> Invalid] /\ rbCache = [k \in {} |-> Invalid]
    /\ texAsked = [k \in Keys |-> Nothing] /\ rbAsked = [k \in Keys |-> Nothing]

\* mutant: a new key without a look at the size
PutAlways(cache, key, obj) ==
    [k \in DOMAIN cache \cup {key} |-> IF k = key THEN obj ELSE cache[k]]
\* A cache with obj at key; a new key only while there is room.
Put(cache, key, obj) ==
    IF key \in DOMAIN cache \/ Cardinality(DOMAIN cache) < CacheSize
    THEN [k \in DOMAIN cache \cup {key} |-> IF k = key THEN obj ELSE cache[k]]
    ELSE cache

Cached(cache, key, obj) == key \in DOMAIN cache /\ cache[key] = obj

\* A cache with the entries of some keys made to match nothing.
Forget(cache, stale) == [k \in DOMAIN cache |-> IF k \in stale THEN Invalid ELSE cache[k]]

\* Attachments without those of some keys.
Without(at, gone) == [k \in Keys |-> IF k \in gone THEN Nothing ELSE at[k]]
\* The keys of framebuffer f, and those where object o is attached.
KeysOf(f) == {k \in Keys : k[1] = f}
KeysWith(at, o) == {k \in Keys : at[k] # Nothing /\ at[k][1] = o}

Gen(n) ==
    /\ n \notin alive /\ births[n] < MaxBirths
    /\ alive' = alive \cup {n}
    /\ births' = [births EXCEPT ![n] = @ + 1]
    /\ UNCHANGED <<bound, texAt, rbAt, surfaces, cur_fbo, texCache, rbCache, game>>

glBindFramebuffer(f) ==
    /\ f \in alive \cup {Screen}
    /\ cur_fbo' = f
    /\ bound' = f
    /\ UNCHANGED <<births, alive, texAt, rbAt, surfaces, texCache, rbCache, game>>

DeleteFramebufferForgetting(f, tex, rb) ==
    /\ f \in alive
    /\ texCache' = tex /\ rbCache' = rb
    /\ alive' = alive \ {f}
    /\ bound' = IF bound = f THEN Screen ELSE bound
    /\ texAt' = Without(texAt, KeysOf(f))
    /\ rbAt' = Without(rbAt, KeysOf(f))
    /\ surfaces' = [k \in Keys |-> IF k \in KeysOf(f) THEN 0 ELSE surfaces[k]]
    /\ texAsked' = Without(texAsked, KeysOf(f))
    /\ rbAsked' = Without(rbAsked, KeysOf(f))
    /\ UNCHANGED <<births, cur_fbo>>

\* mutant: only the renderbuffers of a deleted framebuffer are forgotten
DeleteFramebufferRbOnly(f) ==
    DeleteFramebufferForgetting(f, texCache, Forget(rbCache, KeysOf(f)))
glDeleteFramebuffers(f) ==
    DeleteFramebufferForgetting(f, Forget(texCache, KeysOf(f)),
                                   Forget(rbCache, KeysOf(f)))

DeleteRenderbufferForgetting(r, cache) ==
    /\ r \in alive
    /\ rbCache' = cache
    /\ alive' = alive \ {r}
    /\ rbAt' = Without(rbAt, KeysOf(bound) \cap KeysWith(rbAt, Object(r)))
    /\ rbAsked' = Without(rbAsked, KeysWith(rbAsked, Object(r)))
    /\ UNCHANGED <<births, bound, texAt, surfaces, cur_fbo, texCache, texAsked>>

DeleteRenderbufferOnly(r) == DeleteRenderbufferForgetting(r, rbCache)       \* mutant
glDeleteRenderbuffers(r) ==
    DeleteRenderbufferForgetting(r, Forget(rbCache, {k \in DOMAIN rbCache : rbCache[k] = <<r, 0>>}))

\* The texture cache is left alone.
glDeleteTextures(x) ==
    /\ x \in alive
    /\ alive' = alive \ {x}
    /\ texAt' = Without(texAt, KeysOf(bound) \cap KeysWith(texAt, Object(x)))
    /\ texAsked' = Without(texAsked, KeysWith(texAsked, Object(x)))
    /\ UNCHANGED <<births, bound, rbAt, surfaces, cur_fbo, texCache, rbCache, rbAsked>>

\* The game attaches to a framebuffer it bound, never to the screen.
glFramebufferRenderbuffer(p, r) ==
    LET here == <<bound, p>> IN
    /\ bound # Screen /\ r \in alive
    /\ rbAsked' = [rbAsked EXCEPT ![here] = <<Object(r), 0>>]
    /\ IF Cached(rbCache, <<cur_fbo, p>>, <<r, 0>>)
       THEN UNCHANGED <<rbCache, rbAt>>
       ELSE /\ rbCache' = Put(rbCache, <<cur_fbo, p>>, <<r, 0>>)
            /\ rbAt' = [rbAt EXCEPT ![here] = <<Object(r), 0>>]
    /\ UNCHANGED <<births, alive, bound, texAt, surfaces, cur_fbo, texCache, texAsked>>

TextureSkippedIf(p, x, l, skip) ==
    LET here == <<bound, p>> IN
    /\ bound # Screen /\ x \in alive
    /\ texAsked' = [texAsked EXCEPT ![here] = <<Object(x), l>>]
    /\ IF skip
       THEN UNCHANGED <<texCache, texAt, surfaces>>
       ELSE /\ texCache' = Put(texCache, <<cur_fbo, p>>, <<x, l>>)
            /\ texAt' = [texAt EXCEPT ![here] = <<Object(x), l>>]
            /\ surfaces' = [surfaces EXCEPT ![here] =
                               IF texAt[here] = <<Object(x), l>> THEN 2 ELSE 1]
    /\ UNCHANGED <<births, alive, bound, rbAt, cur_fbo, rbCache, rbAsked>>

\* mutants: the level is not compared; nothing is skipped
TextureAnyLevel(p, x, l) ==
    TextureSkippedIf(p, x, l, \E k \in Levels : Cached(texCache, <<cur_fbo, p>>, <<x, k>>))
TextureAlways(p, x, l) == TextureSkippedIf(p, x, l, FALSE)
glFramebufferTexture2D(p, x, l) ==
    TextureSkippedIf(p, x, l, Cached(texCache, <<cur_fbo, p>>, <<x, l>>))

Next ==
    \/ \E n \in Names : Gen(n)
    \/ \E f \in Fbos \cup {Screen} : glBindFramebuffer(f)
    \/ \E f \in Fbos : glDeleteFramebuffers(f)
    \/ \E r \in Rbs : glDeleteRenderbuffers(r)
    \/ \E x \in Textures : glDeleteTextures(x)
    \/ \E p \in Points, r \in Rbs : glFramebufferRenderbuffer(p, r)
    \/ \E p \in Points, x \in Textures, l \in Levels : glFramebufferTexture2D(p, x, l)

Spec == Init /\ [][Next]_vars

----------------------------------------------------------------------------

Attachment == {Nothing} \cup (((Textures \cup Rbs) \X (0..MaxBirths)) \X Levels)

\* Types; the caches never outgrow their arrays and their keys are those the
\* game attached to, never ones made under a stale cur_fbo (gl_lock.c:37-40,48).
TypeOK ==
    /\ births \in [Names -> 0..MaxBirths] /\ alive \subseteq Names
    /\ bound \in (Fbos \cap alive) \cup {Screen}
    /\ cur_fbo \in Fbos \cup {Screen}
    /\ \A k \in Keys : {texAt[k], rbAt[k], texAsked[k], rbAsked[k]} \subseteq Attachment
    /\ surfaces \in [Keys -> 0..2]
    /\ DOMAIN texCache \subseteq Keys /\ Cardinality(DOMAIN texCache) <= CacheSize
    /\ DOMAIN rbCache \subseteq Keys /\ Cardinality(DOMAIN rbCache) <= CacheSize
    /\ \A k \in DOMAIN texCache : texCache[k] \in (Textures \X Levels) \cup {Invalid}
    /\ \A k \in DOMAIN rbCache : rbCache[k] \in (Rbs \X {0}) \cup {Invalid}

\* The renderbuffer the game attached last is attached, whatever was skipped,
\* through any sequence of deletes and reuse of names (gl_lock.c:124,126,143-153).
RbAttached == \A k \in Keys : rbAsked[k] # Nothing => rbAt[k] = rbAsked[k]

\* "Skip attaches that change nothing" (gl_lock.c:155): the texture the game
\* attached last is attached.
TextureAttached == \A k \in Keys : texAsked[k] # Nothing => texAt[k] = texAsked[k]

\* The same as long as the texture's name is used for the first time.
FirstTextureAttached ==
    \A k \in Keys :
        texAsked[k] # Nothing /\ texAsked[k][1][2] = 1 => texAt[k] = texAsked[k]

\* Where the cache has an entry, attaching again what is attached allocates
\* nothing: the leak the cache was built against (gl_lock.c:154-155).
NoLeak == \A k \in DOMAIN texCache : surfaces[k] < 2
=============================================================================

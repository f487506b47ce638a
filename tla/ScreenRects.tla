----------------------------- MODULE ScreenRects -----------------------------
(* The rectangles of the screen (gl_lock.c:256-273): VitaGL has one viewport
   and one scissor for every render target, and the ones the game sets while
   the screen is its target are made to fit the display.  The bridge takes the
   target from the game's calls to bind one; VitaGL, which goes back to the
   screen when the target is deleted, has its own.

   The scale is a float in the code and an exact fraction here: Rects has no
   rectangle whose scaled edges lie on a rounding boundary, the only place
   where the two could differ. *)
EXTENDS Integers

CONSTANTS
    Rects,         \* the rectangles the game asks for, [x, y, w, h]
    Fbos           \* the render targets other than the screen, which is 0

RectAssumption ==
    Rects \subseteq [x : Int, y : Int, w : Nat, h : Nat] /\ 0 \notin Fbos

VARIABLES
    cur_fbo,       \* what glBindFramebuffer_locked was last given
    active_fb,     \* the target VitaGL draws on
    gone,          \* that is the screen because the one bound last was deleted (history)
    viewport,      \* VitaGL's viewport: what was asked for, on which target,
    scissor        \* and what VitaGL was given; its scissor, the same

fbVars == <<cur_fbo, active_fb, gone>>
vars == <<fbVars, viewport, scissor>>

DISP_W == 960
DISP_H == 544
Display == [x |-> 0, y |-> 0, w |-> DISP_W, h |-> DISP_H]

(* C's conversions: of n/d to an integer, and of n/d + 0.5 for n >= 0. *)
Trunc(n, d) == IF n >= 0 THEN n \div d ELSE -((-n) \div d)
Rounded(n, d) == (2 * n + d) \div (2 * d)

Larger(r) == r.w > DISP_W \/ r.h > DISP_H

(* The smaller of DISP_W/w and DISP_H/h, as <<numerator, denominator>>. *)
Scale(r) == IF DISP_W * r.h <= DISP_H * r.w THEN <<DISP_W, r.w>> ELSE <<DISP_H, r.h>>

fit_rectByWidth(target, r) ==                                                 \* mutant
    IF target # 0 \/ ~Larger(r)
    THEN r
    ELSE LET nh == Rounded(r.h * DISP_W, r.w)
         IN [x |-> Trunc(r.x * DISP_W, r.w), y |-> Trunc(r.y * DISP_W, r.w) + (DISP_H - nh) \div 2,
             w |-> DISP_W, h |-> nh]
fit_rect(target, r) ==
    IF target # 0 \/ ~Larger(r)
    THEN r
    ELSE LET n == Scale(r)[1]
             d == Scale(r)[2]
             nw == Rounded(r.w * n, d)
             nh == Rounded(r.h * n, d)
         IN [x |-> Trunc(r.x * n, d) + (DISP_W - nw) \div 2,
             y |-> Trunc(r.y * n, d) + (DISP_H - nh) \div 2,
             w |-> nw, h |-> nh]

Set(r) == [asked |-> r, on |-> active_fb, gone |-> gone, given |-> fit_rect(cur_fbo, r)]

-----------------------------------------------------------------------------
(* main sets the viewport before the game runs (main.c:519); VitaGL's own
   scissor is the display. *)
Init ==
    /\ cur_fbo = 0 /\ active_fb = 0 /\ gone = FALSE
    /\ viewport = [asked |-> Display, on |-> 0, gone |-> FALSE, given |-> Display]
    /\ scissor = viewport

glBindFramebuffer_lockedFirst(f) ==                                           \* mutant
    /\ cur_fbo' = IF cur_fbo = 0 THEN f ELSE cur_fbo
    /\ active_fb' = f /\ gone' = FALSE
    /\ UNCHANGED <<viewport, scissor>>
glBindFramebuffer_locked(f) ==
    /\ cur_fbo' = f
    /\ active_fb' = f /\ gone' = FALSE
    /\ UNCHANGED <<viewport, scissor>>

(* The bridge forgets what was attached to f (FboCache), not that f was bound. *)
glDeleteFramebuffers_locked(f) ==
    /\ active_fb' = IF active_fb = f THEN 0 ELSE active_fb
    /\ gone' = (gone \/ active_fb = f)
    /\ UNCHANGED <<cur_fbo, viewport, scissor>>

glViewport_locked(r) == viewport' = Set(r) /\ UNCHANGED <<fbVars, scissor>>
glScissor_locked(r) == scissor' = Set(r) /\ UNCHANGED <<fbVars, viewport>>

Next ==
    \/ \E f \in Fbos \cup {0} : glBindFramebuffer_locked(f)
    \/ \E f \in Fbos : glDeleteFramebuffers_locked(f)
    \/ \E r \in Rects : glViewport_locked(r) \/ glScissor_locked(r)

Spec == Init /\ [][Next]_vars

-----------------------------------------------------------------------------
RectSets == [asked : Rects \cup {Display}, on : Fbos \cup {0}, gone : BOOLEAN,
             given : [x : Int, y : Int, w : Nat, h : Nat]]
TypeOK ==
    /\ cur_fbo \in Fbos \cup {0} /\ active_fb \in Fbos \cup {0} /\ gone \in BOOLEAN
    /\ viewport \in RectSets /\ scissor \in RectSets

Magnitude(n) == IF n < 0 THEN -n ELSE n

(* Fitting leaves nothing out, spares no room and keeps the shape: within half
   a pixel, g has the proportions of a. *)
Fits(a, g) ==
    /\ g.w <= DISP_W /\ g.h <= DISP_H
    /\ g.w = DISP_W \/ g.h = DISP_H
    /\ 2 * Magnitude(g.w * a.h - g.h * a.w) <= a.w + a.h
    /\ a.x = 0 /\ a.y = 0 =>
        /\ g.x >= 0 /\ g.y >= 0 /\ g.x + g.w <= DISP_W /\ g.y + g.h <= DISP_H
        /\ Magnitude(2 * g.x + g.w - DISP_W) <= 1 /\ Magnitude(2 * g.y + g.h - DISP_H) <= 1

SameTarget == (viewport.on = 0 <=> scissor.on = 0) /\ viewport.gone = scissor.gone

(* "Screen-space rects larger than the display are scaled to fit 960x544 ...
   Off-screen render targets are left alone" (gl_lock.c:256-258), whichever
   target is bound by now; and a scissor that was the viewport's rectangle is
   still the viewport's rectangle, if both were set on the screen.  The screen is
   one that the game bound: see AnyScreenFits. *)
FitsScreen ==
    /\ TypeOK
    /\ \A s \in {viewport, scissor} :
        /\ s.on # 0 \/ ~Larger(s.asked) => s.given = s.asked
        /\ s.on = 0 /\ ~s.gone /\ Larger(s.asked) => Fits(s.asked, s.given)
    /\ viewport.asked = scissor.asked /\ SameTarget => viewport.given = scissor.given

(* "Screen-space rects larger than the display are scaled to fit 960x544;
   otherwise everything beyond 960x544 is simply clipped" (gl_lock.c:256-258):
   also when it is the screen again because the target was deleted
   (gl_lock.c:124). *)
AnyScreenFits ==
    \A s \in {viewport, scissor} : s.on = 0 /\ Larger(s.asked) => Fits(s.asked, s.given)
=============================================================================

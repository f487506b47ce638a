------------------------------ MODULE Controls ------------------------------
(***************************************************************************)
(* The input that loader/main.c:602-638 reports to the game, frame by      *)
(* frame: changed buttons, sticks out of their dead zone, and up to two    *)
(* fingers of the touch panel, each as a pointer, the first as a mouse     *)
(* too.  Positions are left out.  The game's view of each pointer follows  *)
(* the events it was sent.                                                 *)
(***************************************************************************)
EXTENDS Integers, Sequences, FiniteSets

CONSTANTS
    Buttons,
    Sticks,      \* what a stick can say, 0 at rest
    Near,        \* those within the dead zone
    Fingers,     \* ids the panel gives to fingers
    MaxReports   \* at least one finger more than the pointers

Slots == {0, 1}
Views == {"up", "down", "broken"}

VARIABLES
    at,            \* the finger whose turn it is, 0 between frames
    td,            \* the fingers the panel reports in this frame
    prev_buttons, prev_axis,
    on, vid, seen, \* per pointer: is it down, whose is it, was it reported
    held, axis,    \* the game's view: buttons down, the stick
    touch, mouse,  \* the game's view: pointers, the mouse
    before         \* the fingers of the frame before (history)

vars == <<at, td, prev_buttons, prev_axis, on, vid, seen, held, axis, touch, mouse, before>>
pad == <<prev_buttons, prev_axis, held, axis>>

NoFinger == 0
Init ==
    /\ at = 0 /\ td = <<>> /\ before = {}
    /\ prev_buttons = {} /\ prev_axis = 0 /\ held = {} /\ axis = 0
    /\ on = [s \in Slots |-> FALSE] /\ vid = [s \in Slots |-> NoFinger]
    /\ seen = [s \in Slots |-> FALSE]
    /\ touch = [s \in Slots |-> "up"] /\ mouse = "up"

\* The view after an event; one that does not fit breaks it for good.
After(view, event) ==
    CASE event = "DOWN" /\ view = "up" -> "down"
      [] event = "MOVE" /\ view = "down" -> "down"
      [] event = "UP" /\ view = "down" -> "up"
      [] OTHER -> "broken"

Reports == {r \in UNION {[1..n -> Fingers] : n \in 0..MaxReports} :
                \A i, j \in DOMAIN r : i # j => r[i] # r[j]}

\* The pad and the sticks are sampled and reported, then the panel is.
DeadZone(x, zone) == IF x \in zone THEN 0 ELSE x
FrameWith(zone) ==
    /\ at = 0
    /\ \E buttons \in SUBSET Buttons, x \in Sticks :
          LET changed == (buttons \cup prev_buttons) \ (buttons \cap prev_buttons) IN
          /\ held' = (held \cup (changed \cap buttons)) \ (changed \ buttons)
          /\ prev_buttons' = buttons
          /\ axis' = IF DeadZone(x, zone) # prev_axis THEN DeadZone(x, zone) ELSE axis
          /\ prev_axis' = DeadZone(x, zone)
    /\ td' \in Reports
    /\ at' = 1
    /\ seen' = [s \in Slots |-> FALSE]
    /\ UNCHANGED <<on, vid, touch, mouse, before>>

FrameJittery == FrameWith({})                                        \* mutant
Frame == FrameWith(Near)

\* One finger: its pointer, else a free one, else none in this frame.
First(slots) == IF 0 \in slots THEN 0 ELSE 1
SlotAmong(f, slots) ==
    LET its == {s \in Slots : on[s] /\ vid[s] = f}
        free == {s \in slots : ~on[s] /\ ~seen[s]}
    IN  IF its # {} THEN its ELSE IF free # {} THEN {First(free)} ELSE {}
SlotForFirst(f) == SlotAmong(f, {0})                                 \* mutant
SlotFor(f) == SlotAmong(f, Slots)
FingerIn(slots) ==
    /\ at \in DOMAIN td
    /\ at' = at + 1
    /\ IF slots = {} THEN UNCHANGED <<on, vid, seen, touch, mouse>>
       ELSE LET s == First(slots)
                event == IF on[s] THEN "MOVE" ELSE "DOWN"
            IN  /\ touch' = [touch EXCEPT ![s] = After(@, event)]
                /\ mouse' = IF s = 0 THEN After(mouse, event) ELSE mouse
                /\ on' = [on EXCEPT ![s] = TRUE]
                /\ vid' = [vid EXCEPT ![s] = td[at]]
                /\ seen' = [seen EXCEPT ![s] = TRUE]
    /\ UNCHANGED <<td, before, pad>>

FingerUnseen == FingerIn({s \in Slots : ~seen[s]})                   \* mutant
Finger == FingerIn(SlotFor(td[at]))

\* The pointers no finger was reported for go up.
LiftIf(gone, mouseFor) ==
    /\ at = Len(td) + 1
    /\ touch' = [s \in Slots |-> IF s \in gone THEN After(touch[s], "UP") ELSE touch[s]]
    /\ mouse' = IF gone \cap mouseFor # {} THEN After(mouse, "UP") ELSE mouse
    /\ on' = [s \in Slots |-> on[s] /\ s \notin gone]
    /\ before' = {td[i] : i \in DOMAIN td}
    /\ at' = 0
    /\ UNCHANGED <<td, vid, seen, pad>>

Gone == {s \in Slots : on[s] /\ ~seen[s]}
LiftNoMouse == LiftIf(Gone, {})                                      \* mutant
LiftAll == LiftIf({s \in Slots : ~seen[s]}, {0})                     \* mutant
Lift == LiftIf(Gone, {0})

Next == Frame \/ Finger \/ Lift

Spec == Init /\ [][Next]_vars

----------------------------------------------------------------------------

TypeOK ==
    /\ at \in 0..(MaxReports + 1)
    /\ on \in [Slots -> BOOLEAN] /\ seen \in [Slots -> BOOLEAN]
    /\ vid \in [Slots -> Fingers \cup {NoFinger}]
    /\ touch \in [Slots -> Views] /\ mouse \in Views
    /\ held \subseteq Buttons

\* Every pointer, and the mouse, is sent downs and ups in turn with moves only
\* in between, and the mouse does what pointer 0 does (main.c:629-636).
LegalEvents ==
    /\ \A s \in Slots : touch[s] = IF on[s] THEN "down" ELSE "up"
    /\ mouse = touch[0]

\* While a pointer is down it belongs to one finger, and a finger has one
\* pointer (main.c:624-625).
SlotKeepsFinger ==
    [][/\ \A s \in Slots : on[s] /\ on'[s] => vid'[s] = vid[s]
       /\ on'[0] /\ on'[1] => vid'[0] # vid'[1]]_vars

\* Fingers that rest on the panel for a second frame are all reported, and no
\* other (main.c:622-637): a finger that came while the pointers were taken by
\* lifted ones is not lost.
AllReported ==
    [][at # 0 /\ at' = 0 /\ before = before' /\ Cardinality(before) <= 2
          => before' = {vid[s] : s \in {x \in Slots : on'[x]}}]_vars

\* A button released, or a stick let go near its rest, is so for the game
\* (main.c:604-617).
PadReleased == held = prev_buttons /\ axis = prev_axis /\ (axis \in Near => axis = 0)
=============================================================================

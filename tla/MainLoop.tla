------------------------------ MODULE MainLoop ------------------------------
(***************************************************************************)
(* The frame loop of loader/main.c next to the engine's threads: reporting *)
(* movies as finished, the stall watchdog, and who presents.  The engine   *)
(* asks for a movie (video_play) or presents (egl_swap) at any time; the   *)
(* presents themselves hold gl_lock, so each is one step.                  *)
(***************************************************************************)
EXTENDS Integers

CONSTANTS
    Delay,        \* 30: frames until a movie is reported as finished
    Arm,          \* 1000: presents after which the watchdog is armed
    Limit,        \* 2400: frames without a present it tolerates
    MaxSwaps      \* bound: presents of the game

LoopAssumption ==
    /\ Delay \in Nat \ {0} /\ Arm \in Nat \ {0} /\ Limit \in Nat /\ MaxSwaps \in Nat

VARIABLES
    pc,           \* where the main thread is in its frame
    pending,      \* jni_video_play_pending
    left,         \* video_done_at - frame, None while video_done_at is 0
    count,        \* jni_swap_count
    last, quiet,  \* last_cnt, and frame - last_frame
    armed,
    swapping,     \* the game's thread is between the count and its present
    waiting,      \* the game asked for a movie that was not reported (history)
    presented,    \* the game has presented (history)
    stale,        \* main's presents after that, up to 2 (history)
    silent        \* frames without a present of the game (history)

video == <<pending, left, waiting>>
dog == <<last, quiet, armed>>
history == <<presented, stale, silent>>
vars == <<pc, video, dog, count, swapping, history>>

None == -1
More(n) == IF n > Limit THEN n ELSE n + 1
Crashed == pc = "crashed"

Init ==
    /\ pc = "video"
    /\ pending = FALSE /\ left = None /\ waiting = FALSE
    /\ count = 0 /\ last = 0 /\ quiet = 0 /\ armed = FALSE
    /\ swapping = FALSE
    /\ presented = FALSE /\ stale = 0 /\ silent = 0

\* The game asks the Java video player to play.
video_play ==
    /\ ~Crashed
    /\ pending' = TRUE /\ waiting' = TRUE
    /\ UNCHANGED <<pc, left, dog, count, swapping, history>>

\* The game presents: the count, then the present.
egl_swap ==
    /\ ~Crashed /\ ~swapping /\ count < MaxSwaps
    /\ count' = count + 1
    /\ swapping' = TRUE
    /\ silent' = 0
    /\ UNCHANGED <<pc, video, dog, presented, stale>>

loader_present ==
    /\ ~Crashed /\ swapping
    /\ swapping' = FALSE
    /\ presented' = TRUE
    /\ UNCHANGED <<pc, video, dog, count, stale, silent>>

\* Whether a request is cleared before it is reported.
ClearAfterwards == FALSE                                         \* mutant
ClearBefore == TRUE

\* A frame: start the movie's countdown, or clear the request at its end and
\* report it.
Video ==
    /\ pc = "video"
    /\ IF left = 0
       THEN /\ left' = None
            /\ pending' = (pending /\ ~ClearBefore)
            /\ pc' = "report"
       ELSE /\ left' = IF left # None THEN left - 1 ELSE IF pending THEN Delay - 1 ELSE None
            /\ pc' = "stall"
            /\ UNCHANGED pending
    /\ quiet' = More(quiet)
    /\ silent' = More(silent)
    /\ UNCHANGED <<last, armed, waiting, count, swapping, presented, stale>>

\* VideoDone is called for every player there may be, and returns.
Report ==
    /\ pc = "report"
    /\ waiting' = FALSE
    /\ pc' = "reported"
    /\ UNCHANGED <<pending, left, dog, count, swapping, history>>

Reported ==
    /\ pc = "reported"
    /\ pending' = (pending /\ ClearBefore)
    /\ pc' = "stall"
    /\ UNCHANGED <<left, waiting, dog, count, swapping, history>>

\* The stall watchdog: a present seen, or too many frames without one.
StallWith(since, arming) ==
    /\ pc = "stall"
    /\ IF count # last
       THEN /\ last' = count
            /\ quiet' = since
            /\ armed' = (armed \/ arming)
            /\ pc' = "pace"
       ELSE /\ pc' = IF armed /\ quiet > Limit THEN "crashed" ELSE "pace"
            /\ UNCHANGED dog
    /\ UNCHANGED <<video, count, swapping, history>>

\* mutants: last_frame is kept; the count before is compared
StallNoReset == StallWith(quiet, count > Arm)
StallArmsLate == StallWith(0, last > Arm)
Stall == StallWith(0, count > Arm)

\* Main presents while the game never has, and paces itself otherwise.
PaceIf(own) ==
    /\ pc = "pace"
    /\ pc' = IF own THEN "swap" ELSE "video"
    /\ UNCHANGED <<video, dog, count, swapping, history>>

PaceOneMore == PaceIf(count <= 1)                                \* mutant
Pace == PaceIf(count = 0)

Swap ==
    /\ pc = "swap"
    /\ stale' = IF presented /\ stale < 2 THEN stale + 1 ELSE stale
    /\ pc' = "video"
    /\ UNCHANGED <<video, dog, count, swapping, presented, silent>>

Main == Video \/ Report \/ Reported \/ Stall \/ Pace \/ Swap
Next == Main \/ video_play \/ egl_swap \/ loader_present

\* The main thread is never blocked; the game may stop at any time.
Spec == Init /\ [][Next]_vars /\ WF_vars(Main)

----------------------------------------------------------------------------

TypeOK ==
    /\ pc \in {"video", "report", "reported", "stall", "pace", "swap", "crashed"}
    /\ pending \in BOOLEAN /\ left \in -1..Delay - 1 /\ waiting \in BOOLEAN
    /\ count \in 0..MaxSwaps /\ last \in 0..MaxSwaps
    /\ quiet \in 0..Limit + 1 /\ armed \in BOOLEAN
    /\ swapping \in BOOLEAN
    /\ presented \in BOOLEAN /\ stale \in 0..2 /\ silent \in 0..Limit + 1

\* Every movie the game asks for is reported as finished, also one asked for in
\* the middle of a report: the request is cleared before it (main.c:646-650).
MovieEnds == waiting ~> (~waiting \/ Crashed)

\* The watchdog never fires on a game that presented within its limit
\* (main.c:659-663).
NoFalseStall == Crashed => silent > Limit

\* A game that presented for a while and stops is caught (main.c:659-663).
StallCaught == \A c \in 0..MaxSwaps : (count = c /\ c > Arm) ~> (count # c \/ Crashed)

\* The handover costs one frame at most: main has at most one present under way
\* when the game presents for the first time (main.c:664).
HandoverOnce == stale <= 1

=============================================================================

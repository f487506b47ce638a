----------------------------- MODULE Main_proofs -----------------------------
(***************************************************************************)
(* loader/main.c and loader/so_util.c: the frame loop and its watchdog,    *)
(* the log over several launches, what is reported of the pad and the      *)
(* panel, each for any bounds, and the loading of any list of libraries.   *)
(* A behaviour of MCMain is about one of them and leaves the others alone, *)
(* so that each has an invariant of its own.                               *)
(***************************************************************************)
EXTENDS MCMain, FiniteSetTheorems, SequenceTheorems, WellFoundedInduction, TLAPS

\* A step of the composition is one of each part, or leaves it alone.
LEMMA Apart ==
  ASSUME [MainNext]_all
  PROVE  [Frames!Next]_(Frames!vars) /\ [Pad!Next]_(Pad!vars) /\ [Log!Next]_(Log!vars)
<1>1. /\ UNCHANGED loopVars => UNCHANGED Frames!vars
      /\ UNCHANGED padVars => UNCHANGED Pad!vars
      /\ UNCHANGED logVars => UNCHANGED Log!vars
  BY DEF loopVars, padVars, logVars, Frames!vars, Frames!video, Frames!dog, Frames!history,
         Pad!vars, Log!vars
<1>2. UNCHANGED others => UNCHANGED padVars /\ UNCHANGED logVars
  BY DEF others
<1>3. CASE UNCHANGED all
  BY <1>1, <1>2, <1>3 DEF all
<1>4. CASE LoaderNext \/ HooksNext
  BY <1>1, <1>2, <1>4 DEF LoaderNext, HooksNext, HooksDo
<1>5. CASE LoopNext
  BY <1>1, <1>2, <1>5 DEF LoopNext, LoopDo
<1>6. CASE PadNext
  BY <1>1, <1>6 DEF PadNext
<1>7. CASE WaitNext
  BY <1>1, <1>7 DEF WaitNext, WaitDo
<1>8. CASE LogNext
  BY <1>1, <1>8 DEF LogNext
<1>9. QED
  BY <1>3, <1>4, <1>5, <1>6, <1>7, <1>8 DEF MainNext

----------------------------------------------------------------------------
(* The frame loop.  Between presents the watchdog's frames are among those *)
(* that were really silent; and as the game has presented only after it    *)
(* counted, main is past its test of the count at most once.               *)

LoopInv ==
    /\ Frames!TypeOK
    /\ last <= count
    /\ count = last => quiet <= silent
    /\ lpc = "crashed" => silent > Limit
    /\ swapping \/ presented => count > 0
    /\ stale <= 1
    /\ stale # 0 => presented /\ lpc # "swap"

LEMMA LoopInit ==
  ASSUME Frames!Init
  PROVE  LoopInv
<1>1. Delay \in Nat \ {0} /\ Limit \in Nat /\ MaxSwaps \in Nat
  BY LoopAssumption DEF Frames!LoopAssumption
<1>2. left = -1 /\ count = 0 /\ last = 0 /\ quiet = 0 /\ stale = 0 /\ silent = 0
  BY DEF Frames!Init, Frames!None
<1>3. /\ left \in -1..Delay - 1 /\ count \in 0..MaxSwaps /\ last \in 0..MaxSwaps
      /\ quiet \in 0..Limit + 1 /\ stale \in 0..2 /\ silent \in 0..Limit + 1
  BY <1>1, <1>2
<1>4. lpc = "video" /\ ~pending /\ ~waiting /\ ~armed /\ ~swapping /\ ~presented
      /\ {pending, waiting, armed, swapping, presented} \subseteq BOOLEAN
  BY DEF Frames!Init
<1>5. Frames!TypeOK
  BY <1>3, <1>4 DEF Frames!TypeOK
<1>6. QED
  BY <1>2, <1>4, <1>5 DEF LoopInv

LEMMA LoopIs == LoopInv => NoFalseStall
  BY DEF LoopInv, NoFalseStall, Frames!NoFalseStall, Frames!HandoverOnce, Frames!Crashed

LEMMA LoopStep ==
  ASSUME LoopInv, [Frames!Next]_(Frames!vars)
  PROVE  LoopInv'
<1> USE LoopAssumption DEF LoopInv, Frames!TypeOK, Frames!LoopAssumption, Frames!Crashed
<1>1. CASE UNCHANGED Frames!vars
  BY <1>1 DEF Frames!vars, Frames!video, Frames!dog, Frames!history
<1>2. CASE Frames!video_play
  BY <1>2 DEF Frames!video_play, Frames!dog, Frames!history
<1>3. CASE Frames!egl_swap
  BY <1>3 DEF Frames!egl_swap, Frames!video, Frames!dog
<1>4. CASE Frames!loader_present
  BY <1>4 DEF Frames!loader_present, Frames!video, Frames!dog
<1>5. CASE Frames!Video
  <2>1. UNCHANGED <<last, armed, waiting, count, swapping, presented, stale>>
    BY <1>5 DEF Frames!Video
  <2>2. lpc = "video" /\ lpc' \in {"report", "stall"}
    BY <1>5 DEF Frames!Video
  <2>3. pending' \in BOOLEAN
    BY <1>5 DEF Frames!Video, Frames!ClearBefore
  <2>4. left' \in -1..Delay - 1
    BY <1>5 DEF Frames!Video, Frames!None
  <2>5. quiet' = (IF quiet > Limit THEN quiet ELSE quiet + 1)
        /\ silent' = (IF silent > Limit THEN silent ELSE silent + 1)
    BY <1>5 DEF Frames!Video, Frames!More
  <2>6. QED
    BY <2>1, <2>2, <2>3, <2>4, <2>5
<1>6. CASE Frames!Report
  BY <1>6 DEF Frames!Report, Frames!dog, Frames!history
<1>7. CASE Frames!Reported
  BY <1>7 DEF Frames!Reported, Frames!dog, Frames!history, Frames!ClearBefore
<1>8. CASE Frames!Stall
  <2>1. UNCHANGED <<pending, left, waiting, count, swapping, presented, stale, silent>> /\ lpc = "stall"
    BY <1>8 DEF Frames!Stall, Frames!StallWith, Frames!video, Frames!history
  <2>2. CASE count # last
    <3>1. last' = count /\ quiet' = 0 /\ lpc' = "pace" /\ armed' \in BOOLEAN
      BY <1>8, <2>2 DEF Frames!Stall, Frames!StallWith
    <3>2. QED
      BY <2>1, <3>1
  <2>3. CASE count = last
    <3>1. UNCHANGED <<last, quiet, armed>> /\ lpc' \in {"crashed", "pace"}
          /\ (lpc' = "crashed" => quiet > Limit)
      BY <1>8, <2>3 DEF Frames!Stall, Frames!StallWith, Frames!dog
    <3>2. QED
      BY <2>1, <2>3, <3>1
  <2>4. QED
    BY <2>2, <2>3
<1>9. CASE Frames!Pace
  BY <1>9 DEF Frames!Pace, Frames!PaceIf, Frames!video, Frames!dog, Frames!history
<1>10. CASE Frames!Swap
  BY <1>10 DEF Frames!Swap, Frames!video, Frames!dog
<1>11. QED
  BY <1>1, <1>2, <1>3, <1>4, <1>5, <1>6, <1>7, <1>8, <1>9, <1>10 DEF Frames!Next, Frames!Main

\* The watchdog fires only after more silent frames than its limit, and main
\* presents at most once after the game's first present, at whatever point of a
\* frame that comes (main.c:659-664): for any delays, limits and presents.
THEOREM StallSafe == MainSpec => []NoFalseStall
<1>1. MainInit => LoopInv
  BY LoopInit DEF MainInit
<1>2. LoopInv /\ [MainNext]_all => LoopInv'
  BY Apart, LoopStep
<1>3. QED
  BY <1>1, <1>2, LoopIs, PTL DEF MainSpec

----------------------------------------------------------------------------
(* The log.  Until main removes and renames, what the last run wrote is in *)
(* the log; afterwards it is in the one put aside, and the log has exactly *)
(* what this run wrote.  A launch that ends in between leaves it in one of *)
(* the two, and the next one counts as the second.                         *)

LogInv ==
    /\ Log!TypeOK
    /\ disk = [f \in {"log", "prev", "fallback"} |-> disk[f]]
    /\ wrote = [f \in {"log", "fallback"} |-> wrote[f]]
    /\ {25, 32} \subseteq saves /\ saves \subseteq Int
    /\ step \in 0..3 => wrote.log = <<>>
    /\ step > 3 => disk.log = wrote.log
    /\ step \in 0..4 => wrote.fallback = <<>>
    /\ step > 4 => disk.fallback = wrote.fallback
    /\ step = 4 => wrote.log = <<>>
    /\ step = 3 => disk.prev = <<>>
    /\ step >= 3 => since >= 1
    /\ since = 0 => logged.log = disk.log /\ logged.fallback = disk.fallback
    /\ since = 1 => /\ step <= 2 => logged.log \in {disk.log, disk.prev}
                    /\ step = 3 => logged.log = disk.log
                    /\ step > 3 => logged.log = disk.prev

\* What main does at which step.
LEMMA LogEnds == Log!Loop = 15 /\ Log!Off = 0 /\ Log!First = 4
  BY DEF Log!Loop, Log!Steps, Log!Off, Log!First

LEMMA LogSteps ==
  ASSUME NEW j \in 1..14
  PROVE  /\ Log!Steps[j][1] = "rename" <=> j = 3
         /\ Log!Steps[j][1] = "remove prev" <=> j = 2
         /\ Log!Steps[j][1] = "remove fallback" <=> j = 4
         /\ Log!Steps[j][1] = "saves" <=> j = 5
<1>1. /\ Log!Steps[1][1] = "mkdir"
      /\ Log!Steps[2][1] = "remove prev"
      /\ Log!Steps[3][1] = "rename"
      /\ Log!Steps[4][1] = "remove fallback"
      /\ Log!Steps[5][1] = "saves"
      /\ Log!Steps[6][1] = "boot"
      /\ Log!Steps[7][1] = "files"
      /\ Log!Steps[8][1] = "gnustl"
      /\ Log!Steps[9][1] = "game"
      /\ Log!Steps[10][1] = "shader compiler"
      /\ Log!Steps[11][1] = "vitaGL"
      /\ Log!Steps[12][1] = "jni"
      /\ Log!Steps[13][1] = "calls"
      /\ Log!Steps[14][1] = "events"
  BY DEF Log!Steps
<1>2. j \in {1, 2, 3, 4, 5, 6, 7, 8, 9, 10, 11, 12, 13, 14}
  OBVIOUS
<1>3. QED
  BY <1>1, <1>2

LEMMA LogInit ==
  ASSUME Log!Init
  PROVE  LogInv
<1>1. Log!TypeOK
  <2>1. DOMAIN disk = {"log", "prev", "fallback"} /\ log_fd = "none" /\ launches = 0 /\ step = 0
        /\ since = 0
    BY DEF Log!Init, Log!Off
  <2>2. launches \in 0..MaxRuns
    BY <2>1, LogBound
  <2>3. QED
    BY <2>1, <2>2, LogEnds DEF Log!TypeOK
<1>2. QED
  BY <1>1 DEF Log!Init, LogInv, Log!NoFile, Log!Nothing, Log!Off

\* A line goes to the file that is open or can be opened, never to the one that
\* was put aside, and is what this run wrote there.
LEMMA LogLine ==
  ASSUME LogInv, NEW line, Log!debugPrintf(line)
  PROVE  /\ log_fd' \in {"none", "log", "fallback"}
         /\ DOMAIN disk' = {"log", "prev", "fallback"}
         /\ disk' = [f \in {"log", "prev", "fallback"} |-> disk'[f]]
         /\ wrote' = [f \in {"log", "fallback"} |-> wrote'[f]]
         /\ disk'.prev = disk.prev
         /\ disk.log = wrote.log => disk'.log = wrote'.log
         /\ disk.fallback = wrote.fallback => disk'.fallback = wrote'.fallback
<1>1. PICK o, w :
         /\ o \in (IF log_fd = "none" THEN Log!log_open ELSE {<<log_fd, 0>>})
         /\ w \in Log!Writes(o)
         /\ log_fd' = w.fd
         /\ disk' = IF w.in = "none" THEN disk
                    ELSE [disk EXCEPT ![w.in] = Append(@, line)]
         /\ wrote' = IF w.in = "none" THEN wrote ELSE [wrote EXCEPT ![w.in] = Append(@, line)]
  BY DEF Log!debugPrintf, Log!Written
<1>2. o[1] \in {"none", "log", "fallback"}
  BY <1>1 DEF Log!log_open, LogInv, Log!TypeOK
<1>3. w.fd \in {"none", "log", "fallback"} /\ w.in \in {"none", "log", "fallback"}
  BY <1>1, <1>2 DEF Log!Writes, Log!log_open
<1>4. /\ disk = [f \in {"log", "prev", "fallback"} |-> disk[f]]
      /\ wrote = [f \in {"log", "fallback"} |-> wrote[f]]
  BY DEF LogInv
<1>5. CASE w.in = "none"
  BY <1>1, <1>3, <1>4, <1>5
<1>6. CASE w.in = "log"
  BY <1>1, <1>3, <1>4, <1>6
<1>7. CASE w.in = "fallback"
  BY <1>1, <1>3, <1>4, <1>7
<1>8. QED
  BY <1>3, <1>5, <1>6, <1>7

LEMMA LogStep ==
  ASSUME LogInv, [Log!Next]_(Log!vars)
  PROVE  LogInv'
<1>1. /\ DOMAIN disk = {"log", "prev", "fallback"}
      /\ log_fd \in {"none", "log", "fallback"} /\ step \in 0..15 /\ launches \in 0..MaxRuns
  BY LogEnds DEF LogInv, Log!TypeOK
<1>2. CASE UNCHANGED Log!vars
  BY <1>2 DEF Log!vars, LogInv, Log!TypeOK
<1>3. CASE Log!Launch
  <2>1. step = 0 /\ step' = 1 /\ launches' = launches + 1 /\ launches < MaxRuns
        /\ UNCHANGED <<disk, saves, log_fd, wrote, logged, since>>
    BY <1>3, LogEnds DEF Log!Launch
  <2>2. QED
    BY <1>1, <2>1, LogEnds, LogBound DEF LogInv, Log!TypeOK
<1>4. CASE Log!Die
  <2>1. /\ step # 0 /\ step' = 0 /\ log_fd' = "none" /\ UNCHANGED <<disk, saves, launches>>
        /\ wrote' = [log |-> <<>>, fallback |-> <<>>]
        /\ wrote # [log |-> <<>>, fallback |-> <<>>] => logged' = wrote /\ since' = 0
        /\ wrote = [log |-> <<>>, fallback |-> <<>>] => UNCHANGED <<logged, since>>
    BY <1>4, LogEnds DEF Log!Die, Log!Nothing
  <2>2. CASE wrote = [log |-> <<>>, fallback |-> <<>>]
    <3>1. UNCHANGED <<disk, wrote, logged, since, saves, launches>> /\ wrote'.log = <<>> /\ wrote'.fallback = <<>>
      BY <2>1, <2>2
    <3>2. Log!TypeOK'
      BY <1>1, <2>1, <3>1, LogEnds DEF LogInv, Log!TypeOK
    <3>3. since = 1 => logged.log \in {disk.log, disk.prev}
      <4>1. step <= 2 \/ step = 3 \/ step > 3
        BY <1>1
      <4>2. QED
        BY <4>1 DEF LogInv
    <3>4. QED
      BY <1>1, <2>1, <3>1, <3>2, <3>3 DEF LogInv
  <2>3. CASE wrote # [log |-> <<>>, fallback |-> <<>>]
    <3>1. wrote.log # <<>> \/ wrote.fallback # <<>>
      <4>1. wrote = [f \in {"log", "fallback"} |-> wrote[f]]
        BY DEF LogInv
      <4>2. QED
        BY <2>3, <4>1
    <3>2. step > 4
      BY <1>1, <3>1 DEF LogInv
    <3>3. disk.log = wrote.log /\ disk.fallback = wrote.fallback
      BY <1>1, <3>2 DEF LogInv
    <3>4. since' = 0 /\ logged' = wrote /\ wrote'.log = <<>> /\ wrote'.fallback = <<>>
      BY <2>1, <2>3
    <3>5. Log!TypeOK'
      BY <1>1, <2>1, <3>4, LogEnds DEF LogInv, Log!TypeOK
    <3>6. QED
      BY <1>1, <2>1, <3>3, <3>4, <3>5 DEF LogInv
  <2>4. QED
    BY <2>2, <2>3
<1>5. CASE Log!FirstSteps
  <2>1. step \in 1..4 /\ step' = step + 1 /\ UNCHANGED <<saves, log_fd, launches, wrote, logged>>
    BY <1>5, LogEnds DEF Log!FirstSteps, Log!NextStep
  <2>2. \A j \in 1..14 : /\ Log!Steps[j][1] = "rename" <=> j = 3
                         /\ Log!Steps[j][1] = "remove prev" <=> j = 2
                         /\ Log!Steps[j][1] = "remove fallback" <=> j = 4
    BY LogSteps
  <2>3. /\ Log!Doing("remove prev") <=> step = 2
        /\ Log!Doing("rename") <=> step = 3
        /\ Log!Doing("remove fallback") <=> step = 4
    <3>1. step \in 1..14 /\ step \in 1..(Log!Loop - 1)
      BY <2>1, LogEnds
    <3>2. /\ Log!Steps[step][1] = "rename" <=> step = 3
          /\ Log!Steps[step][1] = "remove prev" <=> step = 2
          /\ Log!Steps[step][1] = "remove fallback" <=> step = 4
      BY <2>2, <3>1, Zenon
    <3>3. QED
      BY <3>1, <3>2, Zenon DEF Log!Doing
  <2>11. since \in Nat /\ since' = IF step = 2 THEN since + 1 ELSE since
    <3>1. since \in Nat
      BY DEF LogInv, Log!TypeOK
    <3>2. since' = IF Log!Doing("remove prev") THEN since + 1 ELSE since
      BY <1>5 DEF Log!FirstSteps
    <3>3. QED
      BY <2>3, <3>1, <3>2, Zenon
  <2>4. disk' = CASE Log!Doing("remove prev") -> [disk EXCEPT !.prev = Log!NoFile]
                  [] Log!Doing("rename") /\ disk.log # Log!NoFile ->
                        [disk EXCEPT !.prev = disk.log, !.log = Log!NoFile]
                  [] Log!Doing("remove fallback") -> [disk EXCEPT !.fallback = Log!NoFile]
                  [] OTHER -> disk
    BY <1>5 DEF Log!FirstSteps
  <2>5. disk = [f \in {"log", "prev", "fallback"} |-> disk[f]]
    BY DEF LogInv
  <2>6. CASE step = 1
    <3>1. disk' = disk
      <4>1. ~Log!Doing("remove prev") /\ ~Log!Doing("rename") /\ ~Log!Doing("remove fallback")
        <5>1. step # 2 /\ step # 3 /\ step # 4
          BY <2>6
        <5>2. QED
          BY <2>3, <2>6, <5>1, Zenon
      <4>2. QED
        BY <2>4, <4>1 DEF Log!NoFile
    <3>2. disk' = [f \in {"log", "prev", "fallback"} |-> disk'[f]]
      BY <2>5, <3>1
    <3>3. QED
      BY <1>1, <2>1, <2>5, <2>6, <2>11, <3>1, <3>2, LogEnds DEF LogInv, Log!TypeOK
  <2>7. CASE step = 2
    <3>1. disk' = [disk EXCEPT !.prev = <<>>]
      <4>1. Log!Doing("remove prev") /\ ~Log!Doing("rename") /\ ~Log!Doing("remove fallback")
        <5>1. step # 3 /\ step # 4
          BY <2>7
        <5>2. QED
          BY <2>3, <2>7, <5>1, Zenon
      <4>2. QED
        BY <2>4, <4>1 DEF Log!NoFile
    <3>2. disk' = [f \in {"log", "prev", "fallback"} |-> disk'[f]]
      BY <2>5, <3>1
    <3>3. QED
      BY <1>1, <2>1, <2>5, <2>7, <2>11, <3>1, <3>2, LogEnds DEF LogInv, Log!TypeOK
  <2>8. CASE step = 3
    <3>1. disk' = IF disk.log # <<>> THEN [disk EXCEPT !.prev = disk.log, !.log = <<>>] ELSE disk
      <4>1. ~Log!Doing("remove prev") /\ Log!Doing("rename") /\ ~Log!Doing("remove fallback")
        <5>1. step # 2 /\ step # 4
          BY <2>8
        <5>2. QED
          BY <2>3, <2>8, <5>1, Zenon
      <4>2. QED
        BY <2>4, <4>1 DEF Log!NoFile
    <3>2. disk' = [f \in {"log", "prev", "fallback"} |-> disk'[f]]
      BY <2>5, <3>1
    <3>3. QED
      BY <1>1, <2>1, <2>5, <2>8, <2>11, <3>1, <3>2, LogEnds DEF LogInv, Log!TypeOK
  <2>9. CASE step = 4
    <3>1. disk' = [disk EXCEPT !.fallback = <<>>]
      <4>1. ~Log!Doing("remove prev") /\ ~Log!Doing("rename") /\ Log!Doing("remove fallback")
        <5>1. step # 2 /\ step # 3
          BY <2>9
        <5>2. QED
          BY <2>3, <2>9, <5>1, Zenon
      <4>2. QED
        BY <2>4, <4>1 DEF Log!NoFile
    <3>2. disk' = [f \in {"log", "prev", "fallback"} |-> disk'[f]]
      BY <2>5, <3>1
    <3>3. QED
      BY <1>1, <2>1, <2>5, <2>9, <2>11, <3>1, <3>2, LogEnds DEF LogInv, Log!TypeOK
  <2>10. QED
    BY <2>1, <2>6, <2>7, <2>8, <2>9
<1>6. CASE Log!RemoveSave
  <2>1. \A j \in 1..14 : Log!Steps[j][1] = "saves" <=> j = 5
    BY LogSteps
  <2>2. step = 5 /\ UNCHANGED <<step, launches, logged, since>>
    BY <1>6, <2>1, LogEnds DEF Log!RemoveSave, Log!Doing
  <2>3. PICK x \in saves : x > 32 /\ saves' = saves \ {x} /\ Log!debugPrintf(<<launches, step, saves'>>)
    BY <1>6 DEF Log!RemoveSave, Log!TooLarge
  <2>4. {25, 32} \subseteq saves' /\ saves' \subseteq Int
    BY <2>3 DEF LogInv
  <2>5. QED
    BY <1>1, <2>2, <2>3, <2>4, LogLine DEF LogInv, Log!TypeOK
<1>7. CASE Log!Say \/ Log!fatal
  <2>1. step > 4 /\ UNCHANGED <<saves, step, launches, logged, since>>
    BY <1>1, <1>7, LogEnds DEF Log!Say, Log!fatal
  <2>2. PICK line : Log!debugPrintf(line)
    BY <1>7 DEF Log!Say, Log!fatal
  <2>3. QED
    BY <1>1, <2>1, <2>2, LogLine DEF LogInv, Log!TypeOK
<1>8. CASE Log!GoOn
  <2>1. step \in 5..14 /\ step' = step + 1 /\ UNCHANGED <<disk, saves, log_fd, launches, wrote, logged, since>>
    BY <1>8, LogEnds DEF Log!GoOn, Log!NextStep
  <2>2. QED
    BY <1>1, <2>1, LogEnds DEF LogInv, Log!TypeOK
<1>9. QED
  BY <1>2, <1>3, <1>4, <1>5, <1>6, <1>7, <1>8 DEF Log!Next

LEMMA LogIs ==
  ASSUME LogInv
  PROVE  LogKept
<1>1. step \in 0..15
  BY LogEnds DEF LogInv, Log!TypeOK
<1>2. since <= 1 => logged.log \in {disk.log, disk.prev}
  <2>1. since = 0 => logged.log \in {disk.log, disk.prev}
    BY DEF LogInv
  <2>2. since = 1 => logged.log \in {disk.log, disk.prev}
    <3>1. step <= 2 \/ step = 3 \/ step > 3
      BY <1>1
    <3>2. QED
      BY <3>1 DEF LogInv
  <2>3. since \in Nat
    BY DEF LogInv, Log!TypeOK
  <2>4. since <= 1 => since = 0 \/ since = 1
    BY <2>3
  <2>5. QED
    BY <2>1, <2>2, <2>4
<1>3. /\ wrote.log # <<>> => disk.log = wrote.log
      /\ wrote.fallback # <<>> => disk.fallback = wrote.fallback
  BY <1>1 DEF LogInv
<1>4. QED
  BY <1>2, <1>3 DEF LogInv, LogKept, Log!LogKept

\* What a run wrote is on the card while it runs and when it is over, in both
\* places, and in the first it outlives one launch that writes nothing, wherever
\* runs end and whichever opens and writes fail; and saves that are not too large
\* stay (main.c:463-474, stubs.c:17-28): for any number of launches, failures and
\* lines.
THEOREM LogSafe == MainSpec => []LogKept
<1>1. MainInit => LogInv
  BY LogInit DEF MainInit
<1>2. LogInv /\ [MainNext]_all => LogInv'
  BY Apart, LogStep
<1>3. QED
  BY <1>1, <1>2, LogIs, PTL DEF MainSpec

----------------------------------------------------------------------------
(* The pad and the panel.  While the fingers of a frame are gone through,  *)
(* the pointers that were seen are those of fingers already met; and if    *)
(* these fingers are at most two and rest, each has found a pointer, as    *)
(* the two pointers that are down belong to two of them.                   *)

Few(S) == \A e, f, g \in S : e = f \/ f = g \/ e = g
Met(q) == {td[j] : j \in 1..q - 1}
Resting == before = Met(Len(td) + 1) /\ Few(before)

PadInv ==
    /\ Pad!TypeOK /\ Pad!LegalEvents /\ Pad!PadReleased
    /\ on[0] /\ on[1] => vid[0] # vid[1]
    /\ td \in Seq(Fingers) /\ Len(td) <= MaxReports
    /\ \A j, q \in 1..Len(td) : td[j] = td[q] => j = q
    /\ turn \in 0..Len(td) + 1
    /\ IsFiniteSet(before)
    /\ turn = 0 => \A s \in {0, 1} : on[s] => vid[s] \in before
    /\ turn # 0 => /\ \A s \in {0, 1} : seen[s] => on[s] /\ vid[s] \in Met(turn)
                   /\ \A s \in {0, 1} : on[s] => vid[s] \in before \cup Met(turn)
                   /\ Resting => \A f \in Met(turn) : \E s \in {0, 1} : seen[s] /\ vid[s] = f

LEMMA PadInit ==
  ASSUME Pad!Init
  PROVE  PadInv
<1>1. /\ turn = 0 /\ td = <<>> /\ before = {} /\ prev_buttons = {} /\ prev_axis = 0 /\ held = {} /\ axis = 0
      /\ on = [s \in {0, 1} |-> FALSE] /\ vid = [s \in {0, 1} |-> 0]
      /\ seen = [s \in {0, 1} |-> FALSE] /\ touch = [s \in {0, 1} |-> "up"] /\ mouse = "up"
  BY DEF Pad!Init, Pad!Slots, Pad!NoFinger
<1>2. Pad!TypeOK
  <2>1. turn \in 0..MaxReports + 1 /\ held \subseteq Buttons
    BY <1>1, PadBound
  <2>2. on \in [{0, 1} -> BOOLEAN] /\ seen \in [{0, 1} -> BOOLEAN]
    BY <1>1
  <2>3. vid \in [{0, 1} -> Fingers \cup {0}] /\ touch \in [{0, 1} -> {"up", "down", "broken"}]
        /\ mouse \in {"up", "down", "broken"}
    BY <1>1
  <2>4. QED
    BY <2>1, <2>2, <2>3 DEF Pad!TypeOK, Pad!Slots, Pad!NoFinger, Pad!Views
<1>3. Pad!LegalEvents /\ Pad!PadReleased
  BY <1>1 DEF Pad!LegalEvents, Pad!PadReleased, Pad!Slots
<1>4. td \in Seq(Fingers) /\ Len(td) = 0
  BY <1>1, EmptySeq
<1>5. IsFiniteSet(before)
  BY <1>1, FS_EmptySet
<1>6. turn \in 0..Len(td) + 1 /\ Len(td) <= MaxReports /\ \A j, q \in 1..Len(td) : j = q
  BY <1>1, <1>4, PadBound
<1>7. QED
  BY <1>1, <1>2, <1>3, <1>4, <1>5, <1>6 DEF PadInv

LEMMA PadTypes ==
  ASSUME PadInv
  PROVE  /\ on \in [{0, 1} -> BOOLEAN] /\ seen \in [{0, 1} -> BOOLEAN]
         /\ vid \in [{0, 1} -> Fingers \cup {0}] /\ touch \in [{0, 1} -> {"up", "down", "broken"}]
         /\ mouse \in {"up", "down", "broken"} /\ held \subseteq Buttons
         /\ Len(td) \in Nat /\ DOMAIN td = 1..Len(td)
         /\ \A j \in 1..Len(td) : td[j] \in Fingers
  BY LenProperties, ElementOfSeq DEF PadInv, Pad!TypeOK, Pad!Slots, Pad!NoFinger, Pad!Views

\* A frame begins: what is pressed and where the stick is goes to the game, and
\* the panel reports its fingers.
LEMMA PadFrame ==
  ASSUME PadInv, Pad!Frame
  PROVE  PadInv'
<1>1. /\ turn = 0 /\ turn' = 1 /\ UNCHANGED <<on, vid, touch, mouse, before>>
      /\ seen' = [s \in {0, 1} |-> FALSE] /\ td' \in Pad!Reports
  BY DEF Pad!Frame, Pad!FrameWith, Pad!Slots
<1>2. PICK buttons \in SUBSET Buttons, e \in Sticks :
         /\ held' = (held \cup (((buttons \cup prev_buttons) \ (buttons \cap prev_buttons)) \cap buttons))
                        \ (((buttons \cup prev_buttons) \ (buttons \cap prev_buttons)) \ buttons)
         /\ prev_buttons' = buttons
         /\ axis' = (IF Pad!DeadZone(e, Near) # prev_axis THEN Pad!DeadZone(e, Near) ELSE axis)
         /\ prev_axis' = Pad!DeadZone(e, Near)
  BY DEF Pad!Frame, Pad!FrameWith
<1>3. held = prev_buttons /\ axis = prev_axis
  BY DEF PadInv, Pad!PadReleased
<1>4. held' = buttons
  BY <1>2, <1>3
<1>5. axis' = prev_axis' /\ (axis' \in Near => axis' = 0)
  BY <1>2, <1>3 DEF Pad!DeadZone
<1>6. /\ td' \in Seq(Fingers) /\ Len(td') <= MaxReports /\ Len(td') \in Nat
      /\ \A j, q \in 1..Len(td') : td'[j] = td'[q] => j = q
  <2>1. PICK m \in 0..MaxReports : td' \in [1..m -> Fingers]
    BY <1>1 DEF Pad!Reports
  <2>2. m \in Nat /\ m <= MaxReports
    BY <2>1, PadBound
  <2>3. td' \in Seq(Fingers) /\ Len(td') = m /\ DOMAIN td' = 1..m
    BY <2>1, <2>2, SeqDef, LenProperties
  <2>4. \A j, q \in DOMAIN td' : j # q => td'[j] # td'[q]
    BY <1>1 DEF Pad!Reports
  <2>5. QED
    BY <2>2, <2>3, <2>4
<1>7. turn' \in 0..Len(td') + 1 /\ turn' \in 0..MaxReports + 1
  BY <1>1, <1>6, PadBound
<1>8. Pad!TypeOK'
  <2>1. seen' \in [{0, 1} -> BOOLEAN] /\ held' \subseteq Buttons
    BY <1>1, <1>2, <1>4
  <2>2. QED
    BY <1>1, <1>7, <2>1, PadTypes DEF Pad!TypeOK, Pad!Slots, Pad!NoFinger, Pad!Views
<1>9. Pad!LegalEvents' /\ Pad!PadReleased'
  <2>1. Pad!LegalEvents
    BY DEF PadInv
  <2>2. QED
    BY <1>1, <1>2, <1>4, <1>5, <2>1 DEF Pad!LegalEvents, Pad!PadReleased
<1>10. \A s \in {0, 1} : ~seen'[s] /\ (on'[s] => vid'[s] \in before')
  BY <1>1 DEF PadInv
<1>11. Met(turn)' = {}
  BY <1>1 DEF Met
<1>12. QED
  BY <1>1, <1>6, <1>7, <1>8, <1>9, <1>10, <1>11 DEF PadInv

\* The pointer a finger gets: its own; if it has none a free one; or none, when
\* both are taken.
LEMMA PadSlot ==
  ASSUME NEW f, NEW slots, slots = Pad!SlotFor(f)
  PROVE  \/ /\ slots = {}
            /\ \A s \in {0, 1} : ~(on[s] /\ vid[s] = f) /\ (on[s] \/ seen[s])
         \/ /\ slots # {} /\ Pad!First(slots) \in {0, 1}
            /\ \/ on[Pad!First(slots)] /\ vid[Pad!First(slots)] = f
               \/ /\ ~on[Pad!First(slots)] /\ ~seen[Pad!First(slots)]
                  /\ \A s \in {0, 1} : ~(on[s] /\ vid[s] = f)
<1> DEFINE its == {s \in {0, 1} : on[s] /\ vid[s] = f}
           free == {s \in {0, 1} : ~on[s] /\ ~seen[s]}
<1>1. slots = IF its # {} THEN its ELSE IF free # {} THEN {Pad!First(free)} ELSE {}
  BY DEF Pad!SlotFor, Pad!SlotAmong, Pad!Slots
<1>2. CASE its # {}
  BY <1>1, <1>2 DEF Pad!First
<1>3. CASE its = {} /\ free # {}
  <2>1. Pad!First(free) \in free /\ slots = {Pad!First(free)}
    BY <1>1, <1>3 DEF Pad!First
  <2>2. Pad!First(slots) = Pad!First(free)
    BY <2>1 DEF Pad!First
  <2>3. QED
    BY <1>3, <2>1, <2>2
<1>4. CASE its = {} /\ free = {}
  BY <1>1, <1>4
<1>5. QED
  BY <1>2, <1>3, <1>4

\* One more finger is met.
LEMMA PadMet ==
  ASSUME PadInv, turn \in 1..Len(td)
  PROVE  Met(turn + 1) = Met(turn) \cup {td[turn]} /\ td[turn] \in Met(Len(td) + 1)
<1>1. turn \in Nat /\ Len(td) \in Nat /\ turn <= Len(td) /\ turn >= 1
  BY PadTypes
<1>2. \A j : j \in 1..turn + 1 - 1 <=> (j \in 1..turn - 1 \/ j = turn)
  BY <1>1
<1>3. turn \in 1..Len(td) + 1 - 1
  BY <1>1
<1>4. QED
  BY <1>2, <1>3 DEF Met

\* A finger is met: it gets a pointer, which moves or goes down, or none.
LEMMA PadFinger ==
  ASSUME PadInv, Pad!Finger
  PROVE  PadInv' /\ \A s \in {0, 1} : on[s] => vid'[s] = vid[s]
<1>1. PICK f, slots : f = td[turn] /\ slots = Pad!SlotFor(f)
  OBVIOUS
<1>2. /\ turn \in 1..Len(td) /\ turn' = turn + 1
      /\ UNCHANGED <<td, before, prev_buttons, prev_axis, held, axis>>
  BY PadTypes DEF Pad!Finger, Pad!FingerIn, Pad!pad
<1>3. /\ turn \in Nat /\ turn # 0 /\ turn' # 0 /\ turn' \in 0..Len(td') + 1 /\ turn' \in 0..MaxReports + 1
      /\ f \in Fingers
  BY <1>1, <1>2, PadTypes, PadBound DEF PadInv
<1>4. /\ Met(turn)' = Met(turn) \cup {f} /\ f \in Met(Len(td) + 1)
      /\ Resting' = Resting
  BY <1>1, <1>2, PadMet DEF Met, Resting, Few
<1>5. /\ Pad!LegalEvents /\ Pad!PadReleased
      /\ \A s \in {0, 1} : touch[s] = IF on[s] THEN "down" ELSE "up"
      /\ mouse = touch[0]
  BY DEF PadInv, Pad!LegalEvents, Pad!Slots
<1>6. /\ \A s \in {0, 1} : seen[s] => on[s] /\ vid[s] \in Met(turn)
      /\ \A s \in {0, 1} : on[s] => vid[s] \in before \cup Met(turn)
      /\ Resting => \A e \in Met(turn) : \E s \in {0, 1} : seen[s] /\ vid[s] = e
      /\ on[0] /\ on[1] => vid[0] # vid[1]
  BY <1>3 DEF PadInv
<1>7. /\ td' \in Seq(Fingers) /\ Len(td') <= MaxReports /\ IsFiniteSet(before')
      /\ \A j, q \in 1..Len(td') : td'[j] = td'[q] => j = q
  BY <1>2 DEF PadInv
<1>8. Pad!PadReleased'
  BY <1>2, <1>5 DEF Pad!PadReleased
<1>9. CASE slots = {}
  <2>1. UNCHANGED <<on, vid, seen, touch, mouse>>
    BY <1>1, <1>9 DEF Pad!Finger, Pad!FingerIn
  <2>2. on[0] /\ on[1] /\ vid[0] # f /\ vid[1] # f
    BY <1>1, <1>6, <1>9, PadSlot
  <2>3. ~Resting
    <3>1. SUFFICES ASSUME Resting PROVE FALSE
      OBVIOUS
    <3>2. before = Met(Len(td) + 1) /\ Few(before)
      BY <3>1 DEF Resting
    <3>3. Met(turn) \subseteq Met(Len(td) + 1)
      BY <1>2, <1>3, PadTypes DEF Met
    <3>4. vid[0] \in before /\ vid[1] \in before /\ f \in before
      BY <1>4, <1>6, <2>2, <3>2, <3>3
    <3>5. QED
      BY <1>6, <2>2, <3>2, <3>4 DEF Few
  <2>4. Pad!TypeOK'
    BY <1>2, <1>3, <2>1, PadTypes DEF Pad!TypeOK, Pad!Slots, Pad!NoFinger, Pad!Views
  <2>5. Pad!LegalEvents'
    BY <1>5, <2>1 DEF Pad!LegalEvents, Pad!Slots
  <2>6. \A s \in {0, 1} : on'[s] => vid'[s] \in before' \cup Met(turn)'
    BY <1>2, <1>4, <1>6, <2>1
  <2>7. \A s \in {0, 1} : seen'[s] => on'[s] /\ vid'[s] \in Met(turn)'
    BY <1>4, <1>6, <2>1
  <2>8. ~Resting' /\ (on'[0] /\ on'[1] => vid'[0] # vid'[1])
    BY <1>4, <1>6, <2>1, <2>3
  <2>9. PadInv'
    BY <1>3, <1>7, <1>8, <2>4, <2>5, <2>6, <2>7, <2>8 DEF PadInv
  <2>10. QED
    BY <2>1, <2>9
<1>10. CASE slots # {}
  <2>1. PICK s, event : s = Pad!First(slots) /\ event = IF on[s] THEN "MOVE" ELSE "DOWN"
    OBVIOUS
  <2>2. /\ touch' = [touch EXCEPT ![s] = Pad!After(@, event)]
        /\ mouse' = IF s = 0 THEN Pad!After(mouse, event) ELSE mouse
        /\ on' = [on EXCEPT ![s] = TRUE] /\ vid' = [vid EXCEPT ![s] = f]
        /\ seen' = [seen EXCEPT ![s] = TRUE]
    BY <1>1, <1>10, <2>1 DEF Pad!Finger, Pad!FingerIn
  <2>3. /\ s \in {0, 1}
        /\ \/ on[s] /\ vid[s] = f
           \/ ~on[s] /\ ~seen[s] /\ \A q \in {0, 1} : ~(on[q] /\ vid[q] = f)
    BY <1>1, <1>10, <2>1, PadSlot
  <2>4. Pad!After(touch[s], event) = "down"
    BY <1>5, <2>1, <2>3 DEF Pad!After
  <2>5. \A q \in {0, 1} : /\ on'[q] = IF q = s THEN TRUE ELSE on[q]
                          /\ vid'[q] = IF q = s THEN f ELSE vid[q]
                          /\ seen'[q] = IF q = s THEN TRUE ELSE seen[q]
                          /\ touch'[q] = IF q = s THEN "down" ELSE touch[q]
    BY <2>2, <2>3, <2>4, PadTypes
  <2>6. mouse' = touch'[0]
    BY <1>5, <2>2, <2>3, <2>4, <2>5
  <2>7. Pad!TypeOK'
    <3>1. on' \in [{0, 1} -> BOOLEAN] /\ seen' \in [{0, 1} -> BOOLEAN]
      BY <2>2, PadTypes
    <3>2. vid' \in [{0, 1} -> Fingers \cup {0}]
      BY <1>3, <2>2, PadTypes
    <3>3. touch' \in [{0, 1} -> {"up", "down", "broken"}] /\ mouse' \in {"up", "down", "broken"}
      BY <2>2, <2>3, <2>4, <2>6, PadTypes
    <3>4. QED
      BY <1>2, <1>3, <3>1, <3>2, <3>3, PadTypes DEF Pad!TypeOK, Pad!Slots, Pad!NoFinger, Pad!Views
  <2>8. Pad!LegalEvents'
    BY <1>5, <2>3, <2>5, <2>6 DEF Pad!LegalEvents, Pad!Slots
  <2>9. on'[0] /\ on'[1] => vid'[0] # vid'[1]
    <3>1. CASE s = 0
      BY <1>6, <2>3, <2>5, <3>1
    <3>2. CASE s = 1
      BY <1>6, <2>3, <2>5, <3>2
    <3>3. QED
      BY <2>3, <3>1, <3>2
  <2>10. /\ \A q \in {0, 1} : seen'[q] => on'[q] /\ vid'[q] \in Met(turn)'
         /\ \A q \in {0, 1} : on'[q] => vid'[q] \in before' \cup Met(turn)'
    BY <1>2, <1>4, <1>6, <2>5
  <2>11. ASSUME Resting', NEW e \in Met(turn)'
         PROVE  \E q \in {0, 1} : seen'[q] /\ vid'[q] = e
    <3>1. CASE e = f
      BY <2>3, <2>5, <3>1
    <3>2. CASE e # f
      <4>1. PICK q \in {0, 1} : seen[q] /\ vid[q] = e
        BY <1>4, <1>6, <2>11, <3>2
      <4>2. q # s
        BY <2>3, <3>2, <4>1
      <4>3. QED
        BY <2>5, <4>1, <4>2
    <3>3. QED
      BY <3>1, <3>2
  <2>12. \A q \in {0, 1} : on[q] => vid'[q] = vid[q]
    BY <2>3, <2>5
  <2>13. QED
    BY <1>3, <1>7, <1>8, <2>7, <2>8, <2>9, <2>10, <2>11, <2>12 DEF PadInv
<1>11. QED
  BY <1>9, <1>10

\* The fingers of a frame are finitely many.
LEMMA PadFinite ==
  ASSUME PadInv
  PROVE  IsFiniteSet(Met(Len(td) + 1))
<1>1. PICK m \in Nat : m = Len(td)
  BY PadTypes
<1>2. PICK fs : fs = [j \in 1..m |-> td[j]]
  OBVIOUS
<1>3. fs \in [1..m -> Met(m + 1)] /\ \A e \in Met(m + 1) : \E j \in 1..m : fs[j] = e
  BY <1>2 DEF Met
<1>4. fs \in Surjection(1..m, Met(m + 1))
  BY <1>3, Zenon DEF Surjection
<1>5. IsFiniteSet(1..m)
  BY <1>1, FS_Interval
<1>6. IsFiniteSet(Met(m + 1))
  BY <1>4, <1>5, FS_Surjection
<1>7. QED
  BY <1>1, <1>6

\* Two elements at most are at most two.
LEMMA PadFew ==
  ASSUME NEW S, IsFiniteSet(S), Cardinality(S) <= 2
  PROVE  Few(S)
<1>1. SUFFICES ASSUME NEW e \in S, NEW f \in S, NEW g \in S, e # f, f # g, e # g PROVE FALSE
  BY DEF Few
<1>2. IsFiniteSet({e}) /\ Cardinality({e}) = 1
  BY FS_Singleton
<1>3. IsFiniteSet({e} \cup {f}) /\ Cardinality({e} \cup {f}) = 2
  <2>1. f \notin {e}
    BY <1>1
  <2>2. QED
    BY <1>2, <2>1, FS_AddElement
<1>4. IsFiniteSet({e} \cup {f} \cup {g}) /\ Cardinality({e} \cup {f} \cup {g}) = 3
  <2>1. PICK D : D = {e} \cup {f}
    OBVIOUS
  <2>2. g \notin D /\ IsFiniteSet(D) /\ Cardinality(D) = 2
    BY <1>1, <1>3, <2>1
  <2>3. IsFiniteSet(D \cup {g}) /\ Cardinality(D \cup {g}) = 3
    BY <2>2, FS_AddElement
  <2>4. QED
    BY <2>1, <2>3
<1>5. {e} \cup {f} \cup {g} \in SUBSET S /\ Cardinality(S) \in Nat
  BY FS_CardinalityType
<1>6. QED
  BY <1>4, <1>5, FS_Subset

\* A frame ends: pointers without a finger go up.
LEMMA PadLift ==
  ASSUME PadInv, Pad!Lift
  PROVE  /\ PadInv'
         /\ \A s \in {0, 1} : on'[s] => on[s] /\ vid'[s] = vid[s]
         /\ before = before' /\ Few(before) => before' = {vid[s] : s \in {q \in {0, 1} : on'[q]}}
<1>1. /\ turn = Len(td) + 1 /\ turn' = 0
      /\ touch' = [s \in {0, 1} |-> IF s \in Pad!Gone THEN Pad!After(touch[s], "UP") ELSE touch[s]]
      /\ mouse' = IF Pad!Gone \cap {0} # {} THEN Pad!After(mouse, "UP") ELSE mouse
      /\ on' = [s \in {0, 1} |-> on[s] /\ s \notin Pad!Gone]
      /\ before' = {td[j] : j \in DOMAIN td}
      /\ UNCHANGED <<td, vid, seen, prev_buttons, prev_axis, held, axis>>
  BY DEF Pad!Lift, Pad!LiftIf, Pad!Slots, Pad!pad
<1>2. Pad!Gone = {s \in {0, 1} : on[s] /\ ~seen[s]}
  BY DEF Pad!Gone, Pad!Slots
<1>3. turn # 0 /\ before' = Met(turn) /\ before' = Met(Len(td) + 1)
  BY <1>1, PadTypes DEF Met
<1>4. /\ \A s \in {0, 1} : seen[s] => on[s] /\ vid[s] \in Met(turn)
      /\ Resting => \A f \in Met(turn) : \E s \in {0, 1} : seen[s] /\ vid[s] = f
      /\ on[0] /\ on[1] => vid[0] # vid[1]
  BY <1>3 DEF PadInv
<1>5. \A s \in {0, 1} : on'[s] <=> seen[s]
  BY <1>1, <1>2, <1>4, PadTypes
<1>6. /\ Pad!PadReleased
      /\ \A s \in {0, 1} : touch[s] = IF on[s] THEN "down" ELSE "up"
      /\ mouse = touch[0]
  BY DEF PadInv, Pad!LegalEvents, Pad!Slots
<1>7. \A s \in {0, 1} : touch'[s] = IF on'[s] THEN "down" ELSE "up"
  BY <1>1, <1>2, <1>6 DEF Pad!After
<1>8. mouse' = touch'[0]
  BY <1>1, <1>2, <1>6 DEF Pad!After
<1>9. Pad!LegalEvents' /\ Pad!PadReleased'
  BY <1>1, <1>6, <1>7, <1>8 DEF Pad!LegalEvents, Pad!PadReleased, Pad!Slots
<1>10. Pad!TypeOK'
  <2>1. turn' \in 0..MaxReports + 1
    BY <1>1, PadBound
  <2>2. on' \in [{0, 1} -> BOOLEAN]
    BY <1>1, PadTypes
  <2>3. touch' \in [{0, 1} -> {"up", "down", "broken"}] /\ mouse' \in {"up", "down", "broken"}
    BY <1>1, <1>7, <1>8
  <2>4. QED
    BY <1>1, <2>1, <2>2, <2>3, PadTypes DEF Pad!TypeOK, Pad!Slots, Pad!NoFinger, Pad!Views
<1>11. IsFiniteSet(before')
  BY <1>3, PadFinite
<1>12. \A s \in {0, 1} : on'[s] => on[s] /\ vid'[s] = vid[s] /\ vid'[s] \in before'
  BY <1>1, <1>3, <1>4, <1>5
<1>13. turn' \in 0..Len(td') + 1
  BY <1>1, PadTypes
<1>14. PadInv'
  BY <1>1, <1>4, <1>9, <1>10, <1>11, <1>12, <1>13 DEF PadInv
<1>15. ASSUME before = before', Few(before)
       PROVE  before' = {vid[s] : s \in {q \in {0, 1} : on'[q]}}
  <2>1. Resting
    BY <1>3, <1>15 DEF Resting
  <2>2. \A f \in before' : \E s \in {0, 1} : on'[s] /\ vid[s] = f
    BY <1>3, <1>4, <1>5, <2>1
  <2>3. \A s \in {0, 1} : on'[s] => vid[s] \in before'
    BY <1>3, <1>4, <1>5
  <2>4. QED
    BY <2>2, <2>3
<1>16. QED
  BY <1>12, <1>14, <1>15

LEMMA PadStep ==
  ASSUME PadInv, [Pad!Next]_(Pad!vars)
  PROVE  PadInv'
<1>1. CASE UNCHANGED Pad!vars
  <2>1. UNCHANGED <<turn, td, prev_buttons, prev_axis, on, vid, seen, held, axis, touch, mouse, before>>
    BY <1>1 DEF Pad!vars
  <2>2. Pad!TypeOK' /\ Pad!LegalEvents' /\ Pad!PadReleased'
    BY <2>1 DEF PadInv, Pad!TypeOK, Pad!LegalEvents, Pad!PadReleased
  <2>3. Met(turn)' = Met(turn) /\ Resting' = Resting
    BY <2>1 DEF Met, Resting, Few
  <2>4. QED
    BY <2>1, <2>2, <2>3 DEF PadInv
<1>2. CASE Pad!Next
  BY <1>2, PadFrame, PadFinger, PadLift DEF Pad!Next
<1>3. QED
  BY <1>1, <1>2

LEMMA PadKeeps ==
  ASSUME PadInv, [Pad!Next]_(Pad!vars)
  PROVE  [/\ \A s \in Pad!Slots : on[s] /\ on'[s] => vid'[s] = vid[s]
          /\ on'[0] /\ on'[1] => vid'[0] # vid'[1]]_(Pad!vars)
<1>1. on'[0] /\ on'[1] => vid'[0] # vid'[1]
  BY PadStep DEF PadInv
<1>2. CASE Pad!Frame
  BY <1>1, <1>2 DEF Pad!Frame, Pad!FrameWith
<1>3. CASE Pad!Finger
  BY <1>1, <1>3, PadFinger DEF Pad!Slots
<1>4. CASE Pad!Lift
  BY <1>1, <1>4, PadLift DEF Pad!Slots
<1>5. QED
  BY <1>2, <1>3, <1>4 DEF Pad!Next

LEMMA PadReports ==
  ASSUME PadInv, [Pad!Next]_(Pad!vars)
  PROVE  [turn # 0 /\ turn' = 0 /\ before = before' /\ Pad!Cardinality(before) <= 2
             => before' = {vid[s] : s \in {x \in Pad!Slots : on'[x]}}]_(Pad!vars)
<1>1. Pad!Cardinality(before) = Cardinality(before)
  BY DEF Pad!Cardinality, Cardinality
<1>2. Pad!Cardinality(before) <= 2 => Few(before)
  BY <1>1, PadFew DEF PadInv
<1>3. CASE Pad!Frame
  BY <1>3 DEF Pad!Frame, Pad!FrameWith
<1>4. CASE Pad!Finger
  <2>1. turn \in Nat /\ turn' = turn + 1
    BY <1>4, PadTypes DEF Pad!Finger, Pad!FingerIn
  <2>2. turn' # 0
    BY <2>1
  <2>3. QED
    BY <2>2
<1>5. CASE Pad!Lift
  BY <1>2, <1>5, PadLift DEF Pad!Slots
<1>6. QED
  BY <1>3, <1>4, <1>5 DEF Pad!Next

\* Pointers and mouse go down, move and go up in that order, a pointer that is
\* down belongs to one finger, at most two fingers that rest are both reported,
\* and what is released is released for the game (main.c:604-637): for any
\* buttons, dead zone, fingers and number of them in a report.
THEOREM InputSafe == MainSpec => InputFollows
<1>1. MainInit => PadInv
  BY PadInit DEF MainInit
<1>2. PadInv /\ [MainNext]_all => PadInv'
  BY Apart, PadStep
<1>3. PadInv => Pad!TypeOK /\ Pad!LegalEvents /\ Pad!PadReleased
  BY DEF PadInv
<1>4. PadInv /\ [MainNext]_all =>
        [/\ \A s \in Pad!Slots : on[s] /\ on'[s] => vid'[s] = vid[s]
         /\ on'[0] /\ on'[1] => vid'[0] # vid'[1]]_(Pad!vars)
  BY Apart, PadKeeps
<1>5. PadInv /\ [MainNext]_all =>
        [turn # 0 /\ turn' = 0 /\ before = before' /\ Pad!Cardinality(before) <= 2
             => before' = {vid[s] : s \in {x \in Pad!Slots : on'[x]}}]_(Pad!vars)
  BY Apart, PadReports
<1>6. QED
  BY <1>1, <1>2, <1>3, <1>4, <1>5, PTL DEF MainSpec, InputFollows, Pad!SlotKeepsFinger, Pad!AllReported

----------------------------------------------------------------------------
(* The ELF loader.  While it is at a library, the ones before it are as    *)
(* they will stay, and of its own words those before the index of the loop *)
(* are what that loop makes of them.                                       *)

Reading == {"open", "read", "magic", "segments", "err_free_so", "err_free_text", "err_free_data"}
Linking == {"relocate", "resolve", "flush", "init", "booted"}

LoaderTypes ==
    /\ image \in Images /\ lib \in Libs /\ PlainOverrides
    /\ at \in 1..Len(Boot) /\ pc \in Reading \cup Linking \cup {"return", "fatal", "undefined"}
    /\ i \in Nat \ {0} /\ res \in {-1, 0, 1}
    /\ fd \in BOOLEAN /\ so_data \in BOOLEAN
    /\ text \in [Mods -> BOOLEAN] /\ data \in [Mods -> BOOLEAN]
    /\ loaded \in Seq(Mods)
    /\ \A j, k \in DOMAIN loaded : j < k => Place(loaded[j]) < Place(loaded[k])
    /\ mem \in [Mods -> Seq(Nat)] /\ ran \in [Mods -> Seq(Nat)]
    /\ dirty \subseteq {mod}

\* The list has libraries that main is past, or the one it is at; those behind
\* it are untouched.
LibsInv ==
    /\ \A m \in ToSet(loaded) :
          Place(m) < at \/ (m = mod /\ (pc \in Linking \/ (pc = "return" /\ res >= 0)))
    /\ \A m \in Mods : at < Place(m) => ~text[m] /\ ~data[m]
    /\ \A m \in Mods : ran[m] # <<>> => Linked(m) /\ (Place(m) < at \/ pc \in {"init", "booted"})

FileInv ==
    /\ fd => pc \in {"read", "return", "fatal"} /\ (pc = "return" => res < 0)
    /\ so_data => pc \in {"magic", "segments", "err_free_so", "err_free_text", "err_free_data", "undefined"}

\* A header of this kind is among the first n.
Came(h, n) == \E k \in 1..n : Img.phdrs[k] = h
BlocksInv ==
    /\ pc \in {"open", "read", "magic", "err_free_so", "fatal"} => ~text[mod] /\ ~data[mod]
    /\ pc = "segments" =>
          /\ i <= Len(Img.phdrs) + 1 /\ res >= 0
          /\ text[mod] <=> Came("text", i - 1)
          /\ data[mod] <=> Came("data", i - 1)
          /\ data[mod] => text[mod]
    /\ pc = "err_free_so" /\ res >= 0 => ~TextFirst(mod)
    /\ pc = "err_free_text" => res = -1 /\ ~data[mod]
    /\ pc = "err_free_data" => res = -1
    /\ pc = "return" /\ res < 0 => ~text[mod] /\ ~data[mod]
    /\ TextFirst(mod) /\ (pc \in Linking \/ (pc = "return" /\ res >= 0)) =>
          Linked(mod) /\ text[mod] /\ data[mod]

CleanInv == pc \in {"open", "read", "magic", "init", "booted"} => dirty = {}

\* A word between so_relocate and so_resolve.
Half(m, r) == IF r.type = "RELATIVE" \/ Sym(m, r).defined THEN Reference(m, r) ELSE r.addend
WordsInv ==
    /\ \A m \in ToSet(loaded) :
          /\ Len(mem[m]) = Len(image[m].rels)
          /\ Place(m) < at \/ pc \in {"flush", "init", "booted"} => Final(m)
    /\ Linked(mod) =>
          \A w \in DOMAIN Img.rels :
              LET r == Img.rels[w] IN
              /\ pc = "return" => mem[mod][w] = r.addend
              /\ pc = "relocate" => mem[mod][w] = IF w < i THEN Half(mod, r) ELSE r.addend
              /\ pc = "resolve" => mem[mod][w] = IF w < i THEN Reference(mod, r) ELSE Half(mod, r)

LoaderInv ==
    LoaderTypes /\ LibsInv /\ FileInv /\ BlocksInv /\ CleanInv /\ WordsInv /\ CallsCode

\* A set of naturals has a least element.
LEMMA FirstIs ==
  ASSUME NEW S \in SUBSET Nat, S # {}
  PROVE  FirstOf(S) \in S /\ \A j \in S : FirstOf(S) <= j
<1>1. PICK R : R = OpToRel(<, Nat) /\ IsWellFoundedOn(R, Nat)
  BY NatLessThanWellFounded
<1>2. \A j, k \in Nat : k < j => <<k, j>> \in R
  BY <1>1 DEF OpToRel
<1>3. PICK k \in S : \A j \in S : <<j, k>> \notin R
  BY <1>1, WFMin
<1>4. ASSUME NEW j \in S PROVE k <= j
  <2>1. k \in Nat /\ j \in Nat /\ ~(j < k)
    BY <1>2, <1>3
  <2>2. QED
    BY <2>1
<1>5. QED
  BY <1>4 DEF FirstOf

LEMMA Boots ==
  /\ Len(Boot) \in Nat \ {0} /\ DOMAIN Boot = 1..Len(Boot)
  /\ \A k \in 1..Len(Boot) : Boot[k] \in Mods /\ Place(Boot[k]) = k
  /\ \A m \in Mods : Place(m) \in 1..Len(Boot) /\ Boot[Place(m)] = m
<1>1. Len(Boot) \in Nat /\ DOMAIN Boot = 1..Len(Boot) /\ Len(Boot) # 0
  BY Loader, LenProperties, EmptySeq DEF LoaderAssumption
<1>2. \A k \in 1..Len(Boot) : Boot[k] \in Mods /\ Place(Boot[k]) = k
  BY <1>1, Loader DEF LoaderAssumption, Mods, ToSet, Place
<1>3. ASSUME NEW m \in Mods PROVE Place(m) \in 1..Len(Boot) /\ Boot[Place(m)] = m
  <2>1. PICK k \in 1..Len(Boot) : Boot[k] = m
    BY <1>1 DEF Mods, ToSet
  <2>2. QED
    BY <1>2, <2>1
<1>4. QED
  BY <1>1, <1>2, <1>3

\* Where the loader is.
LEMMA Here ==
  ASSUME LoaderTypes
  PROVE  mod \in Mods /\ Place(mod) = at /\ \A m \in Mods : Place(m) = at => m = mod
BY Boots DEF LoaderTypes, mod

\* What an image is.
LEMMA Tables ==
  ASSUME LoaderTypes, NEW m \in Mods
  PROVE  /\ WellFormed(image[m])
         /\ Base[m] \in Nat \ {0}
         /\ Len(image[m].needed) \in Nat /\ DOMAIN image[m].needed = 1..Len(image[m].needed)
         /\ \A l \in ToSet(image[m].needed) \cap Mods : Place(l) < Place(m)
         /\ \A n \in DOMAIN lib : lib[n] \in Nat \ {0}
<1>1. image \in Images /\ lib \in Libs
  BY DEF LoaderTypes
<1>2. image[m].needed \in Seq(ToSet(image[m].needed))
  BY <1>1, Loader DEF LoaderAssumption
<1>3. QED
  BY <1>1, <1>2, Loader, LenProperties DEF LoaderAssumption

LEMMA Symbols ==
  ASSUME LoaderTypes, NEW m \in Mods
  PROVE  /\ image[m].syms \in Seq([name : Names, defined : BOOLEAN, info : Nat, value : Nat])
         /\ Len(image[m].syms) \in Nat /\ DOMAIN image[m].syms = 1..Len(image[m].syms)
         /\ \A k \in DOMAIN image[m].syms :
               /\ image[m].syms[k].name \in Names /\ image[m].syms[k].value \in Nat
               /\ image[m].syms[k].defined \in BOOLEAN
         /\ \A j, k \in DOMAIN image[m].syms :
               image[m].syms[j].info # 0 /\ image[m].syms[k].info # 0
                 /\ image[m].syms[j].name = image[m].syms[k].name => j = k
<1>1. PICK y : y = image[m].syms
  OBVIOUS
<1>2. y \in Seq([name : Names, defined : BOOLEAN, info : Nat, value : Nat])
  BY <1>1, Tables DEF WellFormed
<1>3. Len(y) \in Nat /\ DOMAIN y = 1..Len(y)
  BY <1>2, LenProperties
<1>4. \A k \in 1..Len(y) : y[k] \in [name : Names, defined : BOOLEAN, info : Nat, value : Nat]
  BY <1>2, ElementOfSeq
<1>5. \A k \in 1..Len(y) : y[k].name \in Names /\ y[k].value \in Nat /\ y[k].defined \in BOOLEAN
  BY <1>4
<1>6. \A j, k \in DOMAIN y :
          y[j].info # 0 /\ y[k].info # 0 /\ y[j].name = y[k].name => j = k
  BY <1>1, Tables DEF WellFormed
<1>7. QED
  BY <1>1, <1>2, <1>3, <1>5, <1>6

LEMMA Relocations ==
  ASSUME LoaderTypes, NEW m \in Mods
  PROVE  /\ Len(image[m].rels) \in Nat /\ DOMAIN image[m].rels = 1..Len(image[m].rels)
         /\ \A w \in DOMAIN image[m].rels :
               /\ image[m].rels[w].type \in Types /\ image[m].rels[w].addend \in Nat
               /\ image[m].rels[w].sym \in DOMAIN image[m].syms
               /\ image[m].rels[w].type # "RELATIVE" => Sym(m, image[m].rels[w]).info # 0
         /\ image[m].inits \in Seq(DOMAIN image[m].rels)
<1>1. PICK y : y = image[m].rels
  OBVIOUS
<1>2. y \in Seq([type : Types, sym : DOMAIN image[m].syms, addend : Nat])
  BY <1>1, Tables DEF WellFormed
<1>3. Len(y) \in Nat /\ DOMAIN y = 1..Len(y)
  BY <1>2, LenProperties
<1>4. \A k \in 1..Len(y) : y[k] \in [type : Types, sym : DOMAIN image[m].syms, addend : Nat]
  BY <1>2, ElementOfSeq
<1>5. \A k \in 1..Len(y) : y[k].type \in Types /\ y[k].addend \in Nat /\ y[k].sym \in DOMAIN image[m].syms
  BY <1>4
<1>6. /\ \A k \in DOMAIN y : y[k].type # "RELATIVE" => image[m].syms[y[k].sym].info # 0
      /\ image[m].inits \in Seq(DOMAIN y)
  BY <1>1, Tables DEF WellFormed
<1>7. QED
  BY <1>1, <1>3, <1>5, <1>6 DEF Sym

\* The first hit in a list of symbols is the only definition of the name.
LEMMA FoundIs ==
  ASSUME LoaderTypes, NEW m \in Mods, NEW n \in Names, NEW ks, NEW N \in Nat,
         DOMAIN ks = 1..N, \A j \in 1..N : ks[j] \in DOMAIN image[m].syms
  PROVE  Found(m, n, ks) = IF \E j \in 1..N : ks[j] \in Defs(m, n) THEN Own(m, n) ELSE 0
<1>1. PICK hits : hits = {j \in DOMAIN ks : Matches(m, n, ks[j])}
  OBVIOUS
<1>2. \A j \in 1..N : j \in hits <=> ks[j] \in Defs(m, n)
  BY <1>1 DEF Defs
<1>3. Found(m, n, ks) = IF hits = {} THEN 0 ELSE Base[m] + image[m].syms[ks[FirstOf(hits)]].value
  BY <1>1 DEF Found, AddressOf
<1>4. CASE hits = {}
  BY <1>2, <1>3, <1>4
<1>5. CASE hits # {}
  <2>1. hits \in SUBSET Nat
    BY <1>1
  <2>2. FirstOf(hits) \in hits
    BY <1>5, <2>1, FirstIs
  <2>3. ks[FirstOf(hits)] \in Defs(m, n) /\ FirstOf(hits) \in 1..N
    BY <1>1, <1>2, <2>2
  <2>4. \A j, k \in Defs(m, n) : j = k
    BY Symbols DEF Defs, Matches
  <2>5. ks[FirstOf(hits)] = CHOOSE k \in Defs(m, n) : TRUE
    BY <2>3, <2>4
  <2>6. QED
    BY <1>3, <1>5, <2>3, <2>5 DEF Own
<1>6. QED
  BY <1>4, <1>5

LEMMA OwnIs ==
  ASSUME LoaderTypes, NEW m \in Mods, NEW n, Defs(m, n) # {}
  PROVE  Own(m, n) \in Nat \ {0}
<1>1. PICK k \in Defs(m, n) : k = CHOOSE j \in Defs(m, n) : TRUE
  OBVIOUS
<1>2. image[m].syms[k].value \in Nat
  BY <1>1, Symbols DEF Defs
<1>3. Base[m] \in Nat \ {0}
  BY Tables
<1>4. QED
  BY <1>1, <1>2, <1>3 DEF Own

\* so_symbol, by the hash table or without it.
LEMMA Lookup ==
  ASSUME LoaderTypes, NEW m \in Mods, NEW n \in Names
  PROVE  so_symbol(m, n) = IF Defs(m, n) = {} THEN 0 ELSE Own(m, n)
<1>1. PICK ys, N : ys = image[m].syms /\ N = Len(ys)
  OBVIOUS
<1>2. N \in Nat /\ DOMAIN ys = 1..N
  BY <1>1, Symbols
<1>3. PICK ks : ks = [k \in DOMAIN ys |-> k]
  OBVIOUS
<1>4. Found(m, n, ks) = IF Defs(m, n) = {} THEN 0 ELSE Own(m, n)
  <2>1. DOMAIN ks = 1..N /\ \A j \in 1..N : ks[j] \in DOMAIN image[m].syms
    BY <1>1, <1>2, <1>3
  <2>2. Found(m, n, ks) = IF \E j \in 1..N : ks[j] \in Defs(m, n) THEN Own(m, n) ELSE 0
    BY <1>2, <2>1, FoundIs
  <2>3. (\E j \in 1..N : ks[j] \in Defs(m, n)) <=> Defs(m, n) # {}
    BY <1>1, <1>2, <1>3 DEF Defs
  <2>4. QED
    BY <2>2, <2>3
<1>5. PICK bs : bs = image[m].bucket[n]
  OBVIOUS
<1>6. Found(m, n, bs) = 0 \/ (Defs(m, n) # {} /\ Found(m, n, bs) = Own(m, n))
  <2>1. bs \in Seq(DOMAIN image[m].syms)
    BY <1>5, Tables DEF WellFormed
  <2>2. Len(bs) \in Nat /\ DOMAIN bs = 1..Len(bs) /\ \A j \in 1..Len(bs) : bs[j] \in DOMAIN image[m].syms
    BY <2>1, LenProperties, ElementOfSeq
  <2>3. Found(m, n, bs) = IF \E j \in 1..Len(bs) : bs[j] \in Defs(m, n) THEN Own(m, n) ELSE 0
    BY <2>2, FoundIs
  <2>4. QED
    BY <2>3
<1>7. so_symbol(m, n) =
        LET hashed == IF "hash" \in image[m].sections THEN Found(m, n, bs) ELSE 0
        IN  IF hashed # 0 THEN hashed ELSE Found(m, n, ks)
  BY <1>1, <1>3, <1>5 DEF so_symbol
<1>8. QED
  BY <1>4, <1>6, <1>7

\* so_resolve_link finds the first needed library that has the name.
LEMMA LinkIs ==
  ASSUME LoaderTypes, NEW m \in Mods, NEW n \in Names
  PROVE  so_resolve_link(m, n) =
             IF Providers(m, n) = {} THEN 0 ELSE Own(image[m].needed[FirstOf(Providers(m, n))], n)
<1>1. PICK ls : ls = image[m].needed
  OBVIOUS
<1>2. PICK hits : hits = {j \in DOMAIN ls : ls[j] # m /\ Linked(ls[j]) /\ so_symbol(ls[j], n) # 0}
  OBVIOUS
<1>3. \A l : Linked(l) => l \in Mods
  BY LenProperties, ElementOfSeq DEF Linked, ToSet, LoaderTypes
<1>4. hits = Providers(m, n)
  <2>1. ASSUME NEW j \in DOMAIN ls, Linked(ls[j])
        PROVE  (ls[j] # m /\ so_symbol(ls[j], n) # 0) <=> Defs(ls[j], n) # {}
    <3>1. ls[j] \in Mods /\ ls[j] \in ToSet(ls)
      BY <1>3, <2>1 DEF ToSet
    <3>2. Place(ls[j]) < Place(m) /\ Place(m) \in Nat
      BY <1>1, <3>1, Tables, Boots
    <3>3. ls[j] # m
      BY <3>2
    <3>4. so_symbol(ls[j], n) = IF Defs(ls[j], n) = {} THEN 0 ELSE Own(ls[j], n)
      BY <3>1, Lookup
    <3>5. Defs(ls[j], n) # {} => Own(ls[j], n) # 0
      BY <3>1, OwnIs
    <3>6. QED
      BY <3>3, <3>4, <3>5
  <2>2. QED
    BY <1>1, <1>2, <2>1 DEF Providers
<1>5. so_resolve_link(m, n) = IF hits = {} THEN 0 ELSE so_symbol(ls[FirstOf(hits)], n)
  BY <1>1, <1>2 DEF so_resolve_link
<1>6. CASE hits # {}
  <2>1. hits \in SUBSET Nat
    <3>1. DOMAIN ls \subseteq Nat
      BY <1>1, Tables
    <3>2. QED
      BY <1>2, <3>1
  <2>2. FirstOf(hits) \in hits
    BY <1>6, <2>1, FirstIs
  <2>3. PICK l : l = ls[FirstOf(hits)]
    OBVIOUS
  <2>4. l \in Mods /\ Defs(l, n) # {}
    BY <1>1, <1>3, <1>4, <2>2, <2>3 DEF Providers
  <2>5. so_symbol(l, n) = Own(l, n)
    BY <2>4, Lookup
  <2>6. QED
    BY <1>1, <1>4, <1>5, <1>6, <2>3, <2>5
<1>7. QED
  BY <1>4, <1>5, <1>6

\* A library that another needs and that is in the list.
LEMMA ProviderIs ==
  ASSUME LoaderTypes, NEW m \in Mods, NEW n, Providers(m, n) # {}
  PROVE  LET l == image[m].needed[FirstOf(Providers(m, n))] IN l \in Mods /\ Defs(l, n) # {}
<1>1. Providers(m, n) \in SUBSET Nat
  BY Tables DEF Providers
<1>2. FirstOf(Providers(m, n)) \in Providers(m, n)
  BY <1>1, FirstIs
<1>3. \A l : Linked(l) => l \in Mods
  BY LenProperties, ElementOfSeq DEF Linked, ToSet, LoaderTypes
<1>4. QED
  BY <1>2, <1>3 DEF Providers

LEMMA AddressIs ==
  ASSUME LoaderTypes, NEW m \in Mods, NEW k \in DOMAIN image[m].syms
  PROVE  Address(m, image[m].syms[k]) \in Nat
<1>1. PICK s : s = image[m].syms[k]
  OBVIOUS
<1>2. s.value \in Nat /\ s.defined \in BOOLEAN /\ Base[m] \in Nat
  BY <1>1, Symbols, Tables
<1>3. \A n \in DOMAIN lib : lib[n] \in Nat
  BY Tables
<1>4. Providers(m, s.name) # {} => Own(image[m].needed[FirstOf(Providers(m, s.name))], s.name) \in Nat
  BY ProviderIs, OwnIs
<1>5. QED
  BY <1>1, <1>2, <1>3, <1>4 DEF Address

LEMMA ReferenceIs ==
  ASSUME LoaderTypes, NEW m \in Mods, NEW w \in DOMAIN image[m].rels
  PROVE  /\ Reference(m, image[m].rels[w]) \in Nat
         /\ Half(m, image[m].rels[w]) \in Nat
<1>1. PICK r, s : r = image[m].rels[w] /\ s = image[m].syms[r.sym]
  OBVIOUS
<1>2. Address(m, s) \in Nat /\ r.addend \in Nat /\ Base[m] \in Nat
  BY <1>1, Relocations, AddressIs, Tables
<1>3. Reference(m, r) \in Nat
  BY <1>1, <1>2 DEF Reference, Sym
<1>4. QED
  BY <1>1, <1>2, <1>3 DEF Half

\* so_resolve makes of an import what it refers to.
LEMMA ImportIs ==
  ASSUME LoaderTypes, NEW m \in Mods, NEW w \in DOMAIN image[m].rels, NEW r, NEW s,
         r = image[m].rels[w], s = Sym(m, r), r.type # "RELATIVE", ~s.defined
  PROVE  Import(r.addend, r.type, so_resolve_link(m, s.name), s.name) = Reference(m, r)
<1>1. s.name \in Names /\ r.addend \in Nat /\ r.type \in Types
  BY Relocations, Symbols DEF Sym
<1>2. CASE s.name \in DOMAIN lib
  <2>1. lib[s.name] \in Nat \ {0}
    BY <1>2, Tables
  <2>2. r \in ToSet(image[m].rels)
    BY DEF ToSet
  <2>3. r.type = "ABS32" => r.addend = 0
    BY <1>2, <2>2 DEF LoaderTypes, PlainOverrides, Sym
  <2>4. QED
    BY <1>1, <1>2, <2>1, <2>3 DEF Import, Reference, Address
<1>3. CASE s.name \notin DOMAIN lib
  <2>1. PICK link : link = so_resolve_link(m, s.name)
    OBVIOUS
  <2>2. Address(m, s) = link
    BY <1>1, <1>3, <2>1, LinkIs DEF Address
  <2>3. link \in Nat
    BY <1>1, <2>1, LinkIs, ProviderIs, OwnIs
  <2>4. QED
    BY <1>1, <1>3, <2>1, <2>2, <2>3 DEF Import, Reference
<1>4. QED
  BY <1>2, <1>3

\* What a library refers to does not depend on libraries behind it.
LEMMA Stays ==
  ASSUME LoaderTypes, UNCHANGED <<image, lib>>, NEW m \in Mods, ToSet(loaded') \subseteq Mods,
         \A l \in Mods : Place(l) < Place(m) => (Linked(l)' <=> Linked(l))
  PROVE  \A r : Reference(m, r)' = Reference(m, r) /\ Half(m, r)' = Half(m, r)
<1>1. \A l, n : Defs(l, n)' = Defs(l, n) /\ Own(l, n)' = Own(l, n)
  BY DEF Defs, Own, Matches
<1>2. ToSet(loaded) \subseteq Mods
  BY LenProperties, ElementOfSeq DEF ToSet, LoaderTypes
<1>3. \A j \in DOMAIN image[m].needed : Linked(image[m].needed[j])' <=> Linked(image[m].needed[j])
  <2>1. ASSUME NEW j \in DOMAIN image[m].needed
        PROVE  Linked(image[m].needed[j])' <=> Linked(image[m].needed[j])
    <3>1. PICK l : l = image[m].needed[j]
      OBVIOUS
    <3>2. l \in Mods => Place(l) < Place(m)
      BY <3>1, Tables DEF ToSet
    <3>3. Linked(l)' <=> Linked(l)
      BY <1>2, <3>2 DEF Linked
    <3>4. QED
      BY <3>1, <3>3
  <2>2. QED
    BY <2>1
<1>4. \A n : Providers(m, n)' = Providers(m, n)
  BY <1>1, <1>3 DEF Providers
<1>5. \A s : Address(m, s)' = Address(m, s)
  BY <1>1, <1>4 DEF Address
<1>6. \A r : Sym(m, r)' = Sym(m, r)
  BY DEF Sym
<1>7. \A r : Reference(m, r)' = Reference(m, r)
  BY <1>5, <1>6 DEF Reference
<1>8. QED
  BY <1>6, <1>7 DEF Half

\* A step that neither joins a library nor writes words or calls constructors.
LEMMA StaysAll ==
  ASSUME LoaderTypes, UNCHANGED <<image, lib, loaded>>
  PROVE  /\ \A m \in Mods : \A r : Reference(m, r)' = Reference(m, r) /\ Half(m, r)' = Half(m, r)
         /\ \A m : Linked(m)' <=> Linked(m)
<1>1. ToSet(loaded') \subseteq Mods
  BY LenProperties, ElementOfSeq DEF ToSet, LoaderTypes
<1>2. \A m : Linked(m)' <=> Linked(m)
  BY DEF Linked
<1>3. QED
  BY <1>1, <1>2, Stays

LEMMA CallsStay ==
  ASSUME LoaderInv, UNCHANGED <<image, lib, ran>>,
         \A m \in Mods : ran[m] # <<>> => \A r : Reference(m, r)' = Reference(m, r)
  PROVE  CallsCode'
<1>1. ASSUME NEW m \in Mods, NEW k \in 1..Len(ran[m])
      PROVE  \E w \in ToSet(image[m].inits) : ran[m][k] = Reference(m, image[m].rels[w])'
  <2>1. ran[m] # <<>>
    BY <1>1
  <2>2. QED
    BY <1>1, <2>1 DEF LoaderInv, CallsCode
<1>2. QED
  BY <1>1 DEF CallsCode

\* While a library is read it is not in the list, so that what happens to it is
\* no matter to the words of the others.
LEMMA WordsWhileReading ==
  ASSUME LoaderInv, UNCHANGED <<image, lib, at, loaded, mem, ran>>, pc \in Reading
  PROVE  WordsInv' /\ CallsCode' /\ ~Linked(mod) /\ ~Linked(mod)'
<1>1. /\ \A m \in Mods : \A r : Reference(m, r)' = Reference(m, r)
      /\ \A m : Linked(m)' <=> Linked(m)
  BY StaysAll DEF LoaderInv
<1>2. CallsCode'
  BY <1>1, CallsStay
<1>3. mod' = mod /\ ToSet(loaded') = ToSet(loaded)
  BY DEF mod
<1>4. ~Linked(mod)
  BY Here DEF LoaderInv, LibsInv, Linked, Reading, Linking, LoaderTypes
<1>5. \A m \in ToSet(loaded) : m \in Mods /\ Place(m) < at
  <2>1. \A m \in ToSet(loaded) : m \in Mods
    BY LenProperties, ElementOfSeq DEF ToSet, LoaderInv, LoaderTypes
  <2>2. QED
    BY <1>4, <2>1 DEF LoaderInv, LibsInv, Linked
<1>6. \A m \in ToSet(loaded) : Final(m) => Final(m)'
  BY <1>1, <1>5 DEF Final, Words
<1>7. WordsInv'
  BY <1>1, <1>3, <1>4, <1>5, <1>6 DEF WordsInv, LoaderInv
<1>8. QED
  BY <1>1, <1>2, <1>3, <1>4, <1>7

\* Nor is what libraries were given.
LEMMA LibsWhileReading ==
  ASSUME LoaderInv, UNCHANGED <<image, lib, at, loaded, mem, ran>>, pc \in Reading,
         pc' \in Reading \cup {"return", "fatal", "undefined"},
         \A m \in Mods : m # mod => text'[m] = text[m] /\ data'[m] = data[m]
  PROVE  LibsInv'
<1>1. \A m \in ToSet(loaded) : Place(m) < at
  BY WordsWhileReading DEF LoaderInv, LibsInv, Linked
<1>2. \A m \in Mods : at < Place(m) => m # mod
  BY Here, Boots DEF LoaderInv, LoaderTypes
<1>3. \A m \in Mods : ran[m] # <<>> => Linked(m) /\ Place(m) < at
  BY DEF LoaderInv, LibsInv, Reading
<1>4. \A m : Linked(m)' <=> Linked(m)
  BY DEF Linked
<1>5. QED
  BY <1>1, <1>2, <1>3, <1>4 DEF LoaderInv, LibsInv

LEMMA OpenStep == ASSUME LoaderInv, Open PROVE LoaderInv'
<1>1. pc = "open" /\ UNCHANGED <<image, lib, at, i, so_data, text, data, loaded, mem, dirty, ran>>
  BY DEF Open, run
<1>2. \/ fd' = TRUE /\ pc' = "read" /\ res' = res
      \/ res' = -1 /\ pc' = "return" /\ fd' = fd
  BY DEF Open, Goto
<1>3. WordsInv' /\ CallsCode' /\ LibsInv'
  BY <1>1, <1>2, WordsWhileReading, LibsWhileReading DEF Reading
<1>4. mod' = mod
  BY <1>1 DEF mod
<1>5. LoaderTypes'
  BY <1>1, <1>2, <1>4 DEF LoaderInv, LoaderTypes, Reading, PlainOverrides
<1>6. FileInv'
  BY <1>1, <1>2 DEF LoaderInv, FileInv, LoaderTypes
<1>7. BlocksInv' /\ CleanInv'
  BY <1>1, <1>2, <1>4 DEF LoaderInv, BlocksInv, CleanInv, Linking
<1>8. QED
  BY <1>3, <1>5, <1>6, <1>7 DEF LoaderInv

LEMMA ReadFileStep == ASSUME LoaderInv, ReadFile PROVE LoaderInv'
<1>1. pc = "read" /\ UNCHANGED <<image, lib, at, i, text, data, loaded, mem, dirty, ran>>
  BY DEF ReadFile, run
<1>2. \/ so_data' = TRUE /\ fd' = FALSE /\ pc' = "magic" /\ res' = res
      \/ res' = -1 /\ pc' = "return" /\ fd' = fd /\ so_data' = so_data
  BY DEF ReadFile, Goto
<1>3. WordsInv' /\ CallsCode' /\ LibsInv'
  BY <1>1, <1>2, WordsWhileReading, LibsWhileReading DEF Reading
<1>4. mod' = mod
  BY <1>1 DEF mod
<1>5. LoaderTypes'
  BY <1>1, <1>2, <1>4 DEF LoaderInv, LoaderTypes, Reading, PlainOverrides
<1>6. FileInv'
  BY <1>1, <1>2 DEF LoaderInv, FileInv, LoaderTypes
<1>7. BlocksInv' /\ CleanInv'
  BY <1>1, <1>2, <1>4 DEF LoaderInv, BlocksInv, CleanInv, Linking
<1>8. QED
  BY <1>3, <1>5, <1>6, <1>7 DEF LoaderInv

LEMMA MagicStep == ASSUME LoaderInv, Magic PROVE LoaderInv'
<1>1. pc = "magic" /\ i' = 1 /\ UNCHANGED <<image, lib, at, fd, so_data, text, data, loaded, mem, dirty, ran>>
  BY DEF Magic, run, Loop
<1>2. \/ pc' = "segments" /\ res' = 0
      \/ pc' = "err_free_so" /\ res' = -1
  BY DEF Magic, Goto
<1>3. WordsInv' /\ CallsCode' /\ LibsInv'
  BY <1>1, <1>2, WordsWhileReading, LibsWhileReading DEF Reading
<1>4. mod' = mod /\ Img' = Img
  BY <1>1 DEF mod, Img
<1>5. LoaderTypes'
  BY <1>1, <1>2, <1>4 DEF LoaderInv, LoaderTypes, Reading, PlainOverrides
<1>6. FileInv'
  BY <1>1, <1>2 DEF LoaderInv, FileInv, LoaderTypes
<1>7. BlocksInv' /\ CleanInv'
  <2>1. Len(Img.phdrs) \in Nat
    BY Here, Tables, LenProperties DEF LoaderInv, WellFormed, Img
  <2>2. ~text[mod] /\ ~data[mod] /\ ~Came("text", 0) /\ ~Came("data", 0)
    BY <1>1 DEF LoaderInv, BlocksInv, Came
  <2>3. ~Came("text", i - 1)' /\ ~Came("data", i - 1)'
    BY <1>1, <1>4 DEF Came
  <2>4. QED
    BY <1>1, <1>2, <1>4, <2>1, <2>2, <2>3 DEF LoaderInv, BlocksInv, CleanInv, Linking
<1>8. QED
  BY <1>3, <1>5, <1>6, <1>7 DEF LoaderInv

LEMMA AstrayStep == ASSUME LoaderInv, Astray PROVE LoaderInv'
<1>1. /\ pc = "segments" /\ pc' = "undefined"
      /\ UNCHANGED <<image, lib, at, i, fd, so_data, text, data, res, loaded, mem, dirty, ran>>
  BY DEF Astray, run, load, Goto
<1>2. WordsInv' /\ CallsCode' /\ LibsInv'
  BY <1>1, WordsWhileReading, LibsWhileReading DEF Reading
<1>3. mod' = mod
  BY <1>1 DEF mod
<1>4. LoaderTypes'
  BY <1>1, <1>3 DEF LoaderInv, LoaderTypes, PlainOverrides
<1>5. FileInv' /\ BlocksInv' /\ CleanInv'
  BY <1>1, <1>3 DEF LoaderInv, FileInv, BlocksInv, CleanInv, Linking
<1>6. QED
  BY <1>2, <1>4, <1>5 DEF LoaderInv

LEMMA Headers ==
  ASSUME LoaderTypes
  PROVE  /\ Len(Img.phdrs) \in Nat /\ DOMAIN Img.phdrs = 1..Len(Img.phdrs)
         /\ \A j, k \in 1..Len(Img.phdrs) :
               Img.phdrs[j] \in {"text", "data"} /\ Img.phdrs[k] = Img.phdrs[j] => j = k
         /\ Came("text", Len(Img.phdrs)) /\ Came("data", Len(Img.phdrs))
<1>1. PICK p : p = Img.phdrs
  OBVIOUS
<1>2. WellFormed(Img)
  BY Here, Tables DEF Img
<1>3. p \in Seq({"text", "data", "other"})
  BY <1>1, <1>2 DEF WellFormed
<1>4. Len(p) \in Nat /\ DOMAIN p = 1..Len(p)
  BY <1>3, LenProperties
<1>5. PICK a \in DOMAIN p, b \in DOMAIN p :
          /\ p[a] = "text" /\ p[b] = "data"
          /\ \A k \in DOMAIN p \ {a, b} : p[k] = "other"
  BY <1>1, <1>2 DEF WellFormed
<1>6. \A j, k \in 1..Len(p) : p[j] \in {"text", "data"} /\ p[k] = p[j] => j = k
  BY <1>4, <1>5
<1>7. QED
  BY <1>1, <1>4, <1>5, <1>6 DEF Came

LEMMA SegmentStep == ASSUME LoaderInv, Segment PROVE LoaderInv'
<1>1. PICK p : p = Img.phdrs[i]
  OBVIOUS
<1>2. /\ pc = "segments" /\ i <= Len(Img.phdrs)
      /\ UNCHANGED <<image, lib, at, fd, so_data, loaded, mem, ran>>
  BY DEF Segment
<1>3. \/ p = "other" /\ i' = i + 1 /\ UNCHANGED <<pc, text, data, res, dirty>>
      \/ /\ p = "text" /\ text' = [text EXCEPT ![mod] = TRUE] /\ res' = 1
         /\ dirty' = dirty \cup {mod} /\ i' = i + 1 /\ UNCHANGED <<pc, data>>
      \/ p = "text" /\ res' = -1 /\ pc' = "err_free_so" /\ UNCHANGED <<i, text, data, dirty>>
      \/ p = "data" /\ ~text[mod] /\ pc' = "err_free_so" /\ UNCHANGED <<i, text, data, res, dirty>>
      \/ /\ p = "data" /\ text[mod] /\ data' = [data EXCEPT ![mod] = TRUE] /\ res' = 1
         /\ i' = i + 1 /\ UNCHANGED <<pc, text, dirty>>
      \/ /\ p = "data" /\ text[mod] /\ res' = -1 /\ pc' = "err_free_text"
         /\ UNCHANGED <<i, text, data, dirty>>
  BY <1>1 DEF Segment, Loop, Goto
<1>4. mod' = mod /\ Img' = Img /\ mod \in Mods /\ (TextFirst(mod)' <=> TextFirst(mod))
  BY <1>2, Here DEF mod, Img, TextFirst, LoaderInv
<1>5. i \in Nat \ {0} /\ Len(Img.phdrs) \in Nat /\ DOMAIN Img.phdrs = 1..Len(Img.phdrs)
  BY Headers DEF LoaderInv, LoaderTypes
<1>6. \A h : Came(h, i) <=> Came(h, i - 1) \/ p = h
  BY <1>1, <1>5 DEF Came
<1>7. \A h : i' = i + 1 => (Came(h, i - 1)' <=> Came(h, i))
  BY <1>4, <1>5 DEF Came
<1>8. \A h \in {"text", "data"} : p = h => ~Came(h, i - 1)
  <2>1. SUFFICES ASSUME p \in {"text", "data"}, Came(p, i - 1) PROVE FALSE
    OBVIOUS
  <2>2. PICK k \in 1..(i - 1) : Img.phdrs[k] = p
    BY <2>1 DEF Came
  <2>3. k \in 1..Len(Img.phdrs) /\ i \in 1..Len(Img.phdrs) /\ k # i
    BY <1>2, <1>5
  <2>4. QED
    BY <1>1, <2>1, <2>2, <2>3, Headers DEF LoaderInv
<1>9. /\ text[mod] <=> Came("text", i - 1)
      /\ data[mod] <=> Came("data", i - 1)
      /\ data[mod] => text[mod]
      /\ res >= 0
  BY <1>2 DEF LoaderInv, BlocksInv
<1>10. WordsInv' /\ CallsCode'
  BY <1>2, WordsWhileReading DEF Reading
<1>11. pc' \in Reading
  BY <1>2, <1>3 DEF Reading
<1>12. \A m \in Mods : m # mod => text'[m] = text[m] /\ data'[m] = data[m]
  BY <1>3 DEF LoaderInv, LoaderTypes
<1>13. LibsInv'
  BY <1>2, <1>11, <1>12, LibsWhileReading DEF Reading
<1>14. LoaderTypes'
  <2>1. PlainOverrides'
    BY <1>2 DEF LoaderInv, LoaderTypes, PlainOverrides
  <2>2. text' \in [Mods -> BOOLEAN] /\ data' \in [Mods -> BOOLEAN] /\ res' \in {-1, 0, 1}
    BY <1>3, <1>4 DEF LoaderInv, LoaderTypes
  <2>3. dirty' \subseteq {mod} /\ i' \in Nat \ {0}
    BY <1>3, <1>4, <1>5 DEF LoaderInv, LoaderTypes
  <2>4. QED
    BY <1>2, <1>4, <1>11, <2>1, <2>2, <2>3 DEF LoaderInv, LoaderTypes
<1>15. FileInv'
  BY <1>2, <1>3 DEF LoaderInv, FileInv
<1>16. CleanInv'
  BY <1>2, <1>3 DEF CleanInv
<1>17. BlocksInv'
  <2>1. CASE p = "other"
    BY <1>2, <1>3, <1>4, <1>5, <1>6, <1>7, <1>9, <2>1 DEF BlocksInv, Linking
  <2>2. CASE p = "text" /\ i' = i + 1
    <3>1. text'[mod] /\ data'[mod] = data[mod] /\ res' >= 0 /\ pc' = "segments"
      BY <1>2, <1>3, <1>4, <1>5, <2>2 DEF LoaderInv, LoaderTypes
    <3>2. Came("text", i - 1)' /\ (Came("data", i - 1)' <=> Came("data", i - 1))
      BY <1>6, <1>7, <2>2
    <3>3. i' <= Len(Img'.phdrs) + 1
      BY <1>2, <1>4, <1>5, <2>2
    <3>4. QED
      BY <1>4, <1>9, <3>1, <3>2, <3>3 DEF BlocksInv, Linking
  <2>3. CASE p = "text" /\ i' # i + 1
    <3>1. ~text[mod] /\ ~data[mod]
      BY <1>8, <1>9, <2>3
    <3>2. res' = -1 /\ pc' = "err_free_so" /\ text' = text /\ data' = data
      BY <1>3, <2>3
    <3>3. QED
      BY <1>4, <3>1, <3>2 DEF BlocksInv, Linking
  <2>4. CASE p = "data" /\ ~text[mod]
    <3>1. ~data[mod] /\ pc' = "err_free_so" /\ text' = text /\ data' = data
      BY <1>3, <1>9, <2>4
    <3>2. ~TextFirst(mod)
      <4>1. SUFFICES ASSUME NEW k \in DOMAIN Img.phdrs, Img.phdrs[k] = "text",
                            \A j \in 1..(k - 1) : Img.phdrs[j] = "other"
                     PROVE  FALSE
        BY DEF TextFirst, Img
      <4>2. k \in Nat /\ k # i /\ ~(k < i)
        <5>1. k \in Nat /\ k >= 1
          BY <1>5
        <5>2. ~Came("text", i - 1)
          BY <1>9, <2>4
        <5>3. k \notin 1..(i - 1)
          BY <4>1, <5>2 DEF Came
        <5>4. k # i
          BY <1>1, <2>4, <4>1
        <5>5. QED
          BY <1>5, <5>1, <5>3, <5>4
      <4>3. i \in 1..(k - 1)
        BY <1>5, <4>2
      <4>4. QED
        BY <1>1, <2>4, <4>1, <4>3
    <3>3. QED
      BY <1>4, <2>4, <3>1, <3>2 DEF BlocksInv, Linking
  <2>5. CASE p = "data" /\ text[mod] /\ i' = i + 1
    <3>1. data'[mod] /\ text'[mod] /\ res' >= 0 /\ pc' = "segments"
      BY <1>2, <1>3, <1>4, <1>5, <2>5 DEF LoaderInv, LoaderTypes
    <3>2. Came("data", i - 1)' /\ Came("text", i - 1)'
      BY <1>6, <1>7, <1>9, <2>5
    <3>3. i' <= Len(Img'.phdrs) + 1
      BY <1>2, <1>4, <1>5, <2>5
    <3>4. QED
      BY <1>4, <3>1, <3>2, <3>3 DEF BlocksInv, Linking
  <2>6. CASE p = "data" /\ text[mod] /\ i' # i + 1
    <3>1. ~data[mod]
      BY <1>8, <1>9, <2>6
    <3>2. res' = -1 /\ pc' = "err_free_text" /\ data' = data
      BY <1>3, <2>6
    <3>3. QED
      BY <1>4, <3>1, <3>2 DEF BlocksInv, Linking
  <2>7. QED
    BY <1>3, <2>1, <2>2, <2>3, <2>4, <2>5, <2>6
<1>18. QED
  BY <1>10, <1>13, <1>14, <1>15, <1>16, <1>17 DEF LoaderInv

LEMMA FreeAllStep == ASSUME LoaderInv, FreeAll PROVE LoaderInv'
<1>1. /\ pc \in {"err_free_data", "err_free_text", "err_free_so"}
      /\ data' = IF pc = "err_free_data" THEN [data EXCEPT ![mod] = FALSE] ELSE data
      /\ text' = IF pc \in {"err_free_data", "err_free_text"} THEN [text EXCEPT ![mod] = FALSE] ELSE text
      /\ so_data' = FALSE /\ pc' = "return"
      /\ UNCHANGED <<image, lib, at, i, fd, res, loaded, mem, dirty, ran>>
  BY DEF FreeAll, FreeFrom, Goto, run
<1>2. mod' = mod /\ mod \in Mods /\ (TextFirst(mod)' <=> TextFirst(mod))
  BY <1>1, Here DEF mod, TextFirst, LoaderInv
<1>3. WordsInv' /\ CallsCode'
  BY <1>1, WordsWhileReading DEF Reading
<1>4. \A m \in Mods : m # mod => text'[m] = text[m] /\ data'[m] = data[m]
  BY <1>1 DEF LoaderInv, LoaderTypes
<1>5. LibsInv'
  BY <1>1, <1>4, LibsWhileReading DEF Reading
<1>6. LoaderTypes'
  BY <1>1, <1>2 DEF LoaderInv, LoaderTypes, PlainOverrides
<1>7. FileInv' /\ CleanInv'
  BY <1>1 DEF LoaderInv, FileInv, CleanInv
<1>8. ~text'[mod] /\ ~data'[mod] /\ (res >= 0 => ~TextFirst(mod))
  BY <1>1, <1>2 DEF LoaderInv, LoaderTypes, BlocksInv
<1>9. BlocksInv'
  BY <1>1, <1>2, <1>8 DEF BlocksInv, Linking
<1>10. QED
  BY <1>3, <1>5, <1>6, <1>7, <1>9 DEF LoaderInv

\* A library joins the list behind those before it, with the words of its file.
LEMMA SectionsStep == ASSUME LoaderInv, Sections PROVE LoaderInv'
<1>1. /\ pc = "segments" /\ i > Len(Img.phdrs)
      /\ UNCHANGED <<image, lib, at, i, fd, text, data, dirty, ran>>
  BY DEF Sections, SectionsElse
<1>2. \/ /\ so_data' = FALSE /\ loaded' = Append(loaded, mod)
         /\ mem' = [mem EXCEPT ![mod] = [k \in DOMAIN Img.rels |-> Img.rels[k].addend]]
         /\ res' = 0 /\ pc' = "return"
      \/ res' = -1 /\ pc' = "err_free_data" /\ UNCHANGED <<so_data, loaded, mem>>
  BY DEF Sections, SectionsElse, Joined, Goto
<1>3. mod' = mod /\ Img' = Img /\ mod \in Mods /\ Place(mod) = at
  BY <1>1, Here DEF mod, Img, LoaderInv
<1>4. PlainOverrides'
  BY <1>1 DEF LoaderInv, LoaderTypes, PlainOverrides
<1>5. CASE pc' = "err_free_data"
  <2>1. res' = -1 /\ UNCHANGED <<so_data, loaded, mem>>
    BY <1>2, <1>5
  <2>2. WordsInv' /\ CallsCode' /\ LibsInv'
    BY <1>1, <1>5, <2>1, WordsWhileReading, LibsWhileReading DEF Reading
  <2>3. LoaderTypes'
    BY <1>1, <1>3, <1>4, <1>5, <2>1 DEF LoaderInv, LoaderTypes, Reading
  <2>4. FileInv' /\ CleanInv' /\ BlocksInv'
    BY <1>1, <1>5, <2>1 DEF LoaderInv, FileInv, CleanInv, BlocksInv, Linking
  <2>5. QED
    BY <2>2, <2>3, <2>4 DEF LoaderInv
<1>6. CASE pc' = "return"
  <2>1. PICK words : words = [k \in DOMAIN Img.rels |-> Img.rels[k].addend]
    OBVIOUS
  <2>2. so_data' = FALSE /\ loaded' = Append(loaded, mod) /\ mem' = [mem EXCEPT ![mod] = words] /\ res' = 0
    BY <1>2, <1>6, <2>1
  <2>3. words \in Seq(Nat) /\ Len(words) = Len(Img.rels)
    <3>1. PICK N : N = Len(Img.rels)
      OBVIOUS
    <3>2. N \in Nat /\ DOMAIN Img.rels = 1..N /\ \A w \in 1..N : Img.rels[w].addend \in Nat
      BY <1>3, <3>1, Relocations DEF LoaderInv, Img
    <3>3. words = [k \in 1..N |-> Img.rels[k].addend]
      BY <2>1, <3>2
    <3>4. QED
      BY <3>1, <3>2, <3>3, IsASeq
  <2>4. /\ loaded \in Seq(Mods) /\ Len(loaded) \in Nat /\ DOMAIN loaded = 1..Len(loaded)
        /\ \A k \in 1..Len(loaded) : loaded[k] \in Mods
    BY LenProperties, ElementOfSeq DEF LoaderInv, LoaderTypes
  <2>5. /\ loaded' \in Seq(Mods) /\ Len(loaded') = Len(loaded) + 1 /\ DOMAIN loaded' = 1..(Len(loaded) + 1)
        /\ \A k \in 1..Len(loaded) : loaded'[k] = loaded[k]
        /\ loaded'[Len(loaded) + 1] = mod
    BY <1>3, <2>2, <2>4, AppendProperties, LenProperties
  <2>6. \A m : Linked(m)' <=> Linked(m) \/ m = mod
    <3>1. ASSUME NEW m PROVE m \in ToSet(loaded') <=> m \in ToSet(loaded) \/ m = mod
      <4>1. m \in ToSet(loaded') <=> \E k \in 1..(Len(loaded) + 1) : loaded'[k] = m
        BY <2>5 DEF ToSet
      <4>2. m \in ToSet(loaded) <=> \E k \in 1..Len(loaded) : loaded[k] = m
        BY <2>4 DEF ToSet
      <4>3. \A k \in 1..(Len(loaded) + 1) : k \in 1..Len(loaded) \/ k = Len(loaded) + 1
        BY <2>4
      <4>4. Len(loaded) + 1 \in 1..(Len(loaded) + 1) /\ \A k \in 1..Len(loaded) : k \in 1..(Len(loaded) + 1)
        BY <2>4
      <4>5. QED
        BY <2>5, <4>1, <4>2, <4>3, <4>4
    <3>2. QED
      BY <3>1 DEF Linked
  <2>7. \A m : Linked(m) => m \in Mods /\ Place(m) < at /\ m # mod
    <3>1. \A m : Linked(m) => m \in Mods
      BY <2>4 DEF Linked, ToSet
    <3>2. \A m : Linked(m) => Place(m) < at
      BY <1>1 DEF LoaderInv, LibsInv, Linked, Linking
    <3>3. QED
      BY <1>3, <3>1, <3>2 DEF LoaderInv, LoaderTypes
  <2>8. \A m \in Mods : Place(m) <= at => \A r : Reference(m, r)' = Reference(m, r)
    <3>1. ToSet(loaded') \subseteq Mods
      BY <2>5, LenProperties, ElementOfSeq DEF ToSet
    <3>2. ASSUME NEW m \in Mods, Place(m) <= at
          PROVE  \A l \in Mods : Place(l) < Place(m) => (Linked(l)' <=> Linked(l))
      <4>1. \A l \in Mods : Place(l) \in Nat
        BY Boots
      <4>2. \A l \in Mods : Place(l) < Place(m) => l # mod
        BY <1>3, <3>2, <4>1 DEF LoaderInv, LoaderTypes
      <4>3. QED
        BY <2>6, <4>2
    <3>3. UNCHANGED <<image, lib>> /\ LoaderTypes
      BY <1>1 DEF LoaderInv
    <3>4. QED
      BY <3>1, <3>2, <3>3, Stays
  <2>9. /\ mem' \in [Mods -> Seq(Nat)] /\ mem'[mod] = words
        /\ \A m \in Mods : m # mod => mem'[m] = mem[m]
    BY <1>3, <2>2, <2>3 DEF LoaderInv, LoaderTypes
  <2>10. CallsCode'
    <3>1. \A m \in Mods : ran[m] # <<>> => Place(m) <= at
      BY <1>3, <2>7, Boots DEF LoaderInv, LoaderTypes, LibsInv
    <3>2. QED
      BY <1>1, <2>8, <3>1, CallsStay
  <2>11. LoaderTypes'
    <3>1. \A j, k \in DOMAIN loaded' : j < k => Place(loaded'[j]) < Place(loaded'[k])
      <4>1. SUFFICES ASSUME NEW j \in 1..(Len(loaded) + 1), NEW k \in 1..(Len(loaded) + 1), j < k
                     PROVE  Place(loaded'[j]) < Place(loaded'[k])
        BY <2>5
      <4>2. j \in 1..Len(loaded) /\ loaded'[j] = loaded[j]
        BY <2>4, <2>5, <4>1
      <4>3. CASE k = Len(loaded) + 1
        <5>1. Linked(loaded[j])
          BY <2>4, <4>2 DEF Linked, ToSet
        <5>2. QED
          BY <1>3, <2>5, <2>7, <4>2, <4>3, <5>1
      <4>4. CASE k # Len(loaded) + 1
        <5>1. k \in 1..Len(loaded)
          BY <2>4, <4>1, <4>4
        <5>2. QED
          BY <2>4, <2>5, <4>1, <4>2, <5>1 DEF LoaderInv, LoaderTypes
      <4>5. QED
        BY <4>3, <4>4
    <3>2. QED
      BY <1>1, <1>3, <1>4, <1>6, <2>2, <2>5, <2>9, <3>1 DEF LoaderInv, LoaderTypes
  <2>12. LibsInv'
    <3>1. \A m \in ToSet(loaded') : Place(m) < at' \/ m = mod'
      BY <1>1, <1>3, <2>6, <2>7 DEF Linked
    <3>2. \A m \in Mods : ran'[m] # <<>> => Linked(m)' /\ Place(m) < at'
      BY <1>1, <2>6 DEF LoaderInv, LibsInv
    <3>3. QED
      BY <1>1, <1>6, <2>2, <3>1, <3>2 DEF LoaderInv, LibsInv
  <2>13. FileInv' /\ CleanInv'
    BY <1>1, <1>6, <2>2 DEF LoaderInv, FileInv, CleanInv
  <2>14. BlocksInv'
    <3>1. i - 1 = Len(Img.phdrs)
      <4>1. i \in Nat /\ i <= Len(Img.phdrs) + 1
        BY <1>1 DEF LoaderInv, LoaderTypes, BlocksInv
      <4>2. Len(Img.phdrs) \in Nat
        BY Headers DEF LoaderInv
      <4>3. QED
        BY <1>1, <4>1, <4>2
    <3>2. text[mod] /\ data[mod]
      BY <1>1, <3>1, Headers DEF LoaderInv, BlocksInv
    <3>3. mod' \in ToSet(loaded')
      BY <1>3, <2>6 DEF Linked
    <3>4. QED
      BY <1>1, <1>3, <1>6, <2>2, <3>2, <3>3 DEF BlocksInv, Linked
  <2>15. WordsInv'
    <3>1. \A m \in ToSet(loaded') : Len(mem'[m]) = Len(image'[m].rels)
      BY <1>1, <2>3, <2>6, <2>7, <2>9 DEF LoaderInv, WordsInv, Linked, Img
    <3>2. ASSUME NEW m \in ToSet(loaded'), Place(m) < at' PROVE Final(m)'
      <4>1. Linked(m) /\ m \in Mods /\ m # mod /\ Place(m) <= at
        <5>1. at' = at /\ at \in Nat
          BY <1>1, Boots DEF LoaderInv, LoaderTypes
        <5>2. m # mod
          BY <1>3, <3>2, <5>1
        <5>3. Linked(m)
          BY <2>6, <5>2, <3>2 DEF Linked
        <5>4. m \in Mods /\ Place(m) \in Nat
          BY <2>7, <5>3, Boots
        <5>5. QED
          BY <3>2, <5>1, <5>2, <5>3, <5>4
      <4>2. Final(m)
        BY <1>1, <3>2, <4>1 DEF LoaderInv, WordsInv, Linked
      <4>3. QED
        BY <1>1, <2>8, <2>9, <4>1, <4>2 DEF Final, Words
    <3>3. \A w \in DOMAIN Img'.rels : mem'[mod'][w] = Img'.rels[w].addend
      BY <1>3, <2>1, <2>9
    <3>4. QED
      BY <1>6, <3>1, <3>2, <3>3 DEF WordsInv
  <2>16. QED
    BY <2>10, <2>11, <2>12, <2>13, <2>14, <2>15 DEF LoaderInv
<1>7. QED
  BY <1>2, <1>5, <1>6

LEMMA LoadedStep == ASSUME LoaderInv, Loaded PROVE LoaderInv'
<1>1. /\ pc = "return" /\ i' = 1 /\ pc' = IF res < 0 THEN "fatal" ELSE "relocate"
      /\ UNCHANGED <<image, lib, at, fd, so_data, text, data, res, loaded, mem, dirty, ran>>
  BY DEF Loaded, LoadedTo, Goto, Loop, run, load
<1>2. /\ mod' = mod /\ Img' = Img /\ mod \in Mods /\ Place(mod) = at
      /\ (TextFirst(mod)' <=> TextFirst(mod))
  BY <1>1, Here DEF mod, Img, TextFirst, LoaderInv
<1>3. /\ \A m \in Mods : \A r : Reference(m, r)' = Reference(m, r) /\ Half(m, r)' = Half(m, r)
      /\ \A m : Linked(m)' <=> Linked(m)
  BY <1>1, StaysAll DEF LoaderInv
<1>4. CallsCode'
  BY <1>1, <1>3, CallsStay
<1>5. LoaderTypes'
  BY <1>1, <1>2 DEF LoaderInv, LoaderTypes, PlainOverrides, Linking
<1>6. LibsInv'
  BY <1>1, <1>2, <1>3 DEF LoaderInv, LibsInv, Linking, LoaderTypes
<1>7. FileInv' /\ CleanInv'
  BY <1>1 DEF LoaderInv, FileInv, CleanInv
<1>8. BlocksInv'
  BY <1>1, <1>2, <1>3 DEF LoaderInv, BlocksInv, Linking, LoaderTypes
<1>9. WordsInv'
  <2>1. \A m \in ToSet(loaded) : Final(m) => Final(m)'
    <3>1. \A m \in ToSet(loaded) : m \in Mods
      BY LenProperties, ElementOfSeq DEF ToSet, LoaderInv, LoaderTypes
    <3>2. QED
      BY <1>1, <1>3, <3>1 DEF Final, Words
  <2>2. \A w \in DOMAIN Img.rels : w >= 1
    BY <1>2, Relocations DEF Img, LoaderInv
  <2>3. Linked(mod) => \A w \in DOMAIN Img.rels : mem[mod][w] = Img.rels[w].addend
    BY <1>1 DEF LoaderInv, WordsInv
  <2>4. \A w \in DOMAIN Img.rels : ~(w < i')
    BY <1>1, <1>2, Relocations DEF Img, LoaderInv
  <2>5. \A m \in ToSet(loaded') : /\ Len(mem'[m]) = Len(image'[m].rels)
                                  /\ Place(m) < at' => Final(m)'
    BY <1>1, <2>1 DEF LoaderInv, WordsInv
  <2>6. QED
    BY <1>1, <1>2, <1>3, <2>3, <2>4, <2>5 DEF WordsInv
<1>10. QED
  BY <1>4, <1>5, <1>6, <1>7, <1>8, <1>9 DEF LoaderInv

\* The steps of linking leave the memory and the list as they are.
LEMMA WhileLinking ==
  ASSUME LoaderInv, UNCHANGED <<image, lib, at, load, loaded>>, pc \in Linking, pc' \in Linking,
         pc \in {"init", "booted"} => pc' \in {"init", "booted"}
  PROVE  /\ FileInv' /\ BlocksInv'
         /\ UNCHANGED ran => LibsInv' /\ CallsCode'
         /\ mod' = mod /\ Img' = Img /\ mod \in Mods /\ Place(mod) = at
         /\ \A m \in Mods : \A r : Reference(m, r)' = Reference(m, r) /\ Half(m, r)' = Half(m, r)
         /\ \A m : Linked(m)' <=> Linked(m)
         /\ \A m \in ToSet(loaded) : m \in Mods /\ Place(m) <= at /\ (m # mod => Place(m) < at)
<1>1. /\ mod' = mod /\ Img' = Img /\ mod \in Mods /\ Place(mod) = at
      /\ (TextFirst(mod)' <=> TextFirst(mod))
  BY Here DEF mod, Img, TextFirst, LoaderInv
<1>2. /\ \A m \in Mods : \A r : Reference(m, r)' = Reference(m, r) /\ Half(m, r)' = Half(m, r)
      /\ \A m : Linked(m)' <=> Linked(m)
  BY StaysAll DEF LoaderInv
<1>3. \A m \in ToSet(loaded) : m \in Mods /\ Place(m) <= at /\ (m # mod => Place(m) < at)
  <2>1. \A m \in ToSet(loaded) : m \in Mods
    BY LenProperties, ElementOfSeq DEF ToSet, LoaderInv, LoaderTypes
  <2>2. \A m \in ToSet(loaded) : Place(m) \in Nat /\ (Place(m) < at \/ m = mod)
    BY <2>1, Boots DEF LoaderInv, LibsInv
  <2>3. QED
    BY <1>1, <2>1, <2>2 DEF LoaderInv, LoaderTypes
<1>4. FileInv' /\ BlocksInv'
  BY <1>1, <1>2 DEF LoaderInv, FileInv, BlocksInv, Linking, load
<1>5. UNCHANGED ran => LibsInv' /\ CallsCode'
  <2>1. UNCHANGED ran => CallsCode'
    BY <1>2, CallsStay
  <2>2. UNCHANGED ran => LibsInv'
    BY <1>1, <1>2 DEF LoaderInv, LibsInv, load
  <2>3. QED
    BY <2>1, <2>2
<1>6. QED
  BY <1>1, <1>2, <1>3, <1>4, <1>5

\* Writing one word of the library that is linked.
LEMMA WordWritten ==
  ASSUME LoaderTypes, NEW v \in Nat, i \in 1..Len(mem[mod]),
         Write(v) \/ (UNCHANGED mem /\ mem[mod][i] = v)
  PROVE  /\ mem' \in [Mods -> Seq(Nat)] /\ Len(mem'[mod]) = Len(mem[mod])
         /\ \A w \in 1..Len(mem[mod]) : mem'[mod][w] = IF w = i THEN v ELSE mem[mod][w]
         /\ \A m \in Mods : m # mod => mem'[m] = mem[m]
<1>1. mod \in Mods /\ mem \in [Mods -> Seq(Nat)]
  BY Here DEF LoaderTypes
<1>2. CASE Write(v)
  <2>1. PICK s, t : s = mem[mod] /\ t = [s EXCEPT ![i] = v]
    OBVIOUS
  <2>2. s \in Seq(Nat) /\ Len(s) \in Nat /\ DOMAIN s = 1..Len(s)
    BY <1>1, <2>1, LenProperties
  <2>3. t \in Seq(Nat) /\ Len(t) = Len(s)
    BY <2>1, <2>2, ExceptSeq
  <2>4. \A w \in 1..Len(s) : t[w] = IF w = i THEN v ELSE s[w]
    BY <2>1, <2>2
  <2>5. mem' = [mem EXCEPT ![mod] = t]
    BY <1>2, <2>1 DEF Write
  <2>6. mem' \in [Mods -> Seq(Nat)] /\ mem'[mod] = t /\ \A m \in Mods : m # mod => mem'[m] = mem[m]
    BY <1>1, <2>3, <2>5
  <2>7. QED
    BY <2>1, <2>3, <2>4, <2>6
<1>3. CASE UNCHANGED mem /\ mem[mod][i] = v
  BY <1>1, <1>3
<1>4. QED
  BY <1>2, <1>3

\* The library that a loop over relocations is at.
LEMMA LoopLinks ==
  ASSUME LoaderInv
  PROVE  /\ Len(Rels(mod)) \in Nat /\ i \in Nat \ {0}
         /\ i <= Len(Rels(mod)) => Linked(mod)
         /\ Linked(mod) => /\ Rels(mod) = Img.rels /\ Len(mem[mod]) = Len(Img.rels)
                           /\ DOMAIN Img.rels = 1..Len(Img.rels)
<1>1. mod \in Mods /\ i \in Nat \ {0}
  BY Here DEF LoaderInv, LoaderTypes
<1>2. Len(Img.rels) \in Nat /\ DOMAIN Img.rels = 1..Len(Img.rels)
  BY <1>1, Relocations DEF LoaderInv, Img
<1>3. Linked(mod) => Len(mem[mod]) = Len(Img.rels)
  BY DEF LoaderInv, WordsInv, Linked, Img
<1>4. Rels(mod) = IF Linked(mod) THEN Img.rels ELSE <<>>
  BY DEF Rels, Img
<1>5. Len(<<>>) = 0
  OBVIOUS
<1>6. QED
  BY <1>1, <1>2, <1>3, <1>4, <1>5

\* A turn of one of the two loops, which makes v of the word it is at.
LEMMA TurnStep ==
  ASSUME LoaderInv, pc \in {"relocate", "resolve"}, i <= Len(Rels(mod)),
         i' = i + 1, UNCHANGED <<image, lib, at, pc, load, loaded, dirty, ran>>,
         NEW v \in Nat, Write(v) \/ (UNCHANGED mem /\ mem[mod][i] = v),
         v = IF pc = "relocate" THEN Half(mod, Img.rels[i]) ELSE Reference(mod, Img.rels[i])
  PROVE  LoaderInv'
<1>1. /\ FileInv' /\ BlocksInv' /\ LibsInv' /\ CallsCode'
      /\ mod' = mod /\ Img' = Img /\ mod \in Mods /\ Place(mod) = at
      /\ \A m \in Mods : \A r : Reference(m, r)' = Reference(m, r) /\ Half(m, r)' = Half(m, r)
      /\ \A m : Linked(m)' <=> Linked(m)
      /\ \A m \in ToSet(loaded) : m \in Mods
  BY WhileLinking DEF Linking
<1>2. /\ Linked(mod) /\ i \in 1..Len(mem[mod]) /\ Len(mem[mod]) = Len(Img.rels) /\ i \in Nat
      /\ DOMAIN Img.rels = 1..Len(Img.rels) /\ Len(Img.rels) \in Nat
  BY LoopLinks
<1>3. /\ mem' \in [Mods -> Seq(Nat)] /\ Len(mem'[mod]) = Len(mem[mod])
      /\ \A w \in 1..Len(mem[mod]) : mem'[mod][w] = IF w = i THEN v ELSE mem[mod][w]
      /\ \A m \in Mods : m # mod => mem'[m] = mem[m]
  BY <1>2, WordWritten DEF LoaderInv
<1>4. LoaderTypes' /\ CleanInv'
  <2>1. PlainOverrides'
    BY DEF LoaderInv, LoaderTypes, PlainOverrides
  <2>2. CleanInv'
    BY DEF LoaderInv, CleanInv
  <2>3. i' \in Nat \ {0}
    BY <1>2
  <2>4. dirty' \subseteq {mod'}
    BY <1>1 DEF LoaderInv, LoaderTypes
  <2>5. mem' \in [Mods -> Seq(Nat)]
    BY <1>3
  <2>6. LoaderTypes'
    BY <2>1, <2>3, <2>4, <2>5 DEF LoaderInv, LoaderTypes, load
  <2>7. QED
    BY <2>2, <2>6
<1>5. WordsInv'
  <2>1. \A m \in ToSet(loaded) : Len(mem'[m]) = Len(image[m].rels)
    BY <1>1, <1>2, <1>3 DEF LoaderInv, WordsInv, Img
  <2>2. ASSUME NEW m \in ToSet(loaded), Place(m) < at PROVE Final(m)'
    <3>1. m \in Mods /\ m # mod
      BY <1>1, <2>2 DEF LoaderInv, LoaderTypes
    <3>2. Final(m)
      BY <2>2 DEF LoaderInv, WordsInv
    <3>3. QED
      BY <1>1, <1>3, <3>1, <3>2 DEF Final, Words
  <2>3. ASSUME NEW w \in 1..Len(Img.rels)
        PROVE  LET r == Img.rels[w] IN
               /\ pc = "relocate" => mem'[mod][w] = IF w < i + 1 THEN Half(mod, r) ELSE r.addend
               /\ pc = "resolve" => mem'[mod][w] = IF w < i + 1 THEN Reference(mod, r) ELSE Half(mod, r)
    <3>1. PICK r : r = Img.rels[w]
      OBVIOUS
    <3>2. /\ pc = "relocate" => mem[mod][w] = IF w < i THEN Half(mod, r) ELSE r.addend
          /\ pc = "resolve" => mem[mod][w] = IF w < i THEN Reference(mod, r) ELSE Half(mod, r)
      BY <1>2, <3>1 DEF LoaderInv, WordsInv
    <3>3. CASE w = i
      BY <1>2, <1>3, <2>3, <3>1, <3>3
    <3>4. CASE w # i
      <4>1. w < i + 1 <=> w < i
        BY <1>2, <3>4
      <4>2. mem'[mod][w] = mem[mod][w]
        BY <1>2, <1>3, <3>4
      <4>3. QED
        BY <3>1, <3>2, <4>1, <4>2
    <3>5. QED
      BY <3>3, <3>4
  <2>4. \A w \in DOMAIN Img'.rels :
            LET r == Img'.rels[w] IN
            /\ pc' = "relocate" => mem'[mod'][w] = IF w < i' THEN Half(mod, r) ELSE r.addend
            /\ pc' = "resolve" => mem'[mod'][w] = IF w < i' THEN Reference(mod, r) ELSE Half(mod, r)
    BY <1>1, <1>2, <2>3
  <2>5. QED
    BY <1>1, <2>1, <2>2, <2>4 DEF WordsInv
<1>6. QED
  BY <1>1, <1>4, <1>5 DEF LoaderInv

LEMMA RelocateStep == ASSUME LoaderInv, Relocate PROVE LoaderInv'
<1>1. PICK r, s, w : r = Rels(mod)[i] /\ s = Sym(mod, r) /\ w = mem[mod][i]
  OBVIOUS
<1>2. /\ pc = "relocate" /\ i <= Len(Rels(mod)) /\ i' = i + 1
      /\ UNCHANGED <<image, lib, at, pc, load, loaded, dirty, ran>>
  BY DEF Relocate, RelocateIf, Loop
<1>3. \/ r.type = "ABS32" /\ s.defined /\ Write(w + Base[mod] + s.value)
      \/ r.type = "RELATIVE" /\ Write(w + Base[mod])
      \/ r.type \in {"GLOB_DAT", "JUMP_SLOT"} /\ s.defined /\ Write(Base[mod] + s.value)
      \/ r.type # "RELATIVE" /\ ~s.defined /\ UNCHANGED mem
  BY <1>1 DEF Relocate, RelocateIf
<1>4. /\ mod \in Mods /\ Linked(mod) /\ r = Img.rels[i] /\ i \in DOMAIN Img.rels
  BY <1>1, <1>2, LoopLinks, Here DEF LoaderInv
<1>5. w = r.addend
  BY <1>1, <1>2, <1>4, LoopLinks DEF LoaderInv, WordsInv
<1>6. /\ r.addend \in Nat /\ r.type \in Types /\ Base[mod] \in Nat \ {0}
      /\ s.value \in Nat /\ s.defined \in BOOLEAN
  BY <1>1, <1>4, Relocations, Symbols, Tables DEF LoaderInv, Img, Sym
<1>7. PICK v : v = Half(mod, r)
  OBVIOUS
<1>8. v \in Nat
  BY <1>4, <1>7, ReferenceIs DEF LoaderInv, Img
<1>9. v = IF r.type = "RELATIVE" THEN Base[mod] + r.addend
          ELSE IF ~s.defined THEN r.addend
          ELSE IF r.type = "ABS32" THEN Base[mod] + s.value + r.addend ELSE Base[mod] + s.value
  BY <1>1, <1>6, <1>7 DEF Half, Reference, Address
<1>10. Write(v) \/ (UNCHANGED mem /\ mem[mod][i] = v)
  <2>1. CASE r.type = "RELATIVE"
    <3>1. w + Base[mod] = v
      BY <1>5, <1>6, <1>9, <2>1
    <3>2. QED
      BY <1>3, <2>1, <3>1
  <2>2. CASE r.type # "RELATIVE" /\ s.defined /\ r.type = "ABS32"
    <3>1. w + Base[mod] + s.value = v
      BY <1>5, <1>6, <1>9, <2>2
    <3>2. QED
      BY <1>3, <2>2, <3>1
  <2>3. CASE r.type # "RELATIVE" /\ s.defined /\ r.type # "ABS32"
    BY <1>3, <1>9, <2>3
  <2>4. CASE r.type # "RELATIVE" /\ ~s.defined
    BY <1>1, <1>3, <1>5, <1>9, <2>4
  <2>5. QED
    BY <2>1, <2>2, <2>3, <2>4
<1>11. QED
  BY <1>2, <1>4, <1>7, <1>8, <1>10, TurnStep

LEMMA ResolveStep == ASSUME LoaderInv, Resolve PROVE LoaderInv'
<1>1. PICK r, s, w : r = Rels(mod)[i] /\ s = Sym(mod, r) /\ w = mem[mod][i]
  OBVIOUS
<1>2. /\ pc = "resolve" /\ i <= Len(Rels(mod)) /\ i' = i + 1
      /\ UNCHANGED <<image, lib, at, pc, load, loaded, dirty, ran>>
  BY DEF Resolve, Loop
<1>3. IF r.type # "RELATIVE" /\ ~s.defined
      THEN Write(Import(w, r.type, so_resolve_link(mod, s.name), s.name))
      ELSE UNCHANGED mem
  BY <1>1 DEF Resolve
<1>4. /\ mod \in Mods /\ Linked(mod) /\ r = Img.rels[i] /\ i \in DOMAIN Img.rels /\ i \in Nat
  BY <1>1, <1>2, LoopLinks, Here DEF LoaderInv
<1>5. w = Half(mod, r)
  BY <1>1, <1>2, <1>4, LoopLinks DEF LoaderInv, WordsInv
<1>6. PICK v : v = Reference(mod, r)
  OBVIOUS
<1>7. v \in Nat
  BY <1>4, <1>6, ReferenceIs DEF LoaderInv, Img
<1>8. CASE r.type # "RELATIVE" /\ ~s.defined
  <2>1. w = r.addend
    BY <1>1, <1>5, <1>8 DEF Half
  <2>2. Import(r.addend, r.type, so_resolve_link(mod, s.name), s.name) = v
    BY <1>1, <1>4, <1>6, <1>8, ImportIs DEF LoaderInv, Img
  <2>3. Write(v)
    BY <1>3, <1>8, <2>1, <2>2
  <2>4. QED
    BY <1>2, <1>4, <1>6, <1>7, <2>3, TurnStep
<1>9. CASE ~(r.type # "RELATIVE" /\ ~s.defined)
  <2>1. w = v
    BY <1>1, <1>5, <1>6, <1>9 DEF Half
  <2>2. UNCHANGED mem /\ mem[mod][i] = v
    BY <1>1, <1>3, <1>9, <2>1
  <2>3. QED
    BY <1>2, <1>4, <1>6, <1>7, <2>2, TurnStep
<1>10. QED
  BY <1>8, <1>9

\* The steps of linking that write no word: what is left to show.
LEMMA LinkedOn ==
  ASSUME LoaderInv, UNCHANGED <<image, lib, at, load, loaded, mem, ran>>, pc \in Linking, pc' \in Linking,
         pc \in {"init", "booted"} => pc' \in {"init", "booted"},
         i' \in Nat \ {0}, dirty' \subseteq {mod}, CleanInv', WordsInv'
  PROVE  LoaderInv'
<1>1. FileInv' /\ BlocksInv' /\ LibsInv' /\ CallsCode' /\ mod' = mod
  BY WhileLinking
<1>2. PlainOverrides'
  BY DEF LoaderInv, LoaderTypes, PlainOverrides
<1>3. LoaderTypes'
  BY <1>1, <1>2 DEF LoaderInv, LoaderTypes, load
<1>4. QED
  BY <1>1, <1>3 DEF LoaderInv

\* Libraries that were final are final.
LEMMA FinalStays ==
  ASSUME LoaderInv, UNCHANGED <<image, lib, at, load, loaded, mem>>, pc \in Linking, pc' \in Linking,
         pc \in {"init", "booted"} => pc' \in {"init", "booted"}
  PROVE  /\ \A m \in ToSet(loaded) : Final(m) => Final(m)'
         /\ \A m \in ToSet(loaded) : Len(mem'[m]) = Len(image'[m].rels) /\ (Place(m) < at => Final(m)')
<1>1. /\ \A m \in Mods : \A r : Reference(m, r)' = Reference(m, r)
      /\ \A m \in ToSet(loaded) : m \in Mods
  BY WhileLinking
<1>2. \A m \in ToSet(loaded) : Final(m) => Final(m)'
  BY <1>1 DEF Final, Words
<1>3. QED
  BY <1>2 DEF LoaderInv, WordsInv

LEMMA RelocatedStep == ASSUME LoaderInv, Relocated PROVE LoaderInv'
<1>1. /\ pc = "relocate" /\ i > Len(Rels(mod)) /\ pc' = "resolve" /\ i' = 1
      /\ UNCHANGED <<image, lib, at, load, loaded, mem, dirty, ran>>
  BY DEF Relocated, Goto, Loop, run
<1>2. /\ mod' = mod /\ Img' = Img /\ mod \in Mods
      /\ \A r : Half(mod, r)' = Half(mod, r)
  BY <1>1, WhileLinking DEF Linking
<1>3. ASSUME Linked(mod), NEW w \in DOMAIN Img.rels
      PROVE  mem[mod][w] = Half(mod, Img.rels[w]) /\ ~(w < 1)
  <2>1. w \in 1..Len(Img.rels) /\ w < i
    BY <1>1, <1>3, LoopLinks
  <2>2. QED
    BY <1>1, <1>3, <2>1 DEF LoaderInv, WordsInv
<1>4. WordsInv'
  <2>1. \A m \in ToSet(loaded) : Len(mem'[m]) = Len(image'[m].rels) /\ (Place(m) < at => Final(m)')
    BY <1>1, FinalStays DEF Linking
  <2>2. Linked(mod)' <=> Linked(mod)
    BY <1>1, <1>2 DEF Linked
  <2>3. Linked(mod) => \A w \in DOMAIN Img'.rels : mem'[mod'][w] = Half(mod, Img'.rels[w]) /\ ~(w < i')
    BY <1>1, <1>2, <1>3
  <2>4. QED
    BY <1>1, <1>2, <2>1, <2>2, <2>3 DEF WordsInv
<1>5. CleanInv' /\ dirty' \subseteq {mod}
  BY <1>1 DEF CleanInv, LoaderInv, LoaderTypes
<1>6. QED
  BY <1>1, <1>4, <1>5, LinkedOn DEF Linking

LEMMA ResolvedStep == ASSUME LoaderInv, Resolved PROVE LoaderInv'
<1>1. /\ pc = "resolve" /\ i > Len(Rels(mod)) /\ pc' = "flush" /\ i' = i
      /\ dirty' = IF at = Len(Boot) THEN dirty \cup {mod} ELSE dirty
      /\ UNCHANGED <<image, lib, at, load, loaded, mem, ran>>
  BY DEF Resolved, Goto
<1>2. /\ mod' = mod /\ Img' = Img /\ mod \in Mods /\ Place(mod) = at
      /\ \A m \in ToSet(loaded) : m \in Mods /\ Place(m) <= at /\ (m # mod => Place(m) < at)
  BY <1>1, WhileLinking DEF Linking
<1>3. Linked(mod) => Final(mod)
  <2>1. SUFFICES ASSUME Linked(mod), NEW w \in Words(mod)
                 PROVE  mem[mod][w] = Reference(mod, image[mod].rels[w])
    BY DEF Final
  <2>2. w \in DOMAIN Img.rels /\ w < i
    BY <1>1, <2>1, LoopLinks DEF Words
  <2>3. QED
    BY <1>1, <2>1, <2>2 DEF LoaderInv, WordsInv, Img
<1>4. WordsInv'
  <2>1. /\ \A m \in ToSet(loaded) : Final(m) => Final(m)'
        /\ \A m \in ToSet(loaded) : Len(mem'[m]) = Len(image'[m].rels) /\ (Place(m) < at => Final(m)')
    BY <1>1, FinalStays DEF Linking
  <2>2. \A m \in ToSet(loaded) : Final(m)'
    BY <1>2, <1>3, <2>1 DEF Linked
  <2>3. QED
    BY <1>1, <2>1, <2>2 DEF WordsInv
<1>5. CleanInv' /\ dirty' \subseteq {mod}
  BY <1>1 DEF CleanInv, LoaderInv, LoaderTypes
<1>6. i' \in Nat \ {0}
  BY <1>1 DEF LoaderInv, LoaderTypes
<1>7. QED
  BY <1>1, <1>4, <1>5, <1>6, LinkedOn DEF Linking

LEMMA FlushStep == ASSUME LoaderInv, Flush PROVE LoaderInv'
<1>1. /\ pc = "flush" /\ pc' = "init" /\ i' = 1 /\ dirty' = dirty \ {mod}
      /\ UNCHANGED <<image, lib, at, load, loaded, mem, ran>>
  BY DEF Flush, Flushed, Goto, Loop
<1>2. dirty' = {}
  BY <1>1 DEF LoaderInv, LoaderTypes
<1>3. WordsInv'
  <2>1. \A m \in ToSet(loaded) : Len(mem'[m]) = Len(image'[m].rels) /\ Final(m)'
    BY <1>1, FinalStays DEF Linking, LoaderInv, WordsInv
  <2>2. QED
    BY <1>1, <2>1 DEF WordsInv
<1>4. CleanInv' /\ dirty' \subseteq {mod}
  BY <1>2 DEF CleanInv
<1>5. QED
  BY <1>1, <1>3, <1>4, LinkedOn DEF Linking

\* A constructor's address is a word that has its final value.
LEMMA InitializeStep == ASSUME LoaderInv, Initialize PROVE LoaderInv'
<1>1. /\ pc = "init" /\ i <= Len(Inits) /\ i' = i + 1
      /\ UNCHANGED <<image, lib, at, pc, load, loaded, mem, dirty>>
      /\ ran' = IF mem[mod][Inits[i]] # 0 THEN [ran EXCEPT ![mod] = Append(ran[mod], mem[mod][Inits[i]])] ELSE ran
  BY DEF Initialize, Loop
<1>2. /\ FileInv' /\ BlocksInv' /\ mod' = mod /\ Img' = Img /\ mod \in Mods /\ Place(mod) = at
      /\ \A m \in Mods : \A r : Reference(m, r)' = Reference(m, r)
      /\ \A m : Linked(m)' <=> Linked(m)
  BY <1>1, WhileLinking DEF Linking
<1>3. WordsInv'
  <2>1. \A m \in ToSet(loaded) : Len(mem'[m]) = Len(image'[m].rels) /\ Final(m)'
    BY <1>1, FinalStays DEF Linking, LoaderInv, WordsInv
  <2>2. QED
    BY <1>1, <2>1 DEF WordsInv
<1>4. i \in Nat \ {0} /\ i' \in Nat \ {0} /\ dirty' \subseteq {mod'} /\ CleanInv'
  BY <1>1, <1>2 DEF LoaderInv, LoaderTypes, CleanInv
<1>5. Linked(mod) /\ Inits = Img.inits
  <2>1. Len(<<>>) = 0
    OBVIOUS
  <2>2. QED
    BY <1>1, <1>4, <2>1 DEF Inits
<1>6. PICK w, v : w = Img.inits[i] /\ v = mem[mod][w]
  OBVIOUS
<1>7. w \in DOMAIN Img.rels /\ w \in ToSet(Img.inits)
  <2>1. PICK xs, D : xs = Img.inits /\ D = DOMAIN Img.rels
    OBVIOUS
  <2>2. xs \in Seq(D)
    BY <1>2, <2>1, Relocations DEF LoaderInv, Img
  <2>3. i \in DOMAIN xs /\ i \in 1..Len(xs)
    BY <1>1, <1>4, <1>5, <2>1, <2>2, LenProperties
  <2>4. QED
    BY <1>6, <2>1, <2>2, <2>3, ElementOfSeq DEF ToSet
<1>8. v = Reference(mod, image[mod].rels[w]) /\ v \in Nat
  <2>1. Final(mod) /\ Len(mem[mod]) = Len(image[mod].rels)
    BY <1>1, <1>5 DEF LoaderInv, WordsInv, Linked
  <2>2. w \in Words(mod)
    BY <1>2, <1>7, <2>1, Relocations DEF LoaderInv, Words, Img
  <2>3. v = Reference(mod, image[mod].rels[w])
    BY <1>6, <2>1, <2>2 DEF Final
  <2>4. QED
    BY <1>2, <1>7, <2>3, ReferenceIs DEF LoaderInv, Img
<1>9. PICK s : s = ran[mod]
  OBVIOUS
<1>10. /\ ran \in [Mods -> Seq(Nat)] /\ s \in Seq(Nat) /\ Len(s) \in Nat
  BY <1>2, <1>9, LenProperties DEF LoaderInv, LoaderTypes
<1>11. /\ Append(s, v) \in Seq(Nat) /\ Len(Append(s, v)) = Len(s) + 1
       /\ \A k \in 1..Len(s) : Append(s, v)[k] = s[k]
       /\ Append(s, v)[Len(s) + 1] = v
  BY <1>8, <1>10, AppendProperties
<1>12. /\ ran' \in [Mods -> Seq(Nat)]
       /\ ran'[mod] \in {s, Append(s, v)}
       /\ \A m \in Mods : m # mod => ran'[m] = ran[m]
  <2>1. ran' = IF v # 0 THEN [ran EXCEPT ![mod] = Append(s, v)] ELSE ran
    BY <1>1, <1>5, <1>6, <1>9
  <2>2. QED
    BY <1>2, <1>9, <1>10, <1>11, <2>1
<1>13. LoaderTypes'
  <2>1. PlainOverrides'
    BY <1>1 DEF LoaderInv, LoaderTypes, PlainOverrides
  <2>2. QED
    BY <1>1, <1>4, <1>12, <2>1 DEF LoaderInv, LoaderTypes, load
<1>14. LibsInv'
  <2>1. ASSUME NEW m \in Mods, ran'[m] # <<>> PROVE Linked(m)'
    BY <1>2, <1>5, <1>12, <2>1 DEF LoaderInv, LibsInv
  <2>2. \A m \in Mods : at' < Place(m) => ~text'[m] /\ ~data'[m]
    BY <1>1 DEF LoaderInv, LibsInv, load
  <2>3. \A m \in ToSet(loaded') : Place(m) < at' \/ (m = mod' /\ pc' \in Linking)
    BY <1>1, <1>2 DEF LoaderInv, LibsInv, Linking
  <2>4. QED
    BY <1>1, <2>1, <2>2, <2>3 DEF LibsInv
<1>15. CallsCode'
  <2>1. ASSUME NEW m \in Mods, NEW k \in 1..Len(ran'[m])
        PROVE  \E x \in ToSet(image[m].inits) : ran'[m][k] = Reference(m, image[m].rels[x])
    <3>1. CASE m # mod \/ ran'[mod] = s
      <4>1. ran'[m] = ran[m]
        BY <1>9, <1>12, <3>1
      <4>2. QED
        BY <2>1, <4>1 DEF LoaderInv, CallsCode
    <3>2. CASE m = mod /\ ran'[mod] = Append(s, v)
      <4>1. k \in 1..(Len(s) + 1)
        BY <1>11, <2>1, <3>2
      <4>2. CASE k = Len(s) + 1
        <5>1. ran'[m][k] = v
          BY <1>11, <3>2, <4>2
        <5>2. QED
          BY <1>7, <1>8, <3>2, <5>1 DEF Img
      <4>3. CASE k # Len(s) + 1
        <5>1. k \in 1..Len(s)
          <6>1. Len(s) \in Nat
            BY <1>10
          <6>2. QED
            BY <4>1, <4>3, <6>1
        <5>2. ran'[m][k] = ran[m][k] /\ k \in 1..Len(ran[m])
          BY <1>9, <1>11, <3>2, <5>1
        <5>3. QED
          BY <5>2 DEF LoaderInv, CallsCode
      <4>4. QED
        BY <4>2, <4>3
    <3>3. QED
      BY <1>12, <3>1, <3>2
  <2>2. QED
    BY <1>1, <1>2, <2>1 DEF CallsCode
<1>16. QED
  BY <1>2, <1>3, <1>4, <1>13, <1>14, <1>15 DEF LoaderInv

\* The next library is untouched, and those up to here stay as they are.
LEMMA InitializedStep == ASSUME LoaderInv, Initialized PROVE LoaderInv'
<1>1. /\ pc = "init" /\ UNCHANGED <<image, lib, i, fd, so_data, cut, text, data, res, loaded, mem, dirty, ran>>
  BY DEF Initialized, load, run
<1>2. CASE at < Len(Boot)
  <2>1. at' = at + 1 /\ pc' = "open"
    BY <1>2 DEF Initialized, Goto
  <2>2. at \in Nat /\ at' \in 1..Len(Boot)
    BY <1>2, <2>1, Boots DEF LoaderInv, LoaderTypes
  <2>3. /\ mod' \in Mods /\ Place(mod') = at + 1
        /\ mod \in Mods /\ Place(mod) = at
    BY <2>1, <2>2, Boots, Here DEF mod, LoaderInv
  <2>4. \A m \in ToSet(loaded) : m \in Mods /\ Place(m) \in Nat /\ Place(m) <= at
    <3>1. \A m \in ToSet(loaded) : m \in Mods
      BY LenProperties, ElementOfSeq DEF ToSet, LoaderInv, LoaderTypes
    <3>2. \A m \in ToSet(loaded) : Place(m) \in Nat /\ (Place(m) < at \/ m = mod)
      BY <3>1, Boots DEF LoaderInv, LibsInv
    <3>3. QED
      BY <2>2, <2>3, <3>1, <3>2
  <2>5. ~Linked(mod)' /\ mod' \notin ToSet(loaded')
    BY <1>1, <2>2, <2>3, <2>4 DEF Linked
  <2>6. /\ \A m \in Mods : \A r : Reference(m, r)' = Reference(m, r)
        /\ \A m : Linked(m)' <=> Linked(m)
    BY <1>1, StaysAll DEF LoaderInv
  <2>7. CallsCode'
    BY <1>1, <2>6, CallsStay
  <2>8. WordsInv'
    <3>1. \A m \in ToSet(loaded) : Len(mem[m]) = Len(image[m].rels) /\ Final(m)
      BY <1>1 DEF LoaderInv, WordsInv
    <3>2. \A m \in ToSet(loaded) : Final(m)'
      BY <1>1, <2>4, <2>6, <3>1 DEF Final, Words
    <3>3. QED
      BY <1>1, <2>5, <3>1, <3>2 DEF WordsInv
  <2>9. LibsInv'
    <3>1. \A m \in ToSet(loaded') : Place(m) < at'
      BY <1>1, <2>1, <2>2, <2>4
    <3>2. \A m \in Mods : at' < Place(m) => ~text'[m] /\ ~data'[m]
      <4>1. \A m \in Mods : Place(m) \in Nat
        BY Boots
      <4>2. QED
        BY <1>1, <2>1, <2>2, <4>1 DEF LoaderInv, LibsInv
    <3>3. \A m \in Mods : ran'[m] # <<>> => Linked(m)' /\ Place(m) < at'
      <4>1. \A m \in Mods : ran[m] # <<>> => Linked(m)
        BY DEF LoaderInv, LibsInv
      <4>2. QED
        BY <1>1, <2>6, <3>1, <4>1 DEF Linked
    <3>4. QED
      BY <3>1, <3>2, <3>3 DEF LibsInv
  <2>10. dirty' = {}
    BY <1>1 DEF LoaderInv, CleanInv
  <2>11. LoaderTypes'
    <3>1. PlainOverrides'
      BY <1>1 DEF LoaderInv, LoaderTypes, PlainOverrides
    <3>2. QED
      BY <1>1, <2>1, <2>2, <2>10, <3>1 DEF LoaderInv, LoaderTypes, Reading
  <2>12. FileInv' /\ CleanInv'
    BY <1>1, <2>1, <2>10 DEF LoaderInv, FileInv, CleanInv
  <2>13. ~text'[mod'] /\ ~data'[mod']
    BY <1>1, <2>2, <2>3 DEF LoaderInv, LibsInv
  <2>14. BlocksInv'
    BY <2>1, <2>13 DEF BlocksInv, Linking
  <2>15. QED
    BY <2>7, <2>8, <2>9, <2>11, <2>12, <2>14 DEF LoaderInv
<1>3. CASE ~(at < Len(Boot))
  <2>1. at' = at /\ pc' = "booted"
    BY <1>3 DEF Initialized, Goto
  <2>2. WordsInv'
    <3>1. \A m \in ToSet(loaded) : Len(mem'[m]) = Len(image'[m].rels) /\ Final(m)'
      BY <1>1, <2>1, FinalStays DEF Linking, LoaderInv, WordsInv, load
    <3>2. QED
      BY <1>1, <2>1, <3>1 DEF WordsInv
  <2>3. CleanInv' /\ dirty' \subseteq {mod} /\ i' \in Nat \ {0}
    BY <1>1 DEF CleanInv, LoaderInv, LoaderTypes
  <2>4. QED
    BY <1>1, <2>1, <2>2, <2>3, LinkedOn DEF Linking, load
<1>4. QED
  BY <1>2, <1>3

LEMMA LoaderInit == ASSUME Init PROVE LoaderInv
<1>1. mod \in Mods /\ Place(mod) = at /\ at = 1 /\ at \in 1..Len(Boot)
  BY Boots DEF Init, mod
<1>2. \A m \in ToSet(loaded) : FALSE
  BY DEF Init, ToSet
<1>3. LoaderTypes
  <2>1. loaded = <<>> /\ mem = [m \in Mods |-> <<>>] /\ ran = [m \in Mods |-> <<>>]
    BY DEF Init
  <2>2. <<>> \in Seq(Nat) /\ <<>> \in Seq(Mods) /\ DOMAIN <<>> = {}
    OBVIOUS
  <2>3. /\ mem \in [Mods -> Seq(Nat)] /\ ran \in [Mods -> Seq(Nat)] /\ loaded \in Seq(Mods)
        /\ \A j, k \in DOMAIN loaded : j < k => Place(loaded[j]) < Place(loaded[k])
    BY <2>1, <2>2
  <2>4. text \in [Mods -> BOOLEAN] /\ data \in [Mods -> BOOLEAN]
    BY DEF Init
  <2>5. fd \in BOOLEAN /\ so_data \in BOOLEAN /\ res \in {-1, 0, 1} /\ i \in Nat \ {0}
    <3>1. fd = FALSE /\ so_data = FALSE /\ res = 0 /\ i = 1
      BY DEF Init
    <3>2. fd \in BOOLEAN /\ so_data \in BOOLEAN
      BY <3>1, Zenon
    <3>3. res \in {-1, 0, 1}
      BY <3>1
    <3>4. i \in Nat \ {0}
      BY <3>1
    <3>5. QED
      BY <3>2, <3>3, <3>4
  <2>6. pc \in Reading /\ dirty \subseteq {mod}
    BY DEF Init, Reading
  <2>7. image \in Images /\ lib \in Libs /\ PlainOverrides
    BY DEF Init
  <2>8. QED
    BY <1>1, <2>3, <2>4, <2>5, <2>6, <2>7 DEF LoaderTypes
<1>4. LibsInv
  BY <1>2 DEF Init, LibsInv
<1>5. FileInv /\ CleanInv
  BY DEF Init, FileInv, CleanInv
<1>6. BlocksInv
  BY <1>1 DEF Init, BlocksInv, Linking
<1>7. WordsInv
  BY <1>2 DEF WordsInv, Linked
<1>8. CallsCode
  BY DEF Init, CallsCode
<1>9. QED
  BY <1>3, <1>4, <1>5, <1>6, <1>7, <1>8 DEF LoaderInv

LEMMA LoaderStill == ASSUME LoaderInv, UNCHANGED vars PROVE LoaderInv'
<1>1. UNCHANGED <<image, lib, at, pc, i, fd, so_data, text, data, res, loaded, mem, dirty, ran>>
  BY DEF vars
<1>2. \A m \in Mods : \A r : Reference(m, r)' = Reference(m, r) /\ Half(m, r)' = Half(m, r)
  BY <1>1, StaysAll DEF LoaderInv
<1>3. mod' = mod /\ Img' = Img /\ mod \in Mods
  BY <1>1, Here DEF mod, Img, LoaderInv
<1>4. LoaderTypes'
  BY <1>1, <1>3 DEF LoaderInv, LoaderTypes, PlainOverrides
<1>5. LibsInv' /\ FileInv' /\ CleanInv'
  BY <1>1, <1>3 DEF LoaderInv, LibsInv, FileInv, CleanInv, Linked
<1>6. BlocksInv'
  BY <1>1, <1>3 DEF LoaderInv, BlocksInv, Came, TextFirst, Linked
<1>7. CallsCode'
  BY <1>1, <1>2 DEF LoaderInv, CallsCode
<1>8. WordsInv'
  <2>1. \A m \in ToSet(loaded) : m \in Mods
    BY LenProperties, ElementOfSeq DEF ToSet, LoaderInv, LoaderTypes
  <2>2. \A m \in ToSet(loaded) : Final(m) => Final(m)'
    BY <1>1, <1>2, <2>1 DEF Final, Words
  <2>3. \A m \in ToSet(loaded') : /\ Len(mem'[m]) = Len(image'[m].rels)
                                  /\ Place(m) < at' \/ pc' \in {"flush", "init", "booted"} => Final(m)'
    BY <1>1, <2>2 DEF LoaderInv, WordsInv
  <2>4. QED
    BY <1>1, <1>2, <1>3, <2>3 DEF LoaderInv, WordsInv, Linked
<1>9. QED
  BY <1>4, <1>5, <1>6, <1>7, <1>8 DEF LoaderInv

LEMMA LoaderStep == ASSUME LoaderInv, [Next]_vars PROVE LoaderInv'
<1>1. CASE Open
  BY <1>1, OpenStep
<1>2. CASE ReadFile
  BY <1>2, ReadFileStep
<1>3. CASE Magic
  BY <1>3, MagicStep
<1>4. CASE Segment
  BY <1>4, SegmentStep
<1>5. CASE Sections
  BY <1>5, SectionsStep
<1>6. CASE FreeAll
  BY <1>6, FreeAllStep
<1>7. CASE Loaded
  BY <1>7, LoadedStep
<1>8. CASE Relocate
  BY <1>8, RelocateStep
<1>9. CASE Relocated
  BY <1>9, RelocatedStep
<1>10. CASE Resolve
  BY <1>10, ResolveStep
<1>11. CASE Resolved
  BY <1>11, ResolvedStep
<1>12. CASE Flush
  BY <1>12, FlushStep
<1>13. CASE Initialize
  BY <1>13, InitializeStep
<1>14. CASE Initialized
  BY <1>14, InitializedStep
<1>15. CASE Astray
  BY <1>15, AstrayStep
<1>16. CASE UNCHANGED vars
  BY <1>16, LoaderStill
<1>17. QED
  BY <1>1, <1>2, <1>3, <1>4, <1>5, <1>6, <1>7, <1>8, <1>9, <1>10, <1>11, <1>12, <1>13, <1>14, <1>15, <1>16
     DEF Next

\* Of a library that is linked the file was read whole.
CutInv ==
    /\ cut \in BOOLEAN
    /\ cut /\ TextFirst(mod) => pc \notin Linking /\ ~(pc = "return" /\ res >= 0)

LEMMA CutInit == ASSUME Init PROVE CutInv
<1>1. cut = FALSE
  BY DEF Init
<1>2. QED
  BY <1>1, Zenon DEF CutInv

LEMMA CutStep == ASSUME LoaderInv, CutInv, [Next]_vars PROVE CutInv'
<1>1. CASE UNCHANGED vars
  BY <1>1 DEF CutInv, vars, TextFirst, mod
<1>2. CASE Open
  BY <1>2 DEF CutInv, Open, Goto, Linking, TextFirst, mod
<1>3. CASE ReadFile
  <2>1. \/ pc' = "magic" /\ cut' \in BOOLEAN
        \/ pc' = "return" /\ res' = -1 /\ cut' = cut
    BY <1>3 DEF ReadFile, Goto
  <2>2. QED
    BY <2>1 DEF CutInv, Linking
<1>4. CASE Magic \/ Astray
  BY <1>4 DEF CutInv, Magic, Astray, load, Goto, Linking
<1>5. CASE Segment
  <2>1. pc' \in {"segments", "err_free_so", "err_free_text"} /\ cut' = cut
    BY <1>5 DEF Segment, Goto
  <2>2. QED
    BY <2>1 DEF CutInv, Linking
<1>6. CASE Sections
  <2>1. cut' = cut /\ pc' \in {"return", "err_free_data"} /\ (pc' = "return" => ~cut)
    BY <1>6 DEF Sections, SectionsElse, Goto
  <2>2. QED
    BY <2>1 DEF CutInv, Linking
<1>7. CASE FreeAll
  <2>1. /\ pc \in {"err_free_data", "err_free_text", "err_free_so"} /\ pc' = "return"
        /\ UNCHANGED <<image, at, cut, res>>
    BY <1>7 DEF FreeAll, FreeFrom, Goto
  <2>2. res >= 0 => ~TextFirst(mod)
    BY <2>1 DEF LoaderInv, LoaderTypes, BlocksInv
  <2>3. TextFirst(mod)' <=> TextFirst(mod)
    BY <2>1 DEF TextFirst, mod
  <2>4. QED
    BY <2>1, <2>2, <2>3 DEF CutInv, Linking
<1>8. CASE Loaded
  <2>1. /\ pc = "return" /\ UNCHANGED <<image, at, cut, res>>
        /\ pc' = IF res < 0 THEN "fatal" ELSE "relocate"
    BY <1>8 DEF Loaded, LoadedTo, Goto, load
  <2>2. res < 0 \/ res >= 0
    BY DEF LoaderInv, LoaderTypes
  <2>3. TextFirst(mod)' <=> TextFirst(mod)
    BY <2>1 DEF TextFirst, mod
  <2>4. QED
    BY <2>1, <2>2, <2>3 DEF CutInv, Linking
<1>9. CASE Relocate \/ Relocated \/ Resolve \/ Resolved \/ Flush \/ Initialize
  <2>1. pc \in Linking /\ UNCHANGED <<image, at, cut>>
    BY <1>9 DEF Relocate, RelocateIf, Relocated, Resolve, Resolved, Flush, Initialize, load, Linking
  <2>2. TextFirst(mod)' <=> TextFirst(mod)
    BY <2>1 DEF TextFirst, mod
  <2>3. QED
    BY <2>1, <2>2 DEF CutInv
<1>10. CASE Initialized
  <2>1. /\ pc = "init" /\ UNCHANGED <<image, cut>>
        /\ \/ at' = at + 1 /\ pc' = "open"
           \/ at' = at /\ pc' = "booted"
    BY <1>10 DEF Initialized, load, Goto
  <2>2. CASE pc' = "open"
    BY <2>1, <2>2 DEF CutInv, Linking
  <2>3. CASE at' = at
    <3>1. TextFirst(mod)' <=> TextFirst(mod)
      BY <2>1, <2>3 DEF TextFirst, mod
    <3>2. QED
      BY <2>1, <3>1 DEF CutInv, Linking
  <2>4. QED
    BY <2>1, <2>2, <2>3
<1>11. QED
  BY <1>1, <1>2, <1>3, <1>4, <1>5, <1>6, <1>7, <1>8, <1>9, <1>10 DEF Next

LEMMA LoaderSafe ==
  ASSUME LoaderInv, CutInv
  PROVE  TypeOK /\ RunsOnFinalWords /\ CallsCode /\ LookupExact /\ LoadedOrFatal /\ RunsFlushed
<1>1. mod \in Mods /\ \A m \in ToSet(loaded) : m \in Mods
  BY Here, LenProperties, ElementOfSeq DEF ToSet, LoaderInv, LoaderTypes
<1>2. \A m \in Mods : \A w \in Words(m) : mem[m][w] \in Nat
  <2>1. ASSUME NEW m \in Mods, NEW w \in Words(m) PROVE mem[m][w] \in Nat
    <3>1. PICK s : s = mem[m]
      OBVIOUS
    <3>2. s \in Seq(Nat) /\ w \in 1..Len(s)
      BY <2>1, <3>1 DEF Words, LoaderInv, LoaderTypes
    <3>3. QED
      BY <3>1, <3>2, ElementOfSeq
  <2>2. QED
    BY <2>1
<1>3. TypeOK
  BY <1>1, <1>2 DEF LoaderInv, LoaderTypes, CutInv, TypeOK
<1>4. RunsOnFinalWords
  BY DEF LoaderInv, WordsInv, RunsOnFinalWords
<1>5. LookupExact
  BY <1>1, Lookup DEF LoaderInv, LookupExact
<1>6. LoadedOrFatal
  <2>1. pc \in {"relocate", "resolve", "flush", "init", "booted"} => ~fd /\ ~so_data
    BY DEF LoaderInv, FileInv
  <2>2. TextFirst(mod) /\ pc \in {"relocate", "resolve", "flush", "init", "booted"} =>
            Linked(mod) /\ text[mod] /\ data[mod] /\ ~cut
    BY DEF LoaderInv, BlocksInv, CutInv, Linking
  <2>3. pc = "fatal" => ~Linked(mod)
    BY Here DEF LoaderInv, LibsInv, LoaderTypes, Linked, Linking
  <2>4. pc = "fatal" => ~text[mod] /\ ~data[mod] /\ ~so_data
    BY DEF LoaderInv, BlocksInv, FileInv
  <2>5. QED
    BY <2>1, <2>2, <2>3, <2>4 DEF LoadedOrFatal
<1>7. RunsFlushed
  BY DEF LoaderInv, CleanInv, RunsFlushed
<1>8. QED
  BY <1>3, <1>4, <1>5, <1>6, <1>7 DEF LoaderInv

\* Only the words of the library main is at are written, and it has run nothing.
LEMMA LoaderKeeps ==
  ASSUME LoaderInv, [Next]_vars
  PROVE  [\A m \in Mods : ran[m] # <<>> => mem'[m] = mem[m]]_vars
<1>1. mod \in Mods /\ mem \in [Mods -> Seq(Nat)]
  BY Here DEF LoaderInv, LoaderTypes
<1>2. \/ UNCHANGED mem
      \/ pc \in {"segments", "relocate", "resolve"} /\ \E v : mem' = [mem EXCEPT ![mod] = v]
  <2>1. CASE Sections
    BY <2>1 DEF Sections, SectionsElse
  <2>2. CASE Relocate
    BY <2>2 DEF Relocate, RelocateIf, Write
  <2>3. CASE Resolve
    BY <2>3 DEF Resolve, Write
  <2>4. CASE UNCHANGED vars
    BY <2>4 DEF vars
  <2>5. CASE Open \/ ReadFile \/ Magic \/ Astray \/ Segment \/ FreeAll \/ Loaded
    BY <2>5 DEF Open, ReadFile, Magic, Astray, Segment, FreeAll, FreeFrom, Loaded, LoadedTo, run
  <2>6. CASE Relocated \/ Resolved \/ Flush \/ Initialize \/ Initialized
    BY <2>6 DEF Relocated, Resolved, Flush, Initialize, Initialized, run
  <2>7. QED
    BY <2>1, <2>2, <2>3, <2>4, <2>5, <2>6 DEF Next
<1>3. pc \in {"segments", "relocate", "resolve"} => ran[mod] = <<>>
  BY <1>1, Here DEF LoaderInv, LoaderTypes, LibsInv
<1>4. QED
  BY <1>1, <1>2, <1>3

\* For every order of libraries, all their tables and every step's failure:
\* constructors run on final and flushed words and are called by their relocated
\* addresses, what a library was given is not taken back by the next, a load
\* that failed left nothing behind, and what is linked was read whole.  Of a file
\* whose reading broke off nothing is promised once its tables were followed
\* (so_util.c:71-395, main.c:484-499).
THEOREM BootSafe == MainSpec => StartsReady
<1>1. MainInit => LoaderInv /\ CutInv
  BY LoaderInit, CutInit DEF MainInit
<1>2. [MainNext]_all => [Next]_vars
  BY DEF MainNext, all, LoaderNext, HooksNext, HooksDo, LoopNext, LoopDo, PadNext, WaitNext, WaitDo, LogNext
<1>3. LoaderInv /\ CutInv /\ [MainNext]_all => LoaderInv' /\ CutInv'
  BY <1>2, LoaderStep, CutStep
<1>4. LoaderInv /\ CutInv =>
        TypeOK /\ RunsOnFinalWords /\ CallsCode /\ LookupExact /\ LoadedOrFatal /\ RunsFlushed
  BY LoaderSafe
<1>5. LoaderInv /\ [MainNext]_all => [\A m \in Mods : ran[m] # <<>> => mem'[m] = mem[m]]_vars
  BY <1>2, LoaderKeeps
<1>6. QED
  BY <1>1, <1>3, <1>4, <1>5, PTL DEF MainSpec, StartsReady, KeepsWords
=============================================================================

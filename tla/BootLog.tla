------------------------------- MODULE BootLog -------------------------------
(***************************************************************************)
(* Launch after launch of loader/main.c:459-566, each of which may end     *)
(* anywhere, and the log that tells where (loader/stubs.c:16-28): main     *)
(* puts the last run's log aside, debugPrintf appends to the new one, in a *)
(* second place if the first cannot be opened.  A line is the run and the  *)
(* step that wrote it; lines fit debugPrintf's buffer.                     *)
(***************************************************************************)
EXTENDS Integers, Sequences

CONSTANTS
    MaxRuns,
    MaxFaults,   \* opens and writes of the card that fail
    MaxLines     \* that the frame loop writes

(* What main does, in order: may it end the run, and how many lines it writes. *)
Steps ==
    <<<<"mkdir", FALSE, 0>>, <<"remove prev", FALSE, 0>>, <<"rename", FALSE, 0>>,
      <<"remove fallback", FALSE, 0>>, <<"saves", FALSE, 0>>, <<"boot", FALSE, 1>>,
      <<"files", TRUE, 0>>, <<"gnustl", TRUE, 0>>, <<"game", TRUE, 2>>, <<"shader compiler", TRUE, 0>>,
      <<"vitaGL", FALSE, 1>>, <<"jni", TRUE, 1>>, <<"calls", TRUE, 1>>, <<"events", FALSE, 1>>>>
Loop == Len(Steps) + 1
Off == 0
Over == -1         \* said after fatal: nothing follows

VARIABLES
    disk,          \* the three files: sequences of lines, or NoFile
    saves,         \* sizes in MB of the saves
    log_fd,        \* the file that is open for the log, "none" if none is
    at, said, run, \* the step main is at, the lines that it wrote of it, the run
    wrote, before, \* lines of this run, and of the last that is over and wrote any, per file (history)
    since,         \* launches that began to clear away since that run was over (history)
    faults
vars == <<disk, saves, log_fd, at, said, run, wrote, before, since, faults>>

NoFile == <<>>
Nothing == [log |-> <<>>, fallback |-> <<>>]
Init ==
    /\ disk = [log |-> NoFile, prev |-> NoFile, fallback |-> NoFile]
    /\ saves = {25, 32, 33}
    /\ log_fd = "none" /\ at = Off /\ said = 0 /\ run = 0
    /\ wrote = Nothing /\ before = Nothing /\ since = 0 /\ faults = 0

----------------------------------------------------------------------------
(* debugPrintf, under log_lock, which main's first line made before there were
   other threads *)

\* The file that log_open gets, and the failures on the way.
log_open == {<<"log", 0>>, <<"fallback", 1>>, <<"none", 2>>}
Writes(o) ==
    {[fd |-> o[1], in |-> o[1], bad |-> o[2]]}
    \cup (IF o[1] = "none" THEN {}
          ELSE {[fd |-> p[1], in |-> IF again THEN p[1] ELSE "none",
                 bad |-> o[2] + p[2] + IF again THEN 1 ELSE 2] : p \in log_open, again \in BOOLEAN})
WrittenAnew(old, line, bad) == IF bad = 0 THEN Append(old, line) ELSE <<line>>     \* mutant
Written(old, line, bad) == Append(old, line)
debugPrintf(line) ==
    \E o \in IF log_fd = "none" THEN log_open ELSE {<<log_fd, 0>>} :
    \E w \in Writes(o) :
        /\ faults + w.bad <= MaxFaults /\ faults' = faults + w.bad
        /\ log_fd' = w.fd
        /\ disk' = IF w.in = "none" THEN disk ELSE [disk EXCEPT ![w.in] = Written(@, line, w.bad)]
        /\ wrote' = IF w.in = "none" THEN wrote ELSE [wrote EXCEPT ![w.in] = Append(@, line)]
----------------------------------------------------------------------------
(* main *)

Launch ==
    /\ at = Off /\ run < MaxRuns
    /\ at' = 1 /\ run' = run + 1
    /\ UNCHANGED <<disk, saves, log_fd, said, wrote, before, since, faults>>

\* A run may end anywhere, before its first line too.
Die ==
    /\ at # Off
    /\ at' = Off /\ said' = 0 /\ log_fd' = "none"
    /\ wrote' = Nothing
    /\ IF wrote # Nothing THEN before' = wrote /\ since' = 0 ELSE UNCHANGED <<before, since>>
    /\ UNCHANGED <<disk, saves, run, faults>>

RenameFirst(s) ==                                                                \* mutant
    /\ at \in 1..(Loop - 1)
    /\ Steps[at][1] = CASE s = "rename" -> "remove prev" [] s = "remove prev" -> "rename" [] OTHER -> s
Doing(s) == at \in 1..(Loop - 1) /\ Steps[at][1] = s
First == 4
NextStep == at' = at + 1 /\ said' = 0
\* Directories and the rotation.
FirstSteps ==
    /\ at \in 1..First /\ NextStep
    /\ disk' = CASE Doing("remove prev") -> [disk EXCEPT !.prev = NoFile]
                 [] Doing("rename") /\ disk.log # NoFile -> [disk EXCEPT !.prev = disk.log, !.log = NoFile]
                 [] Doing("remove fallback") -> [disk EXCEPT !.fallback = NoFile]
                 [] OTHER -> disk
    /\ since' = IF Doing("remove prev") THEN since + 1 ELSE since
    /\ UNCHANGED <<saves, log_fd, run, wrote, before, faults>>

\* Away with saves over 32 MB, one after the other.
TooLargeFrom(x) == x >= 32                                                       \* mutant
TooLarge(x) == x > 32
RemoveSave ==
    /\ Doing("saves")
    /\ \E x \in saves : TooLarge(x) /\ saves' = saves \ {x}
    /\ debugPrintf(<<run, at, saves'>>)
    /\ UNCHANGED <<at, said, run, before, since>>

\* The steps that follow write their lines, or what is missing, and end the run.
Says == IF at = Loop THEN MaxLines ELSE Steps[at][3]
Say ==
    /\ at > First /\ said \in 0..(Says - 1)
    /\ debugPrintf(<<run, at, said>>) /\ said' = said + 1
    /\ UNCHANGED <<saves, at, run, before, since>>
GoOn ==
    /\ at \in (First + 1)..(Loop - 1) /\ said = Says /\ NextStep
    /\ Doing("saves") => \A x \in saves : ~TooLarge(x)
    /\ UNCHANGED <<disk, saves, log_fd, run, wrote, before, since, faults>>
fatal ==
    /\ at \in (First + 1)..(Loop - 1) /\ Steps[at][2] /\ said \in 0..Says
    /\ debugPrintf(<<run, at, "fatal">>) /\ said' = Over
    /\ UNCHANGED <<saves, at, run, before, since>>

Next == Launch \/ Die \/ FirstSteps \/ RemoveSave \/ Say \/ GoOn \/ fatal
Spec == Init /\ [][Next]_vars
----------------------------------------------------------------------------

TypeOK ==
    /\ DOMAIN disk = {"log", "prev", "fallback"}
    /\ log_fd \in {"none", "log", "fallback"} /\ at \in Off..Loop /\ run \in 0..MaxRuns
    /\ since \in Nat

(* What a run wrote is on the card while it runs and when it is over, in both
   places; in the first it outlives one launch that writes nothing, wherever that
   ends, until a second begins to clear away.  And no save of at most 32 MB is
   lost (main.c:463-474, stubs.c:17-28). *)
LogKept ==
    /\ since <= 1 => before.log \in {disk.log, disk.prev}
    /\ since = 0 => disk.fallback = before.fallback
    /\ \A f \in {"log", "fallback"} : wrote[f] # <<>> => disk[f] = wrote[f]
    /\ {25, 32} \subseteq saves

(* "keep the previous run's log: a relaunch after a crash no longer wipes the
   evidence" (main.c:463), in the place where that run found it could write. *)
EvidenceKept ==
    /\ before.log \in {disk.log, disk.prev}
    /\ before.fallback \in {<<>>, disk.fallback, disk.prev}
=============================================================================

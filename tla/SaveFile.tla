------------------------------ MODULE SaveFile ------------------------------
(***************************************************************************)
(* The descriptor calls of loader/default_dynlib.c that watch save files   *)
(* and keep the ghosts file below GHOST_CAP.  save_fd, indexed by          *)
(* descriptor, is set after open and cleared before close, without a lock, *)
(* while other threads open and close; a write of a save is up to three    *)
(* calls of the kernel.  Files are POSIX's (external).  The program's own  *)
(* ftruncate (loader/stubs.c:114) replaces newlib's and does nothing.      *)
(***************************************************************************)
EXTENDS Integers

CONSTANTS
    Threads, Fds, Files, NoFile,
    Kind,        \* 2 for the ghosts file, 1 for another save file, 0 otherwise
    Cap,         \* GHOST_CAP
    MaxPos,      \* bound: file positions
    Appending,   \* the values O_APPEND has in the game's open flags
    Sharing      \* whether a thread uses a descriptor while another writes to it

ASSUME SaveAssumption ==
    /\ NoFile \notin Files /\ Kind \in [Files -> 0..2]
    /\ Cap \in Nat /\ MaxPos \in Nat /\ Appending \subseteq BOOLEAN /\ Sharing \in BOOLEAN

VARIABLES
    file, pos, append,  \* the kernel's open descriptors
    size,               \* sizes of the files
    save_fd,
    call,               \* per thread, the call it is in the middle of
    believed,           \* the position the game must think it is at (history)
    expected            \* the size the game must think a file has (history)

kernel == <<file, pos, append, size>>
vars == <<kernel, save_fd, call, believed, expected>>

Idle == [pc |-> "idle"]

Init ==
    /\ file = [d \in Fds |-> NoFile]
    /\ pos = [d \in Fds |-> 0]
    /\ append = [d \in Fds |-> FALSE]
    /\ size = [f \in Files |-> 0]
    /\ save_fd = [d \in Fds |-> 0]
    /\ call = [t \in Threads |-> Idle]
    /\ believed = [d \in Fds |-> 0]
    /\ expected = [f \in Files |-> 0]

\* The calls that a thread is in the middle of with a descriptor.
In(t, d) == call[t] # Idle /\ call[t].fd = d
Writing == {"write", "seek"}
Alone(d) == \A t \in Threads : ~In(t, d)

\* A descriptor some open returned and no close took back.
Settled(d) == file[d] # NoFile /\ \A t \in Threads : In(t, d) => call[t].pc \in Writing
Usable(d) == Settled(d) /\ (Sharing \/ Alone(d))

\* open: the kernel's part, then the tag.
open_log(t, f, d, app, trunc) ==
    /\ call[t] = Idle /\ file[d] = NoFile
    /\ file' = [file EXCEPT ![d] = f]
    /\ pos' = [pos EXCEPT ![d] = 0]
    /\ append' = [append EXCEPT ![d] = app]
    /\ size' = IF trunc THEN [size EXCEPT ![f] = 0] ELSE size
    /\ believed' = [believed EXCEPT ![d] = 0]
    /\ expected' = IF trunc THEN [expected EXCEPT ![f] = 0] ELSE expected
    /\ call' = [call EXCEPT ![t] = [pc |-> "tag", fd |-> d]]
    /\ UNCHANGED save_fd

Tag(t) ==
    /\ call[t].pc = "tag"
    /\ save_fd' = [save_fd EXCEPT ![call[t].fd] = Kind[file[call[t].fd]]]
    /\ call' = [call EXCEPT ![t] = Idle]
    /\ UNCHANGED <<kernel, believed, expected>>

\* close, when no thread writes there any more: the tag goes first, so that no
\* other open has the descriptor yet.
CloseOrderLate == <<"kernel", "tag">>                            \* mutant
CloseOrder == <<"tag", "kernel">>

ClosePart(d, part) ==
    /\ save_fd' = IF part = "tag" THEN [save_fd EXCEPT ![d] = 0] ELSE save_fd
    /\ file' = IF part = "kernel" THEN [file EXCEPT ![d] = NoFile] ELSE file
    /\ UNCHANGED <<pos, append, size, believed, expected>>

close_fix(t, d) ==
    /\ call[t] = Idle /\ Usable(d) /\ Alone(d)
    /\ ClosePart(d, CloseOrder[1])
    /\ call' = [call EXCEPT ![t] = [pc |-> "close", fd |-> d]]

CloseRest(t) ==
    /\ call[t].pc = "close"
    /\ ClosePart(call[t].fd, CloseOrder[2])
    /\ call' = [call EXCEPT ![t] = Idle]

\* The bound, where bytes are stored.
Within(d, n) == pos[d] + n <= MaxPos /\ (append[d] => size[file[d]] + n <= MaxPos)

\* k bytes stored at the position, or at the end.
Stored(d, k) ==
    LET at == IF append[d] THEN size[file[d]] ELSE pos[d]
    IN  [end |-> IF k = 0 THEN pos[d] ELSE at + k,
         size |-> IF k > 0 /\ at + k > size[file[d]]
                  THEN [size EXCEPT ![file[d]] = at + k] ELSE size]

\* Told that m bytes are written, the game expects the file to reach there.
Told(d, m) ==
    /\ believed' = [believed EXCEPT ![d] = @ + m]
    /\ expected' = [expected EXCEPT ![file[d]] =
          IF m > 0 /\ Stored(d, m).end > @ THEN Stored(d, m).end ELSE @]

\* The kernel stores k bytes, and the game will be told that m are written.
Write(d, k, m) ==
    /\ size' = Stored(d, k).size
    /\ pos' = [pos EXCEPT ![d] = Stored(d, k).end]
    /\ Told(d, m)
    /\ UNCHANGED <<file, append, save_fd>>

\* write: of a save, the position is asked for first ...
write_fix(t, d, n) ==
    /\ call[t] = Idle /\ Usable(d) /\ Within(d, n)
    /\ IF save_fd[d] = 0
       THEN (\E k \in 0..n : Write(d, k, k)) /\ UNCHANGED call
       ELSE /\ call' = [call EXCEPT ![t] = [pc |-> "write", fd |-> d, at |-> pos[d], n |-> n]]
            /\ UNCHANGED <<kernel, save_fd, believed, expected>>

\* ... then the kernel writes, and may store less than asked.  Over the cap only
\* what fits is stored, all of it reported ...
Keep(at) == IF at >= Cap THEN 0 ELSE Cap - at
Store(t) ==
    /\ call[t].pc = "write"
    /\ LET d == call[t].fd
           at == call[t].at
           n == call[t].n
       IN  /\ Within(d, n)
           /\ IF save_fd[d] = 2 /\ at + n > Cap
              THEN /\ \E k \in 0..Keep(at) : Write(d, k, n)
                   /\ call' = [call EXCEPT ![t].pc = "seek"]
              ELSE /\ \E k \in 0..n : Write(d, k, k)
                   /\ call' = [call EXCEPT ![t] = Idle]

\* ... and the position is moved by all of it.
NotMoved(t) == pos[call[t].fd]                                   \* mutant
Moved(t) == call[t].at + call[t].n
Restore(t) ==
    /\ call[t].pc = "seek"
    /\ pos' = [pos EXCEPT ![call[t].fd] = Moved(t)]
    /\ call' = [call EXCEPT ![t] = Idle]
    /\ UNCHANGED <<file, append, size, save_fd, believed, expected>>

SeekTo(t, d, p) ==
    /\ call[t] = Idle /\ Usable(d)
    /\ pos' = [pos EXCEPT ![d] = p]
    /\ believed' = [believed EXCEPT ![d] = p]
    /\ UNCHANGED <<file, append, size, save_fd, call, expected>>

SeekRelative(t, d, p) == SeekTo(t, d, p + pos[d])                \* mutant
lseek_fix(t, d, p) == SeekTo(t, d, p)

\* ftruncate_fix: capped or not, the length goes to an ftruncate that reports
\* success and leaves the file as it is.
ftruncate_fix(t, d, n) ==
    /\ call[t] = Idle /\ Usable(d)
    /\ expected' = [expected EXCEPT ![file[d]] = n]
    /\ UNCHANGED <<kernel, save_fd, call, believed>>

Next ==
    \E t \in Threads :
        \/ \E d \in Fds :
              \/ \E f \in Files, app \in Appending, trunc \in BOOLEAN : open_log(t, f, d, app, trunc)
              \/ close_fix(t, d)
              \/ \E n \in 0..MaxPos : (n > 0 /\ write_fix(t, d, n)) \/ lseek_fix(t, d, n)
                                      \/ ftruncate_fix(t, d, n)
        \/ Tag(t) \/ CloseRest(t) \/ Store(t) \/ Restore(t)

Spec == Init /\ [][Next]_vars

----------------------------------------------------------------------------

TypeOK ==
    /\ file \in [Fds -> Files \cup {NoFile}]
    /\ pos \in [Fds -> 0..MaxPos]
    /\ append \in [Fds -> BOOLEAN]
    /\ size \in [Files -> 0..MaxPos]
    /\ save_fd \in [Fds -> 0..2]
    /\ call \in [Threads -> {Idle} \cup [pc : {"tag", "close"}, fd : Fds]
                           \cup [pc : Writing, fd : Fds, at : 0..MaxPos, n : 0..MaxPos]]
    /\ believed \in [Fds -> Nat]
    /\ expected \in [Files -> Nat]

\* "cap the ghosts file at GHOST_CAP bytes" (default_dynlib.c:248): whatever
\* descriptors other threads get, write to and give back meanwhile, as long as two
\* do not write through one (~Sharing).
GhostCapped == \A f \in Files : Kind[f] = 2 => size[f] <= Cap

\* "keep the game's notion of the file position consistent"
\* (default_dynlib.c:263): between calls, the position is the one the results of
\* the calls add up to, also over the cap and after a short write.
PositionKept == \A d \in Fds : file[d] # NoFile /\ Alone(d) => pos[d] = believed[d]

\* The same with the types, as the runs check it and the theorem states it
\* (default_dynlib.c:227-283).
PositionsKept == TypeOK /\ PositionKept

\* A file is not longer than the game made it: "return ftruncate(fd, len)"
\* (default_dynlib.c:280) says that a truncated save is cut, which does not hold.
NotLonger == \A f \in Files : size[f] <= expected[f]
=============================================================================

---------------------------- MODULE Files_proofs ----------------------------
(***************************************************************************)
(* What the game reads and writes through the loader: saves, paths, assets,*)
(* and the methods and objects of Java, each for any values of its         *)
(* constants.                                                              *)
(*                                                                         *)
(* First the tags of the descriptors, the cap of the ghosts file and the   *)
(* positions, for any number of threads, descriptors and files.  The heart *)
(* of the argument is that a descriptor somebody may write to carries the  *)
(* tag of the file behind it: open sets the tag before it returns the      *)
(* descriptor, and close takes it away before the kernel has it back.      *)
(*                                                                         *)
(* The others are parts of MCFiles' composition, which takes the steps of  *)
(* one part at a time (PartsApart): each has an inductive invariant of its *)
(* own, about its own variables.                                           *)
(***************************************************************************)
EXTENDS MCFiles, SequenceTheorems, WellFoundedInduction, TLAPS

\* A thread in a call has a descriptor that is in use; two are at one only if
\* both write there.
Owns ==
    /\ \A t \in Threads : call[t] # Idle => file[call[t].fd] # NoFile
    /\ \A t, u \in Threads :
          /\ call[t] # Idle /\ call[u] # Idle
          /\ call[t].fd = call[u].fd
          => t = u \/ (call[t].pc \in Writing /\ call[u].pc \in Writing)
    /\ \A t \in Threads : call[t].pc \in Writing => call[t].at + call[t].n <= MaxPos

\* What the game may write to, or is writing to, has the tag of its file.
Tagged == \A d \in Fds : Settled(d) => save_fd[d] = Kind[file[d]]

TagInv == TypeOK /\ Owns /\ Tagged

LEMMA InitTag == Init => TagInv
  BY SaveAssumption DEF Init, TagInv, TypeOK, Owns, Tagged, Settled, Idle, Writing

\* The kinds of calls.
LEMMA CallKinds ==
  ASSUME TypeOK, NEW t \in Threads
  PROVE  /\ call[t] # Idle <=> call[t].pc # "idle"
         /\ call[t] # Idle => call[t].fd \in Fds /\ call[t].pc \in {"tag", "close"} \cup Writing
         /\ call[t].pc \in Writing =>
               /\ call[t] # Idle /\ call[t].at \in 0..MaxPos /\ call[t].n \in 0..MaxPos
               /\ call[t] = [pc |-> call[t].pc, fd |-> call[t].fd, at |-> call[t].at, n |-> call[t].n]
<1>1. \/ call[t] = Idle
      \/ call[t] \in [pc : {"tag", "close"}, fd : Fds]
      \/ call[t] \in [pc : Writing, fd : Fds, at : 0..MaxPos, n : 0..MaxPos]
  BY DEF TypeOK
<1>2. CASE call[t] = Idle
  BY <1>2 DEF Idle, Writing
<1>3. CASE call[t] \in [pc : {"tag", "close"}, fd : Fds]
  BY <1>3 DEF Idle, Writing
<1>4. CASE call[t] \in [pc : Writing, fd : Fds, at : 0..MaxPos, n : 0..MaxPos]
  BY <1>4 DEF Idle, Writing
<1>5. QED
  BY <1>1, <1>2, <1>3, <1>4

LEMMA OpenTag ==
  ASSUME TagInv, NEW t \in Threads, NEW d \in Fds, NEW f \in Files,
         NEW app \in Appending, NEW trunc \in BOOLEAN, open_log(t, f, d, app, trunc)
  PROVE  TagInv'
<1> USE SaveAssumption DEF TagInv, Idle, kernel
<1>1. TypeOK'
  BY DEF TypeOK, open_log
<1>2. Owns'
  BY DEF TypeOK, Owns, open_log, Writing
<1>3. Tagged'
  BY DEF TypeOK, Owns, Tagged, Settled, In, open_log, Writing
<1>4. QED
  BY <1>1, <1>2, <1>3

LEMMA TagTag ==
  ASSUME TagInv, NEW t \in Threads, Tag(t)
  PROVE  TagInv'
<1> USE SaveAssumption DEF TagInv, Idle, kernel
<1>1. call[t].fd \in Fds /\ file[call[t].fd] \in Files /\ call[t] # Idle
  BY CallKinds DEF TypeOK, Owns, Tag
<1>2. TypeOK'
  BY <1>1 DEF TypeOK, Tag
<1>3. Owns'
  BY <1>1 DEF TypeOK, Owns, Tag, Writing
<1>4. Tagged'
  BY <1>1 DEF TypeOK, Owns, Tagged, Settled, In, Tag, Writing
<1>5. QED
  BY <1>2, <1>3, <1>4

LEMMA CloseTag ==
  ASSUME TagInv, NEW t \in Threads, NEW d \in Fds, close_fix(t, d)
  PROVE  TagInv'
<1> USE SaveAssumption DEF TagInv, Idle, close_fix, ClosePart, CloseOrder
<1>1. TypeOK'
  BY DEF TypeOK
<1>2. Owns'
  BY DEF TypeOK, Owns, Usable, Settled, Alone, In, Writing
<1>3. Tagged'
  BY DEF TypeOK, Tagged, Settled, In, Writing
<1>4. QED
  BY <1>1, <1>2, <1>3

LEMMA CloseRestTag ==
  ASSUME TagInv, NEW t \in Threads, CloseRest(t)
  PROVE  TagInv'
<1> USE SaveAssumption DEF TagInv, Idle, CloseRest, ClosePart, CloseOrder
<1>1. call[t].fd \in Fds /\ call[t] # Idle
  BY CallKinds
<1>2. TypeOK'
  BY <1>1 DEF TypeOK
<1>3. Owns'
  BY <1>1 DEF TypeOK, Owns, Writing
<1>4. Tagged'
  BY <1>1 DEF TypeOK, Owns, Tagged, Settled, In, Writing
<1>5. QED
  BY <1>2, <1>3, <1>4

\* A file the thread may write to, and the bytes it is given: the sizes stay in
\* range, and only that file may grow.
LEMMA StoredFacts ==
  ASSUME TypeOK, NEW d \in Fds, file[d] \in Files, NEW n \in 0..MaxPos, NEW k \in 0..n, Within(d, n)
  PROVE  /\ Stored(d, k).end \in 0..MaxPos
         /\ Stored(d, k).size \in [Files -> 0..MaxPos]
         /\ ~append[d] => Stored(d, k).end = pos[d] + k
         /\ \A f \in Files :
               Stored(d, k).size[f] # size[f] =>
                  f = file[d] /\ k > 0 /\ Stored(d, k).size[f] = Stored(d, k).end
<1> DEFINE base == IF append[d] THEN size[file[d]] ELSE pos[d]
<1>1. /\ base \in 0..MaxPos /\ base + k \in 0..MaxPos /\ (~append[d] => base = pos[d])
      /\ pos[d] \in 0..MaxPos
  BY SaveAssumption DEF TypeOK, Within
<1>2. Stored(d, k).end = IF k = 0 THEN pos[d] ELSE base + k
  BY DEF Stored
<1>3. Stored(d, k).size = IF k > 0 /\ base + k > size[file[d]]
                          THEN [size EXCEPT ![file[d]] = base + k] ELSE size
  BY DEF Stored
<1> HIDE DEF base
<1>4. QED
  BY <1>1, <1>2, <1>3 DEF TypeOK

\* The kernel's write changes no descriptor and no tag.
LEMMA WriteFacts ==
  ASSUME TypeOK, NEW d \in Fds, file[d] \in Files, NEW n \in 0..MaxPos,
         NEW k \in 0..n, NEW m \in 0..n, Within(d, n), Write(d, k, m)
  PROVE  /\ UNCHANGED <<file, append, save_fd>>
         /\ pos' = [pos EXCEPT ![d] = Stored(d, k).end] /\ pos' \in [Fds -> 0..MaxPos]
         /\ size' = Stored(d, k).size /\ size' \in [Files -> 0..MaxPos]
         /\ believed' = [believed EXCEPT ![d] = believed[d] + m]
         /\ believed' \in [Fds -> Nat] /\ expected' \in [Files -> Nat]
<1> DEFINE end == Stored(d, m).end
<1>1. /\ believed' = [believed EXCEPT ![d] = believed[d] + m]
      /\ expected' = [expected EXCEPT ![file[d]] =
            IF m > 0 /\ end > expected[file[d]] THEN end ELSE expected[file[d]]]
  BY DEF Write, Told
<1>2. end \in Nat /\ m \in Nat
  BY StoredFacts, SaveAssumption
<1> HIDE DEF end
<1>3. believed' \in [Fds -> Nat] /\ expected' \in [Files -> Nat]
  BY <1>1, <1>2 DEF TypeOK
<1>4. /\ UNCHANGED <<file, append, save_fd>>
      /\ pos' = [pos EXCEPT ![d] = Stored(d, k).end]
      /\ size' = Stored(d, k).size
  BY DEF Write
<1>5. Stored(d, k).end \in 0..MaxPos /\ Stored(d, k).size \in [Files -> 0..MaxPos]
  BY StoredFacts
<1>6. QED
  BY <1>1, <1>3, <1>4, <1>5 DEF TypeOK

\* What a step of write is: of a file without a tag the kernel's write; of a save
\* the question for the position, then the kernel's write, of no more than fits
\* when the file is capped and the write is not reported as it is.
LEMMA PlainWrite ==
  ASSUME TagInv, NEW t \in Threads, NEW d \in Fds, NEW n \in 0..MaxPos, write_fix(t, d, n), save_fd[d] = 0
  PROVE  /\ UNCHANGED call /\ file[d] \in Files /\ Kind[file[d]] = 0 /\ Within(d, n)
         /\ \E k \in 0..n : Write(d, k, k)
BY DEF TagInv, TypeOK, Tagged, Usable, Settled, write_fix

LEMMA BeginWrite ==
  ASSUME TagInv, NEW t \in Threads, NEW d \in Fds, NEW n \in 0..MaxPos, write_fix(t, d, n), save_fd[d] # 0
  PROVE  /\ UNCHANGED <<file, pos, append, size, save_fd, believed, expected>>
         /\ call' = [call EXCEPT ![t] = [pc |-> "write", fd |-> d, at |-> pos[d], n |-> n]]
         /\ call[t] = Idle /\ Settled(d) /\ (Sharing \/ Alone(d)) /\ pos[d] + n <= MaxPos
BY DEF write_fix, Usable, Within, kernel

LEMMA StoreWrite ==
  ASSUME TagInv, NEW t \in Threads, Store(t), NEW d, d = call[t].fd
  PROVE  /\ call[t] # Idle /\ call[t].pc = "write" /\ d \in Fds /\ file[d] \in Files
         /\ save_fd[d] = Kind[file[d]]
         /\ call[t].at \in 0..MaxPos /\ call[t].n \in 0..MaxPos /\ Within(d, call[t].n)
         /\ \E k \in 0..call[t].n : \E m \in {k, call[t].n} :
               /\ Write(d, k, m)
               /\ Kind[file[d]] = 2 /\ k > 0 => call[t].at + k <= Cap
               /\ \/ m = k /\ call' = [call EXCEPT ![t] = Idle]
                  \/ /\ m = call[t].n
                     /\ call' = [call EXCEPT ![t] = [pc |-> "seek", fd |-> d, at |-> call[t].at, n |-> call[t].n]]
<1>1. /\ call[t].pc = "write" /\ Within(d, call[t].n)
      /\ IF save_fd[d] = 2 /\ call[t].at + call[t].n > Cap
         THEN /\ \E k \in 0..Keep(call[t].at) : Write(d, k, call[t].n)
              /\ call' = [call EXCEPT ![t].pc = "seek"]
         ELSE /\ \E k \in 0..call[t].n : Write(d, k, k)
              /\ call' = [call EXCEPT ![t] = Idle]
  BY DEF Store
<1>2. /\ call[t] # Idle /\ d \in Fds /\ call[t].at \in 0..MaxPos /\ call[t].n \in 0..MaxPos
      /\ call[t] = [pc |-> "write", fd |-> d, at |-> call[t].at, n |-> call[t].n]
  BY <1>1, CallKinds DEF TagInv, Writing
<1>3. file[d] \in Files
  BY <1>2 DEF TagInv, TypeOK, Owns
<1>4. Settled(d)
  BY <1>1, <1>2, <1>3, SaveAssumption DEF TagInv, Owns, Settled, In, Writing
<1>5. save_fd[d] = Kind[file[d]]
  BY <1>2, <1>4 DEF TagInv, Tagged
<1>6. CASE save_fd[d] = 2 /\ call[t].at + call[t].n > Cap
  <2>1. PICK k \in 0..Keep(call[t].at) : Write(d, k, call[t].n)
    BY <1>1, <1>6
  <2>2. k \in 0..call[t].n /\ (k > 0 => call[t].at + k <= Cap)
    BY <1>2, <1>6, SaveAssumption DEF Keep
  <2>3. call' = [call EXCEPT ![t] = [pc |-> "seek", fd |-> d, at |-> call[t].at, n |-> call[t].n]]
    <3>1. PICK c : c = call[t]
      OBVIOUS
    <3>2. [c EXCEPT !.pc = "seek"] = [pc |-> "seek", fd |-> d, at |-> c.at, n |-> c.n]
      BY <1>2, <3>1
    <3>3. QED
      BY <1>1, <1>6, <3>1, <3>2
  <2>4. QED
    BY <1>1, <1>2, <1>3, <1>5, <2>1, <2>2, <2>3
<1>7. CASE ~(save_fd[d] = 2 /\ call[t].at + call[t].n > Cap)
  <2>1. PICK k \in 0..call[t].n : Write(d, k, k)
    BY <1>1, <1>7
  <2>2. Kind[file[d]] = 2 /\ k > 0 => call[t].at + k <= Cap
    BY <1>2, <1>5, <1>7, SaveAssumption
  <2>3. call' = [call EXCEPT ![t] = Idle]
    BY <1>1, <1>7
  <2>4. QED
    BY <1>1, <1>2, <1>3, <1>5, <2>1, <2>2, <2>3
<1>8. QED
  BY <1>6, <1>7

LEMMA WriteTag ==
  ASSUME TagInv, NEW t \in Threads, NEW d \in Fds, NEW n \in 0..MaxPos, write_fix(t, d, n)
  PROVE  TagInv'
<1>1. CASE save_fd[d] = 0
  <2>1. PICK k \in 0..n : Write(d, k, k)
    BY <1>1, PlainWrite
  <2>2. /\ UNCHANGED <<file, append, save_fd, call>>
        /\ pos' \in [Fds -> 0..MaxPos] /\ size' \in [Files -> 0..MaxPos]
        /\ believed' \in [Fds -> Nat] /\ expected' \in [Files -> Nat]
    BY <1>1, <2>1, PlainWrite, WriteFacts DEF TagInv
  <2>3. TypeOK'
    BY <2>2 DEF TagInv, TypeOK
  <2>4. Owns' /\ Tagged'
    BY <2>2 DEF TagInv, Owns, Tagged, Settled, In
  <2>5. QED
    BY <2>3, <2>4 DEF TagInv
<1>2. CASE save_fd[d] # 0
  <2>1. /\ UNCHANGED <<file, pos, append, size, save_fd, believed, expected>>
        /\ call' = [call EXCEPT ![t] = [pc |-> "write", fd |-> d, at |-> pos[d], n |-> n]]
        /\ call[t] = Idle /\ Settled(d) /\ pos[d] + n <= MaxPos
    BY <1>2, BeginWrite
  <2>2. TypeOK'
    BY <2>1 DEF TagInv, TypeOK, Writing
  <2>3. Owns'
    BY <2>1 DEF TagInv, TypeOK, Owns, Settled, In, Writing, Idle
  <2>4. Tagged'
    BY <2>1 DEF TagInv, TypeOK, Tagged, Settled, In, Writing, Idle
  <2>5. QED
    BY <2>2, <2>3, <2>4 DEF TagInv
<1>3. QED
  BY <1>1, <1>2

LEMMA StoreTag ==
  ASSUME TagInv, NEW t \in Threads, Store(t)
  PROVE  TagInv'
<1>1. PICK d : d = call[t].fd
  OBVIOUS
<1>2. PICK from, n : from = call[t].at /\ n = call[t].n
  OBVIOUS
<1>3. /\ call[t] # Idle /\ call[t].pc = "write" /\ d \in Fds /\ file[d] \in Files
      /\ from \in 0..MaxPos /\ n \in 0..MaxPos /\ Within(d, n) /\ from + n <= MaxPos
  BY <1>1, <1>2, StoreWrite DEF TagInv, Owns, Writing
<1>4. PICK k \in 0..n : \E m \in {k, n} :
         /\ Write(d, k, m)
         /\ \/ call' = [call EXCEPT ![t] = Idle]
            \/ call' = [call EXCEPT ![t] = [pc |-> "seek", fd |-> d, at |-> from, n |-> n]]
  BY <1>1, <1>2, StoreWrite
<1>5. PICK m \in 0..n :
         /\ Write(d, k, m)
         /\ \/ call' = [call EXCEPT ![t] = Idle]
            \/ call' = [call EXCEPT ![t] = [pc |-> "seek", fd |-> d, at |-> from, n |-> n]]
  BY <1>3, <1>4
<1>6. /\ UNCHANGED <<file, append, save_fd>>
      /\ pos' \in [Fds -> 0..MaxPos] /\ size' \in [Files -> 0..MaxPos]
      /\ believed' \in [Fds -> Nat] /\ expected' \in [Files -> Nat]
  BY <1>3, <1>4, <1>5, WriteFacts DEF TagInv
<1>7. CASE call' = [call EXCEPT ![t] = Idle]
  <2>1. TypeOK'
    BY <1>6, <1>7 DEF TagInv, TypeOK
  <2>2. Owns'
    BY <1>6, <1>7 DEF TagInv, TypeOK, Owns, Idle, Writing
  <2>3. Tagged'
    BY <1>1, <1>3, <1>6, <1>7 DEF TagInv, TypeOK, Tagged, Settled, In, Writing
  <2>4. QED
    BY <2>1, <2>2, <2>3 DEF TagInv
<1>8. CASE call' = [call EXCEPT ![t] = [pc |-> "seek", fd |-> d, at |-> from, n |-> n]]
  <2>1. TypeOK'
    BY <1>3, <1>6, <1>8 DEF TagInv, TypeOK, Writing
  <2>2. Owns'
    BY <1>1, <1>3, <1>6, <1>8 DEF TagInv, TypeOK, Owns, Idle, Writing
  <2>3. Tagged'
    BY <1>1, <1>3, <1>6, <1>8 DEF TagInv, TypeOK, Tagged, Settled, In, Idle, Writing
  <2>4. QED
    BY <2>1, <2>2, <2>3 DEF TagInv
<1>9. QED
  BY <1>5, <1>7, <1>8

LEMMA RestoreTag ==
  ASSUME TagInv, NEW t \in Threads, Restore(t)
  PROVE  TagInv'
<1>1. /\ call[t] # Idle /\ call[t].pc = "seek" /\ call[t].fd \in Fds
      /\ call[t].at \in 0..MaxPos /\ call[t].n \in 0..MaxPos /\ call[t].at + call[t].n <= MaxPos
  BY CallKinds DEF Restore, TagInv, Owns, Writing
<1>2. /\ pos' = [pos EXCEPT ![call[t].fd] = call[t].at + call[t].n]
      /\ call' = [call EXCEPT ![t] = Idle]
      /\ UNCHANGED <<file, append, size, save_fd, believed, expected>>
  BY DEF Restore, Moved
<1>3. call[t].at + call[t].n \in 0..MaxPos
  BY <1>1, SaveAssumption
<1>4. TypeOK'
  BY <1>1, <1>2, <1>3 DEF TagInv, TypeOK
<1>5. Owns'
  BY <1>2 DEF TagInv, TypeOK, Owns, Idle, Writing
<1>6. Tagged'
  BY <1>1, <1>2 DEF TagInv, TypeOK, Tagged, Settled, In, Writing
<1>7. QED
  BY <1>4, <1>5, <1>6 DEF TagInv

LEMMA SeekTag ==
  ASSUME TagInv, NEW t \in Threads, NEW d \in Fds, NEW p \in 0..MaxPos, lseek_fix(t, d, p)
  PROVE  TagInv'
<1>1. TypeOK'
  BY SaveAssumption DEF TagInv, TypeOK, lseek_fix, SeekTo
<1>2. Owns' /\ Tagged'
  BY DEF TagInv, Owns, Tagged, Settled, In, lseek_fix, SeekTo
<1>3. QED
  BY <1>1, <1>2 DEF TagInv

LEMMA TruncateTag ==
  ASSUME TagInv, NEW t \in Threads, NEW d \in Fds, NEW n \in 0..MaxPos, ftruncate_fix(t, d, n)
  PROVE  TagInv'
<1>1. /\ expected' = [expected EXCEPT ![file[d]] = n] /\ n \in Nat
      /\ UNCHANGED <<file, pos, append, size, save_fd, call, believed>>
  BY SaveAssumption DEF ftruncate_fix, kernel
<1>2. expected' \in [Files -> Nat]
  BY <1>1 DEF TagInv, TypeOK
<1>3. TypeOK'
  BY <1>1, <1>2 DEF TagInv, TypeOK
<1>4. Owns' /\ Tagged'
  BY <1>1 DEF TagInv, Owns, Tagged, Settled, In
<1>5. QED
  BY <1>3, <1>4 DEF TagInv

LEMMA NextTag == TagInv /\ [Next]_vars => TagInv'
<1> SUFFICES ASSUME TagInv, [Next]_vars PROVE TagInv'
  OBVIOUS
<1>1. ASSUME NEW t \in Threads, Tag(t) \/ CloseRest(t) \/ Store(t) \/ Restore(t) PROVE TagInv'
  BY <1>1, TagTag, CloseRestTag, StoreTag, RestoreTag
<1>2. ASSUME NEW t \in Threads, NEW d \in Fds,
             \/ \E f \in Files, app \in Appending, trunc \in BOOLEAN : open_log(t, f, d, app, trunc)
             \/ close_fix(t, d)
             \/ \E n \in 0..MaxPos : write_fix(t, d, n) \/ lseek_fix(t, d, n)
                                     \/ ftruncate_fix(t, d, n)
      PROVE  TagInv'
  BY <1>2, OpenTag, CloseTag, WriteTag, SeekTag, TruncateTag
<1>3. CASE UNCHANGED vars
  BY <1>3 DEF vars, kernel, TagInv, TypeOK, Owns, Tagged, Settled, In
<1>4. QED
  BY <1>1, <1>2, <1>3 DEF Next

(* The tag of a descriptor that the game may write to is the kind of its file,
   whatever other threads open and close meanwhile, and also while threads write
   through one descriptor (default_dynlib.c:227-252). *)
THEOREM TagsFit == Spec => [](TypeOK /\ Tagged)
<1>1. TagInv => TypeOK /\ Tagged
  BY DEF TagInv
<1>2. QED
  BY <1>1, InitTag, NextTag, PTL DEF Spec

----------------------------------------------------------------------------
(* The game opens its saves without O_APPEND and does not write through one *)
(* descriptor in two threads at once; then a write finds the position where *)
(* it asked for it, the cap holds and the positions are what the game       *)
(* thinks.                                                                  *)

NotAppending == \A d \in Fds : ~append[d]
OneWriter ==
    \A t, u \in Threads : call[t] # Idle /\ call[u] # Idle /\ call[t].fd = call[u].fd => t = u
InPlace ==
    \A t \in Threads :
        /\ call[t].pc = "write" => pos[call[t].fd] = call[t].at /\ believed[call[t].fd] = call[t].at
        /\ call[t].pc = "seek" => believed[call[t].fd] = call[t].at + call[t].n
        /\ call[t].pc \in {"tag", "close"} => pos[call[t].fd] = believed[call[t].fd]

Taking == TRUE \notin Appending /\ Sharing = FALSE
CapInv == TagInv /\ NotAppending /\ OneWriter /\ InPlace /\ GhostCapped /\ PositionKept

LEMMA InitCap == Init => CapInv
  BY InitTag, SaveAssumption
  DEF CapInv, NotAppending, OneWriter, InPlace, GhostCapped, PositionKept, Init, Idle

\* The kernel's write at the place where the game thinks it is.
LEMMA WriteCaps ==
  ASSUME TypeOK, NotAppending, GhostCapped, NEW d \in Fds, file[d] \in Files, NEW n \in 0..MaxPos,
         NEW k \in 0..n, NEW m \in 0..n, Within(d, n), Write(d, k, m),
         Kind[file[d]] = 2 /\ k > 0 => pos[d] + k <= Cap
  PROVE  /\ UNCHANGED <<file, append>> /\ GhostCapped'
         /\ pos' = [pos EXCEPT ![d] = pos[d] + k]
         /\ believed' = [believed EXCEPT ![d] = believed[d] + m]
<1>1. /\ UNCHANGED <<file, append, save_fd>> /\ size' = Stored(d, k).size
      /\ pos' = [pos EXCEPT ![d] = Stored(d, k).end]
      /\ believed' = [believed EXCEPT ![d] = believed[d] + m]
  BY WriteFacts
<1>2. /\ Stored(d, k).end = pos[d] + k
      /\ \A f \in Files :
            Stored(d, k).size[f] # size[f] =>
               f = file[d] /\ k > 0 /\ Stored(d, k).size[f] = Stored(d, k).end
  BY StoredFacts DEF NotAppending
<1>3. ASSUME NEW f \in Files, Kind[f] = 2 PROVE size'[f] <= Cap
  <2>1. CASE size'[f] = size[f]
    BY <1>3, <2>1 DEF GhostCapped
  <2>2. CASE size'[f] # size[f]
    BY <1>1, <1>2, <1>3, <2>2
  <2>3. QED
    BY <2>1, <2>2
<1>4. QED
  BY <1>1, <1>2, <1>3 DEF GhostCapped

LEMMA WriteCap ==
  ASSUME CapInv, Taking, NEW t \in Threads, NEW d \in Fds, NEW n \in 0..MaxPos, write_fix(t, d, n)
  PROVE  CapInv'
<1>1. TagInv'
  BY WriteTag DEF CapInv
<1>2. TypeOK /\ Alone(d) /\ file[d] # NoFile /\ call[t] = Idle
  BY DEF CapInv, TagInv, Taking, write_fix, Usable, Settled
<1>3. pos[d] \in 0..MaxPos /\ believed[d] = pos[d]
  BY <1>2 DEF CapInv, TypeOK, PositionKept
<1>4. CASE save_fd[d] = 0
  <2>1. PICK k \in 0..n : Write(d, k, k)
    BY <1>4, PlainWrite DEF CapInv
  <2>2. /\ UNCHANGED <<file, append, call>> /\ GhostCapped'
        /\ pos' = [pos EXCEPT ![d] = pos[d] + k]
        /\ believed' = [believed EXCEPT ![d] = believed[d] + k]
    BY <1>2, <1>4, <2>1, PlainWrite, WriteCaps DEF CapInv
  <2>3. PositionKept'
    BY <1>2, <1>3, <2>2 DEF CapInv, PositionKept, TypeOK, Alone, In
  <2>4. InPlace'
    <3>1. \A u \in Threads : call[u].pc \in {"tag", "close", "write", "seek"} => call[u].fd # d /\ call[u].fd \in Fds
      BY <1>2, CallKinds DEF Alone, In, Writing
    <3>2. QED
      BY <1>2, <2>2, <3>1 DEF CapInv, InPlace, TypeOK
  <2>5. QED
    BY <1>1, <2>2, <2>3, <2>4 DEF CapInv, NotAppending, OneWriter
<1>5. CASE save_fd[d] # 0
  <2>1. /\ UNCHANGED <<file, pos, append, size, save_fd, believed, expected>>
        /\ call' = [call EXCEPT ![t] = [pc |-> "write", fd |-> d, at |-> pos[d], n |-> n]]
    BY <1>5, BeginWrite DEF CapInv
  <2>2. PositionKept'
    BY <1>2, <2>1 DEF CapInv, PositionKept, TypeOK, Alone, In, Idle
  <2>3. InPlace'
    BY <1>2, <1>3, <2>1 DEF CapInv, InPlace, TypeOK, Idle
  <2>4. OneWriter'
    BY <1>2, <2>1 DEF CapInv, OneWriter, TypeOK, Alone, In, Idle
  <2>5. QED
    BY <1>1, <2>1, <2>2, <2>3, <2>4 DEF CapInv, NotAppending, GhostCapped
<1>6. QED
  BY <1>4, <1>5

LEMMA StoreCap ==
  ASSUME CapInv, Taking, NEW t \in Threads, Store(t)
  PROVE  CapInv'
<1>0. TagInv' /\ TypeOK
  BY StoreTag DEF CapInv, TagInv
<1>1. PICK d : d = call[t].fd
  OBVIOUS
<1>2. PICK from, n : from = call[t].at /\ n = call[t].n
  OBVIOUS
<1>3. /\ call[t] # Idle /\ call[t].pc = "write" /\ d \in Fds /\ file[d] \in Files
      /\ from \in 0..MaxPos /\ n \in 0..MaxPos /\ Within(d, n)
  BY <1>1, <1>2, StoreWrite DEF CapInv
<1>4. PICK k \in 0..n : \E m \in {k, n} :
         /\ Write(d, k, m)
         /\ Kind[file[d]] = 2 /\ k > 0 => from + k <= Cap
         /\ \/ m = k /\ call' = [call EXCEPT ![t] = Idle]
            \/ m = n /\ call' = [call EXCEPT ![t] = [pc |-> "seek", fd |-> d, at |-> from, n |-> n]]
  BY <1>1, <1>2, StoreWrite DEF CapInv
<1>5. PICK m \in 0..n :
         /\ Write(d, k, m)
         /\ Kind[file[d]] = 2 /\ k > 0 => from + k <= Cap
         /\ \/ m = k /\ call' = [call EXCEPT ![t] = Idle]
            \/ m = n /\ call' = [call EXCEPT ![t] = [pc |-> "seek", fd |-> d, at |-> from, n |-> n]]
  BY <1>3, <1>4
<1>6. pos[d] = from /\ believed[d] = from
  BY <1>1, <1>2, <1>3 DEF CapInv, InPlace
<1>7. /\ UNCHANGED <<file, append>> /\ GhostCapped'
      /\ pos' = [pos EXCEPT ![d] = from + k]
      /\ believed' = [believed EXCEPT ![d] = from + m]
  BY <1>3, <1>5, <1>6, <1>0, WriteCaps DEF CapInv
<1>8. \A u \in Threads : call[u].pc \in {"tag", "close", "write", "seek"} /\ u # t => call[u].fd # d /\ call[u].fd \in Fds
  BY <1>1, <1>3, <1>0, CallKinds DEF CapInv, OneWriter, Writing
<1>9. CASE m = k /\ call' = [call EXCEPT ![t] = Idle]
  <2>1. InPlace'
    BY <1>0, <1>7, <1>8, <1>9 DEF CapInv, InPlace, TypeOK, Idle
  <2>2. PositionKept'
    BY <1>1, <1>3, <1>5, <1>7, <1>0, <1>9 DEF CapInv, PositionKept, TypeOK, Alone, In
  <2>3. OneWriter'
    BY <1>0, <1>9 DEF CapInv, OneWriter, TypeOK
  <2>4. QED
    BY <1>0, <1>7, <2>1, <2>2, <2>3 DEF CapInv, NotAppending
<1>10. CASE m = n /\ call' = [call EXCEPT ![t] = [pc |-> "seek", fd |-> d, at |-> from, n |-> n]]
  <2>1. InPlace'
    BY <1>3, <1>5, <1>7, <1>0, <1>8, <1>10 DEF CapInv, InPlace, TypeOK
  <2>2. PositionKept'
    BY <1>1, <1>3, <1>5, <1>7, <1>0, <1>10 DEF CapInv, PositionKept, TypeOK, Alone, In, Idle
  <2>3. OneWriter'
    BY <1>1, <1>3, <1>0, <1>10 DEF CapInv, OneWriter, TypeOK, Idle
  <2>4. QED
    BY <1>0, <1>7, <2>1, <2>2, <2>3 DEF CapInv, NotAppending
<1>11. QED
  BY <1>5, <1>9, <1>10

LEMMA RestoreCap ==
  ASSUME CapInv, NEW t \in Threads, Restore(t)
  PROVE  CapInv'
<1>0. TagInv'
  BY RestoreTag DEF CapInv
<1>1. PICK d : d = call[t].fd
  OBVIOUS
<1>2. /\ call[t] # Idle /\ call[t].pc = "seek" /\ d \in Fds /\ TypeOK
  BY <1>1, CallKinds DEF Restore, CapInv, TagInv, Writing
<1>3. /\ pos' = [pos EXCEPT ![d] = call[t].at + call[t].n]
      /\ call' = [call EXCEPT ![t] = Idle]
      /\ UNCHANGED <<file, append, size, save_fd, believed, expected>>
  BY <1>1 DEF Restore, Moved
<1>4. believed[d] = call[t].at + call[t].n
  BY <1>1, <1>2 DEF CapInv, InPlace
<1>5. \A u \in Threads : call[u].pc \in {"tag", "close", "write", "seek"} /\ u # t => call[u].fd # d /\ call[u].fd \in Fds
  BY <1>1, <1>2, CallKinds DEF CapInv, OneWriter, Writing
<1>6. InPlace'
  BY <1>2, <1>3, <1>5 DEF CapInv, InPlace, TypeOK, Idle
<1>7. PositionKept'
  BY <1>1, <1>2, <1>3, <1>4 DEF CapInv, PositionKept, TypeOK, Alone, In
<1>8. OneWriter'
  BY <1>2, <1>3 DEF CapInv, OneWriter, TypeOK
<1>9. QED
  BY <1>0, <1>3, <1>6, <1>7, <1>8 DEF CapInv, NotAppending, GhostCapped

\* An open takes a descriptor that nobody is at.
LEMMA OpenCap ==
  ASSUME CapInv, Taking, NEW t \in Threads, NEW d \in Fds, NEW f \in Files, NEW app \in Appending,
         NEW trunc \in BOOLEAN, open_log(t, f, d, app, trunc)
  PROVE  CapInv'
<1>1. TagInv'
  BY OpenTag DEF CapInv
<1>2. TypeOK /\ call[t] = Idle /\ file[d] = NoFile /\ app = FALSE
  BY SaveAssumption DEF CapInv, TagInv, open_log, Taking
<1>3. /\ file' = [file EXCEPT ![d] = f] /\ pos' = [pos EXCEPT ![d] = 0]
      /\ append' = [append EXCEPT ![d] = FALSE]
      /\ size' = IF trunc THEN [size EXCEPT ![f] = 0] ELSE size
      /\ believed' = [believed EXCEPT ![d] = 0]
      /\ call' = [call EXCEPT ![t] = [pc |-> "tag", fd |-> d]]
  BY <1>2 DEF open_log
<1>4. \A u \in Threads : call[u] # Idle => call[u].fd # d /\ call[u].fd \in Fds
  BY <1>2, CallKinds DEF CapInv, TagInv, Owns
<1>5. \A u \in Threads : call[u].pc \in {"tag", "close", "write", "seek"} => call[u] # Idle
  BY DEF Idle
<1>6. NotAppending' /\ GhostCapped'
  BY <1>2, <1>3, SaveAssumption DEF CapInv, NotAppending, GhostCapped, TypeOK
<1>7. OneWriter'
  BY <1>2, <1>3, <1>4 DEF CapInv, OneWriter, TypeOK
<1>8. InPlace'
  BY <1>2, <1>3, <1>4, <1>5 DEF CapInv, InPlace, TypeOK
<1>9. PositionKept'
  BY <1>2, <1>3 DEF CapInv, PositionKept, TypeOK, Alone, In, Idle
<1>10. QED
  BY <1>1, <1>6, <1>7, <1>8, <1>9 DEF CapInv

\* Tags and closing leave positions, sizes and the calls that write alone.
LEMMA RestCap ==
  ASSUME CapInv, NEW t \in Threads,
         Tag(t) \/ CloseRest(t) \/ \E d \in Fds : close_fix(t, d)
  PROVE  CapInv'
<1>1. TagInv' /\ TypeOK
  BY TagTag, CloseRestTag, CloseTag DEF CapInv, TagInv
<1>2. /\ UNCHANGED <<pos, append, size, believed>>
      /\ \A d \in Fds : file'[d] \in {file[d], NoFile}
  BY <1>1, SaveAssumption DEF TypeOK, Tag, CloseRest, close_fix, ClosePart, kernel
<1>3. \/ call[t] # Idle /\ call' = [call EXCEPT ![t] = Idle]
      \/ \E d \in Fds : /\ Alone(d) /\ file[d] # NoFile
                        /\ call' = [call EXCEPT ![t] = [pc |-> "close", fd |-> d]]
  BY DEF Tag, CloseRest, close_fix, Idle, Usable, Settled
<1>4. InPlace'
  BY <1>1, <1>2, <1>3 DEF CapInv, InPlace, PositionKept, TypeOK, Idle
<1>5. OneWriter'
  BY <1>1, <1>3 DEF CapInv, OneWriter, TypeOK, Alone, In, Idle
<1>6. PositionKept'
  <2>1. ASSUME NEW d \in Fds, file'[d] # NoFile, Alone(d)' PROVE pos'[d] = believed'[d]
    <3>1. CASE Alone(d)
      BY <1>2, <2>1, <3>1 DEF CapInv, PositionKept
    <3>2. CASE ~Alone(d)
      <4>1. call[t] # Idle /\ call[t].fd = d
        BY <1>1, <1>3, <2>1, <3>2 DEF Alone, In, TypeOK, Idle
      <4>2. call[t].pc \in {"tag", "close"}
        BY <4>1 DEF Tag, CloseRest, close_fix, Idle
      <4>3. QED
        BY <1>1, <1>2, <2>1, <4>1, <4>2 DEF CapInv, InPlace
    <3>3. QED
      BY <3>1, <3>2
  <2>2. QED
    BY <2>1 DEF PositionKept
<1>7. QED
  BY <1>1, <1>2, <1>4, <1>5, <1>6 DEF CapInv, NotAppending, GhostCapped

LEMMA NextCap == CapInv /\ Taking /\ [Next]_vars => CapInv'
<1> SUFFICES ASSUME CapInv, Taking, [Next]_vars PROVE CapInv'
  OBVIOUS
<1>1. TypeOK
  BY DEF CapInv, TagInv
<1>2. ASSUME NEW t \in Threads, NEW d \in Fds, NEW p \in 0..MaxPos, lseek_fix(t, d, p)
      PROVE  CapInv'
  <2>1. TagInv'
    BY <1>2, SeekTag DEF CapInv
  <2>2. /\ pos' = [pos EXCEPT ![d] = p] /\ believed' = [believed EXCEPT ![d] = p]
        /\ UNCHANGED <<file, append, size, save_fd, call>> /\ Alone(d)
    BY <1>2 DEF lseek_fix, SeekTo, Usable, Taking
  <2>3. \A u \in Threads : call[u].pc \in {"tag", "close", "write", "seek"} => call[u].fd # d /\ call[u].fd \in Fds
    BY <1>1, <2>2, CallKinds DEF Alone, In, Writing
  <2>4. InPlace' /\ PositionKept'
    BY <1>1, <2>2, <2>3 DEF CapInv, InPlace, PositionKept, TypeOK, Alone, In
  <2>5. QED
    BY <2>1, <2>2, <2>4 DEF CapInv, NotAppending, OneWriter, GhostCapped
<1>3. ASSUME UNCHANGED <<file, pos, append, size, save_fd, call, believed>>, TagInv' PROVE CapInv'
  BY <1>3 DEF CapInv, NotAppending, OneWriter, InPlace, GhostCapped, PositionKept, Alone, In
<1>4. ASSUME NEW t \in Threads, NEW d \in Fds, NEW n \in 0..MaxPos, ftruncate_fix(t, d, n) PROVE CapInv'
  BY <1>3, <1>4, TruncateTag DEF CapInv, ftruncate_fix, kernel
<1>5. CASE UNCHANGED vars
  BY <1>3, <1>5, NextTag DEF vars, kernel, CapInv
<1>6. QED
  BY <1>2, <1>4, <1>5, OpenCap, WriteCap, StoreCap, RestoreCap, RestCap DEF Next

(* As long as the game does not append to a save and does not write through one
   descriptor in two threads at once, the ghosts file never grows beyond the cap,
   whatever descriptors its threads get and give back, however the calls
   interleave and however short the kernel's writes are (default_dynlib.c:248-268). *)
THEOREM Capped == ASSUME TRUE \notin Appending, Sharing = FALSE PROVE Spec => []GhostCapped
<1>1. CapInv /\ [Next]_vars => CapInv'
  BY NextCap DEF Taking
<1>2. CapInv => GhostCapped
  BY DEF CapInv
<1>3. QED
  BY <1>1, <1>2, InitCap, PTL DEF Spec

(* Under the same conditions every open descriptor that no call is at stands where
   the results of the game's own calls add up to, also when part of a write was
   dropped at the cap (default_dynlib.c:263-268). *)
THEOREM Positions == ASSUME TRUE \notin Appending, Sharing = FALSE PROVE Spec => []PositionsKept
<1>1. CapInv /\ [Next]_vars => CapInv'
  BY NextCap DEF Taking
<1>2. CapInv => PositionsKept
  BY DEF CapInv, TagInv, PositionsKept
<1>3. QED
  BY <1>1, <1>2, InitCap, PTL DEF Spec

----------------------------------------------------------------------------
(* The methods *)

\* A set of naturals has a least element.
LEMMA LeastOne ==
  ASSUME NEW S \in SUBSET Nat, S # {}
  PROVE  \E k \in S : \A j \in S : k <= j
<1>1. PICK R : R = OpToRel(<, Nat) /\ IsWellFoundedOn(R, Nat)
  BY NatLessThanWellFounded
<1>2. \A j, k \in Nat : k < j => <<k, j>> \in R
  BY <1>1 DEF OpToRel
<1>3. PICK k \in S : \A j \in S : <<j, k>> \notin R
  BY <1>1, WFMin
<1>4. ASSUME NEW j \in S PROVE k <= j
  <2>1. k \in Nat /\ j \in Nat /\ ~(j < k)
    BY <1>2, <1>3
  <2>2. QED
    BY <2>1
<1>5. QED
  BY <1>4

LEMMA FirstMethod ==
  ASSUME NEW S \in SUBSET Nat, S # {}
  PROVE  Methods!FirstOf(S) \in S
BY LeastOne DEF Methods!FirstOf

\* What GetMethodID returns for a name: the place of its first entry in a table
\* that has it, or else a number beyond the tables.
IdFits(n, id) ==
    /\ Methods!InSpecial(n) # {} =>
          \E i \in 1..11 : Methods!special[i] = n /\ id = Methods!M_OPEN + i - 1
    /\ Methods!InSpecial(n) = {} /\ Methods!InMethods(n) # {} =>
          id = Methods!FirstOf(Methods!InMethods(n)) /\ id \in 1..17
    /\ Methods!Unknown(n) => id >= Methods!UNKNOWN_BASE

\* Only names that no table has get beyond the tables.
MethodsInv ==
    /\ Methods!TypeOK
    /\ \A k \in known : k[2] \in Nat /\ IdFits(k[1], k[2])
    /\ \A t \in Lookers :
          mpc[t] \in {"scan", "store", "load", "count"} => arg[t] \in LookedUp /\ Methods!Unknown(arg[t])

\* Of what is called, the type decides the function that serves the slot.
LEMMA SlotOfType ==
  ASSUME NEW static \in BOOLEAN, NEW type \in 1..10, NEW form \in 0..2,
         ~(type = 9 \/ (type = 8 /\ form = 2))
  PROVE  LET serves == Methods!CallSlots(Methods!JniSlot(static, type, form)) IN
         /\ serves = CASE type = 1 -> "Object" [] type = 2 -> "Boolean" [] type = 7 -> "Long"
                        [] type = 8 -> "Float" [] type = 10 -> "Void" [] OTHER -> "Int"
         /\ serves # "zero"
         /\ serves = "Float" <=> type = 8
<1>1. PICK k \in 0..29 : k = 3 * (type - 1) + form
  OBVIOUS
<1>2. Methods!InFamily(Methods!JniSlot(static, type, form)) = k
  <2>1. CASE static
    BY <1>1, <2>1 DEF Methods!JniSlot, Methods!InFamily
  <2>2. CASE ~static
    BY <1>1, <2>2 DEF Methods!JniSlot, Methods!InFamily
  <2>3. QED
    BY <2>1, <2>2
<1>3. Methods!CallSlots(Methods!JniSlot(static, type, form)) =
         CASE k \in 0..2 -> "Object"  [] k \in 3..5 -> "Boolean"
           [] k \in 6..17 -> "Int"    [] k \in 18..20 -> "Long"
           [] k \in 21..22 -> "Float" [] k \in 27..29 -> "Void"
           [] OTHER -> "zero"
  BY <1>2 DEF Methods!CallSlots
<1>4. ASSUME NEW t \in 1..10, type = t PROVE k = 3 * (t - 1) + form
  BY <1>1, <1>4
<1>5. CASE type \in 1..2
  BY <1>3, <1>4, <1>5
<1>6. CASE type \in 3..6
  BY <1>1, <1>3, <1>6
<1>7. CASE type \in 7..8
  BY <1>3, <1>4, <1>7
<1>8. CASE type = 10
  BY <1>3, <1>4, <1>8
<1>9. QED
  BY <1>5, <1>6, <1>7, <1>8

LEMMA TypesNamed ==
  /\ DOMAIN Methods!Types = 1..10 /\ Len(Methods!Types) = 10
  /\ \A type \in 1..10 :
        /\ Methods!Types[type] = "Float" <=> type = 8
        /\ Methods!Types[type] = "Double" <=> type = 9
        /\ Methods!Types[type] = "Long" <=> type = 7
        /\ Methods!Types[type] = "Void" <=> type = 10
<1>1. DOMAIN Methods!Types = 1..10 /\ Len(Methods!Types) = 10
  BY DEF Methods!Types
<1>2. /\ Methods!Types[1] = "Object" /\ Methods!Types[2] = "Boolean" /\ Methods!Types[3] = "Byte"
      /\ Methods!Types[4] = "Char" /\ Methods!Types[5] = "Short" /\ Methods!Types[6] = "Int"
      /\ Methods!Types[7] = "Long" /\ Methods!Types[8] = "Float" /\ Methods!Types[9] = "Double"
      /\ Methods!Types[10] = "Void"
  BY DEF Methods!Types
<1> HIDE DEF Methods!Types
<1>3. ASSUME NEW type \in 1..10
      PROVE  \/ type = 1 \/ type = 2 \/ type = 3 \/ type = 4 \/ type = 5
             \/ type = 6 \/ type = 7 \/ type = 8 \/ type = 9 \/ type = 10
  OBVIOUS
<1>4. QED
  BY <1>1, <1>2, <1>3

LEMMA FieldsZero == Methods!FieldsAreZero
<1> SUFFICES ASSUME NEW static \in BOOLEAN, NEW type \in 1..9
             PROVE  /\ Methods!FieldSlots(Methods!JniField(static, FALSE, type)) =
                          IF Methods!Types[type] \in DOMAIN Methods!Width
                          THEN Methods!Width[Methods!Types[type]] ELSE "int"
                    /\ Methods!FieldSlots(Methods!JniField(static, TRUE, type)) = "nothing"
  <2>1. DOMAIN Methods!Types \ {Len(Methods!Types)} = 1..9
    BY TypesNamed
  <2>2. QED
    BY <2>1 DEF Methods!FieldsAreZero
<1>1. Methods!FieldSlots(Methods!JniField(static, TRUE, type)) = "nothing"
  <2>1. CASE static
    BY <2>1 DEF Methods!FieldSlots, Methods!JniField
  <2>2. CASE ~static
    BY <2>2 DEF Methods!FieldSlots, Methods!JniField
  <2>3. QED
    BY <2>1, <2>2
<1>2. Methods!FieldSlots(Methods!JniField(static, FALSE, type)) =
         CASE type \in 1..6 -> "int" [] type = 7 -> "long" [] type = 8 -> "float" [] OTHER -> "double"
  <2>1. CASE static
    BY <2>1 DEF Methods!FieldSlots, Methods!JniField
  <2>2. CASE ~static
    BY <2>2 DEF Methods!FieldSlots, Methods!JniField
  <2>3. QED
    BY <2>1, <2>2
<1>3. /\ DOMAIN Methods!Width = {"Long", "Float", "Double"}
      /\ Methods!Width["Long"] = "long" /\ Methods!Width["Float"] = "float"
      /\ Methods!Width["Double"] = "double"
  BY DEF Methods!Width
<1>4. PICK field : field = Methods!FieldSlots(Methods!JniField(static, FALSE, type))
  OBVIOUS
<1>5. PICK named : named = Methods!Types[type]
  OBVIOUS
<1>6. field = IF named \in DOMAIN Methods!Width THEN Methods!Width[named] ELSE "int"
  <2>1. field = CASE type \in 1..6 -> "int" [] type = 7 -> "long" [] type = 8 -> "float" [] OTHER -> "double"
    BY <1>2, <1>4, Zenon
  <2>2. /\ named = "Float" <=> type = 8
        /\ named = "Double" <=> type = 9
        /\ named = "Long" <=> type = 7
    BY <1>5, TypesNamed
  <2>3. CASE type \in 1..6
    BY <1>3, <2>1, <2>2, <2>3
  <2>4. CASE type \in 7..9
    BY <1>3, <2>1, <2>2, <2>4
  <2>5. QED
    BY <2>3, <2>4
<1>7. QED
  BY <1>1, <1>4, <1>5, <1>6, Zenon

LEMMA TablesAreFinite ==
  ASSUME NEW n
  PROVE  /\ DOMAIN Methods!special = 1..11 /\ Methods!NMETHODS = 17
         /\ Methods!InSpecial(n) \subseteq 1..11 /\ Methods!InMethods(n) \subseteq 1..17
<1>1. DOMAIN Methods!special = 1..11 /\ Methods!NMETHODS = 17
  BY DEF Methods!special, Methods!NMETHODS, Methods!methods
<1>2. QED
  BY <1>1 DEF Methods!InSpecial, Methods!InMethods

\* No name is in both tables.
LEMMA TablesApart ==
  ASSUME NEW n, Methods!InSpecial(n) # {}
  PROVE  Methods!InMethods(n) = {}
<1> DEFINE names == {"open", "openFd", "list", "read", "skip", "close",
                     "getLength", "available", "reset", "mark", "getAssets"}
<1>1. \A i \in 1..11 : Methods!special[i] \in names
  BY DEF Methods!special
<1>2. \A j \in 1..17 : Methods!methods[j].name \notin names
  BY DEF Methods!methods, Methods!Entry
<1>3. n \in names
  BY <1>1, TablesAreFinite DEF Methods!InSpecial
<1> HIDE DEF names
<1>4. QED
  BY <1>2, <1>3, TablesAreFinite DEF Methods!InMethods

\* What is taken from a function that serves a slot.
LEMMA SlotsTaken ==
  ASSUME NEW static \in BOOLEAN, NEW type \in 1..10, NEW form \in 0..2,
         ~Methods!NotCalled(type, form)
  PROVE  /\ ~(type = 9 \/ (type = 8 /\ form = 2))
         /\ Methods!Taken(Methods!CallSlots(Methods!JniSlot(static, type, form))) =
               Methods!Taken(Methods!Types[type])
<1>1. ~(type = 9 \/ (type = 8 /\ form = 2))
  BY TypesNamed DEF Methods!NotCalled
<1>2. PICK serves : serves = Methods!CallSlots(Methods!JniSlot(static, type, form))
  OBVIOUS
<1>3. serves = CASE type = 1 -> "Object" [] type = 2 -> "Boolean" [] type = 7 -> "Long"
                 [] type = 8 -> "Float" [] type = 10 -> "Void" [] OTHER -> "Int"
  BY <1>1, <1>2, SlotOfType
<1>4. PICK named : named = Methods!Types[type]
  OBVIOUS
<1>5. /\ named = "Float" <=> type = 8
      /\ named = "Double" <=> type = 9
      /\ named = "Long" <=> type = 7
      /\ named = "Void" <=> type = 10
  BY <1>4, TypesNamed
<1>6. /\ serves = "Float" <=> type = 8
      /\ serves # "Double"
      /\ serves = "Long" <=> type = 7
      /\ serves = "Void" <=> type = 10
  BY <1>3
<1>7. /\ DOMAIN Methods!Width = {"Long", "Float", "Double"}
      /\ Methods!Width["Long"] = "long" /\ Methods!Width["Float"] = "float"
      /\ Methods!Width["Double"] = "double"
  BY DEF Methods!Width
<1>8. /\ Methods!Taken(serves) = CASE type = 10 -> "nothing" [] type = 7 -> "long" [] type = 8 -> "float"
                                 [] OTHER -> "word"
      /\ Methods!Taken(named) = CASE type = 10 -> "nothing" [] type = 7 -> "long" [] type = 8 -> "float"
                                [] OTHER -> "word"
  <2>1. CASE type \in {7, 8, 10}
    BY <1>5, <1>6, <1>7, <2>1 DEF Methods!Taken
  <2>2. CASE type \notin {7, 8, 10}
    BY <1>1, <1>5, <1>6, <1>7, <2>2 DEF Methods!Taken
  <2>3. QED
    BY <2>1, <2>2
<1>9. QED
  BY <1>1, <1>2, <1>4, <1>8

\* What a call runs, by the id.
LEMMA RunsById ==
  ASSUME NEW n, NEW id \in Nat, IdFits(n, id), unknown_count \in Nat, MaxNames \in Nat
  PROVE  /\ Methods!CallA(id) \in Methods!Meant(n)
         /\ Methods!CallV(id) \in Methods!Meant(n) \/
               (Methods!CallV(id) = Methods!Outside /\ unknown_count > MaxNames)
         /\ Methods!CallFloatMethodV(id) \in IF Methods!InSpecial(n) # {} THEN {Methods!NULL} ELSE Methods!Meant(n)
<1>1. Methods!CallV(id) = Methods!CallA(id) \/
         (Methods!CallV(id) = Methods!Outside /\ unknown_count > MaxNames)
  BY DEF Methods!CallV, Methods!Counted, Methods!UNKNOWN_BASE
<1>2. CASE Methods!InSpecial(n) # {}
  <2>1. PICK i \in 1..11 : Methods!special[i] = n /\ id = 900 + i - 1
    BY <1>2 DEF IdFits, Methods!M_OPEN
  <2>2. Methods!CallA(id) = n
    BY <2>1 DEF Methods!CallA, Methods!special_call, Methods!M_OPEN, Methods!M_GETASSETS
  <2>3. Methods!CallFloatMethodV(id) = Methods!NULL
    BY <2>1, TablesAreFinite DEF Methods!CallFloatMethodV, Methods!lookup
  <2>4. Methods!Meant(n) = {n}
    BY <1>2, TablesApart, Zenon DEF Methods!Meant
  <2>5. QED
    BY <1>1, <1>2, <2>2, <2>3, <2>4
<1>3. CASE Methods!InSpecial(n) = {} /\ Methods!InMethods(n) # {}
  <2>1. id = Methods!FirstOf(Methods!InMethods(n)) /\ id \in 1..17 /\ id \in Methods!InMethods(n)
    BY <1>3, FirstMethod, TablesAreFinite DEF IdFits
  <2>2. Methods!lookup(id) = Methods!methods[id].func
    BY <2>1, TablesAreFinite DEF Methods!lookup
  <2>3. Methods!CallA(id) = Methods!lookup(id)
    BY <2>1 DEF Methods!CallA, Methods!M_OPEN, Methods!M_GETASSETS
  <2>4. Methods!Meant(n) = Methods!Named(n) /\ Methods!methods[id].func \in Methods!Named(n)
    BY <1>3, <2>1 DEF Methods!Meant, Methods!Named
  <2>5. QED
    BY <1>1, <1>3, <2>2, <2>3, <2>4 DEF Methods!CallFloatMethodV
<1>4. CASE Methods!Unknown(n)
  <2>1. id >= 1000
    BY <1>4 DEF IdFits, Methods!UNKNOWN_BASE
  <2>2. Methods!lookup(id) = Methods!NULL
    BY <2>1, TablesAreFinite DEF Methods!lookup
  <2>3. Methods!CallA(id) = Methods!lookup(id)
    BY <2>1 DEF Methods!CallA, Methods!M_OPEN, Methods!M_GETASSETS
  <2>4. QED
    BY <1>1, <1>4, <2>2, <2>3 DEF Methods!Meant, Methods!Unknown, Methods!CallFloatMethodV
<1>5. QED
  BY <1>2, <1>3, <1>4 DEF Methods!Unknown

LEMMA RightMethod == MethodsInv => CallsRightMethod
<1> SUFFICES ASSUME MethodsInv PROVE CallsRightMethod
  OBVIOUS
<1>1. ASSUME NEW k \in known, NEW static \in BOOLEAN, NEW type \in 1..10, NEW form \in 0..2,
             ~Methods!NotCalled(type, form)
      PROVE  LET f == Methods!Runs(Methods!JniSlot(static, type, form), k[2]) IN
             \/ f \in IF Methods!Types[type] = "Float" /\ Methods!InSpecial(k[1]) # {}
                      THEN {Methods!NULL} ELSE Methods!Meant(k[1])
             \/ f = Methods!Outside /\ unknown_count > MaxNames
  <2>1. k[2] \in Nat /\ IdFits(k[1], k[2]) /\ unknown_count \in Nat /\ MaxNames \in Nat
    BY MethodsBound DEF MethodsInv, Methods!TypeOK, Methods!MethodsAssumption
  <2>2. ~(type = 9 \/ (type = 8 /\ form = 2))
    BY <1>1, SlotsTaken
  <2>3. PICK n : n = Methods!JniSlot(static, type, form)
    OBVIOUS
  <2>4. Methods!CallSlots(n) # "zero" /\ (Methods!CallSlots(n) = "Float" <=> Methods!Types[type] = "Float")
    BY <2>2, <2>3, SlotOfType, TypesNamed
  <2>5. CASE Methods!Types[type] = "Float"
    BY <2>1, <2>3, <2>4, <2>5, RunsById DEF Methods!Runs
  <2>6. CASE Methods!Types[type] # "Float"
    BY <2>1, <2>3, <2>4, <2>6, RunsById DEF Methods!Runs
  <2>7. QED
    BY <2>5, <2>6
<1>2. QED
  BY <1>1, FieldsZero, TypesNamed, SlotsTaken
  DEF MethodsInv, CallsRightMethod, Methods!CallsRightMethod

LEMMA GetMethod ==
  ASSUME MethodsInv, NEW t \in Lookers, NEW n \in LookedUp, Methods!GetMethodID(t, n)
  PROVE  MethodsInv'
<1>1. CASE Methods!Unknown(n)
  <2>1. /\ mpc' = [mpc EXCEPT ![t] = "scan"] /\ arg' = [arg EXCEPT ![t] = n]
        /\ UNCHANGED <<known, unknown_names, unknown_count, slot>>
    BY <1>1 DEF Methods!GetMethodID
  <2>2. QED
    BY <1>1, <2>1 DEF MethodsInv, Methods!TypeOK
<1>2. CASE ~Methods!Unknown(n)
  <2>1. PICK id : /\ Methods!Returned(t, n, id) /\ UNCHANGED <<unknown_names, unknown_count, slot>>
                  /\ id = IF Methods!InSpecial(n) # {} THEN 900 + Methods!FirstOf(Methods!InSpecial(n)) - 1
                          ELSE Methods!FirstOf(Methods!InMethods(n))
    BY <1>2 DEF Methods!GetMethodID, Methods!M_OPEN
  <2>2. id \in Nat /\ IdFits(n, id)
    <3>1. CASE Methods!InSpecial(n) # {}
      <4>1. PICK i : i = Methods!FirstOf(Methods!InSpecial(n))
        OBVIOUS
      <4>2. i \in Methods!InSpecial(n) /\ i \in 1..11
        BY <3>1, <4>1, FirstMethod, TablesAreFinite
      <4>3. QED
        BY <2>1, <3>1, <4>1, <4>2 DEF IdFits, Methods!InSpecial, Methods!M_OPEN, Methods!Unknown
    <3>2. CASE Methods!InSpecial(n) = {}
      <4>1. id \in Methods!InMethods(n) /\ id \in 1..17
        BY <1>2, <2>1, <3>2, FirstMethod, TablesAreFinite DEF Methods!Unknown
      <4>2. QED
        BY <1>2, <2>1, <3>2, <4>1 DEF IdFits
    <3>3. QED
      BY <3>1, <3>2
  <2>3. known' = known \cup {<<n, id>>} /\ mpc' = [mpc EXCEPT ![t] = "idle"]
        /\ arg' = [arg EXCEPT ![t] = Methods!NULL]
    BY <2>1 DEF Methods!Returned
  <2>4. Methods!TypeOK'
    BY <2>1, <2>2, <2>3 DEF MethodsInv, Methods!TypeOK
  <2>5. \A k \in known' : k[2] \in Nat /\ IdFits(k[1], k[2])
    BY <2>2, <2>3 DEF MethodsInv
  <2>6. QED
    BY <2>3, <2>4, <2>5 DEF MethodsInv, Methods!TypeOK
<1>3. QED
  BY <1>1, <1>2

\* An id beyond the tables is given out for the name that was looked for.
LEMMA GivenBeyond ==
  ASSUME MethodsInv, NEW t \in Lookers, mpc[t] \in {"scan", "count"}, NEW i \in Nat,
         Methods!Returned(t, arg[t], Methods!UNKNOWN_BASE + i),
         unknown_names' = unknown_names, unknown_count' \in Nat, slot' = slot
  PROVE  MethodsInv'
<1>1. arg[t] \in LookedUp /\ Methods!Unknown(arg[t])
  BY DEF MethodsInv
<1>2. PICK id \in Nat : id = Methods!UNKNOWN_BASE + i /\ id >= Methods!UNKNOWN_BASE
  BY DEF Methods!UNKNOWN_BASE
<1>3. /\ known' = known \cup {<<arg[t], id>>} /\ mpc' = [mpc EXCEPT ![t] = "idle"]
      /\ arg' = [arg EXCEPT ![t] = Methods!NULL]
  BY <1>2 DEF Methods!Returned
<1>4. IdFits(arg[t], id)
  BY <1>1, <1>2 DEF IdFits, Methods!Unknown
<1>5. Methods!TypeOK'
  BY <1>1, <1>3 DEF MethodsInv, Methods!TypeOK
<1>6. \A k \in known' : k[2] \in Nat /\ IdFits(k[1], k[2])
  BY <1>3, <1>4 DEF MethodsInv
<1>7. QED
  BY <1>3, <1>5, <1>6 DEF MethodsInv, Methods!TypeOK

LEMMA Scanned ==
  ASSUME MethodsInv, NEW t \in Lookers, Methods!Scan(t)
  PROVE  MethodsInv'
<1> DEFINE stop == {i \in 0..(unknown_count - 1) :
                       i >= MaxNames \/ unknown_names[i] \in {Methods!NULL, arg[t]}}
<1>1. unknown_count \in Nat /\ stop \in SUBSET Nat
  BY DEF MethodsInv, Methods!TypeOK
<1>2. CASE Methods!Returned(t, arg[t], Methods!UNKNOWN_BASE + Methods!FirstOf(stop)) /\ stop # {}
  <2>1. PICK i \in Nat : i = Methods!FirstOf(stop)
    BY <1>1, <1>2, FirstMethod
  <2>2. mpc[t] = "scan" /\ UNCHANGED <<unknown_names, unknown_count, slot>>
    BY DEF Methods!Scan
  <2>3. QED
    BY <1>1, <1>2, <2>1, <2>2, GivenBeyond
<1>3. CASE \E p \in {"store", "crashed"} : mpc' = [mpc EXCEPT ![t] = p] /\ UNCHANGED <<arg, known>>
  <2>1. mpc[t] = "scan" /\ UNCHANGED <<unknown_names, unknown_count, slot>>
    BY DEF Methods!Scan
  <2>2. QED
    BY <1>3, <2>1 DEF MethodsInv, Methods!TypeOK
<1>4. QED
  BY <1>2, <1>3 DEF Methods!Scan

LEMMA MethodsStep == MethodsInv /\ [Methods!Next]_(Methods!vars) => MethodsInv'
<1> SUFFICES ASSUME MethodsInv, [Methods!Next]_(Methods!vars)
             PROVE  MethodsInv'
  OBVIOUS
<1> USE MethodsBound DEF Methods!MethodsAssumption
<1>1. ASSUME NEW t \in Lookers, Methods!Store(t) PROVE MethodsInv'
  <2>1. Methods!TypeOK'
    BY <1>1 DEF MethodsInv, Methods!TypeOK, Methods!Store
  <2>2. QED
    BY <1>1, <2>1 DEF MethodsInv, Methods!TypeOK, Methods!Store
<1>2. ASSUME NEW t \in Lookers, Methods!Load(t) PROVE MethodsInv'
  <2>1. Methods!TypeOK'
    BY <1>2 DEF MethodsInv, Methods!TypeOK, Methods!Load
  <2>2. QED
    BY <1>2, <2>1 DEF MethodsInv, Methods!TypeOK, Methods!Load
<1>3. ASSUME NEW t \in Lookers, Methods!Count(t) PROVE MethodsInv'
  <2>1. slot[t] \in Nat /\ unknown_count' \in Nat
    BY <1>3 DEF MethodsInv, Methods!TypeOK, Methods!Count
  <2>2. QED
    BY <1>3, <2>1, GivenBeyond DEF Methods!Count
<1>4. CASE UNCHANGED Methods!vars
  BY <1>4 DEF MethodsInv, Methods!TypeOK, Methods!vars
<1>5. QED
  BY <1>1, <1>2, <1>3, <1>4, GetMethod, Scanned DEF Methods!Next, Methods!Crashed

LEMMA MethodsInit == Methods!Init => MethodsInv
BY MethodsBound DEF Methods!Init, MethodsInv, Methods!TypeOK, Methods!MethodsAssumption

\* A step of the game is one of each part, or leaves it alone.
LEMMA PartsApart ==
  ASSUME [FilesNext]_all
  PROVE  /\ [Next]_vars /\ [Assets!Next]_(Assets!vars) /\ [Shims!Next]_(Shims!vars)
         /\ [Methods!Next]_(Methods!vars) /\ [Objects!Next]_(Objects!vars)
<1>1. /\ UNCHANGED assetVars => UNCHANGED Assets!vars
      /\ UNCHANGED shimVars => UNCHANGED Shims!vars
      /\ UNCHANGED methodVars => UNCHANGED Methods!vars
      /\ UNCHANGED objectVars => UNCHANGED Objects!vars
  BY DEF assetVars, shimVars, methodVars, objectVars, Assets!vars, Shims!vars, Methods!vars,
         Objects!vars, Objects!audio, Assets!game
<1>2. UNCHANGED javaVars => UNCHANGED methodVars /\ UNCHANGED objectVars
  BY DEF javaVars
<1>3. CASE UNCHANGED all
  BY <1>1, <1>2, <1>3 DEF all
<1>4. CASE FilesNext
  BY <1>1, <1>2, <1>4 DEF FilesNext
<1>5. QED
  BY <1>3, <1>4

(* Whatever any number of threads look up meanwhile, a method called by an id
   that GetMethodID gave for a name is, through every slot of every type, one of
   that name in the tables, and its result is taken in the width of the type.
   Nothing runs for a name that no table has, and while no more names are counted
   than the table holds nothing outside of it is read; a field is a zero of its
   type (jni_patch.c:326-352, 388-392, 513-642). *)
THEOREM MethodsSafe == FilesSpec => []CallsRightMethod
<1>1. FilesInit => MethodsInv
  BY MethodsInit DEF FilesInit
<1>2. MethodsInv /\ [FilesNext]_all => MethodsInv'
  BY PartsApart, MethodsStep
<1>3. QED
  BY <1>1, <1>2, RightMethod, PTL DEF FilesSpec

----------------------------------------------------------------------------
(* The calls with paths *)

ShimsInv == SamePlace

\* Every spelling reaches the file that is meant, but for freopen's.
LEMMA PathMeant ==
  ASSUME NEW p \in Shims!Paths, NEW c, c # "freopen"
  PROVE  /\ Shims!OnCard(Shims!Mapped(c, p)) = Shims!Meant(p)
         /\ Shims!Meant(p) \in Names \cup {"nowhere"}
<1>1. PICK s \in {"prefix", "relative", "dot", "device", "elsewhere"}, n \in Names : p = <<s, n>>
  BY DEF Shims!Paths
<1>2. p[1] = s /\ p[2] = n
  BY <1>1
<1>3. Shims!Mapped(c, p) = IF s \in {"prefix", "relative", "dot"} THEN <<"device", n>> ELSE p
  BY <1>2 DEF Shims!Mapped, Shims!fix_path
<1>4. QED
  BY <1>2, <1>3 DEF Shims!OnCard, Shims!Meant

\* The bits that the flags reach the card with say what the game's said.
LEMMA FlagsMeant ==
  ASSUME NEW f \in DOMAIN Shims!Meaning
  PROVE  {x[2] : x \in Shims!bionic_oflags(f)} = Shims!Meaning[f]
<1>1. {x[2] : x \in Shims!bionic_oflags(f)} =
          {b \in {"O_CREAT", "O_EXCL", "O_TRUNC", "O_APPEND"} :
              \/ b = "O_CREAT" /\ Shims!Bit(f, 64)
              \/ b = "O_EXCL" /\ Shims!Bit(f, 128)
              \/ b = "O_TRUNC" /\ Shims!Bit(f, 512)
              \/ b = "O_APPEND" /\ Shims!Bit(f, 1024)}
  <2> DEFINE bits == {<<64, "O_CREAT">>, <<128, "O_EXCL">>, <<512, "O_TRUNC">>, <<1024, "O_APPEND">>}
  <2>1. Shims!bionic_oflags(f) = {x \in bits : Shims!Bit(f, x[1])}
    BY DEF Shims!bionic_oflags
  <2>2. \A b : b \in {x[2] : x \in Shims!bionic_oflags(f)} <=> \E x \in bits : Shims!Bit(f, x[1]) /\ b = x[2]
    <3> HIDE DEF bits
    <3>1. PICK B : B = Shims!bionic_oflags(f) /\ B = {x \in bits : Shims!Bit(f, x[1])}
      BY <2>1
    <3>2. \A b : b \in {x[2] : x \in B} <=> \E x \in B : b = x[2]
      OBVIOUS
    <3>3. \A b : (\E x \in B : b = x[2]) <=> \E x \in bits : Shims!Bit(f, x[1]) /\ b = x[2]
      BY <3>1
    <3>4. QED
      BY <3>1, <3>2, <3>3
  <2>3. \A b : (\E x \in bits : Shims!Bit(f, x[1]) /\ b = x[2]) <=>
              \/ b = "O_CREAT" /\ Shims!Bit(f, 64)
              \/ b = "O_EXCL" /\ Shims!Bit(f, 128)
              \/ b = "O_TRUNC" /\ Shims!Bit(f, 512)
              \/ b = "O_APPEND" /\ Shims!Bit(f, 1024)
    OBVIOUS
  <2> HIDE DEF bits
  <2>4. QED
    BY <2>2, <2>3
<1>2. f \in {0, 64, 576, 512, 192, 1024, 1088}
  BY DEF Shims!Meaning
<1>3. /\ Shims!Meaning[0] = {} /\ Shims!Meaning[64] = {"O_CREAT"}
      /\ Shims!Meaning[576] = {"O_CREAT", "O_TRUNC"} /\ Shims!Meaning[512] = {"O_TRUNC"}
      /\ Shims!Meaning[192] = {"O_CREAT", "O_EXCL"} /\ Shims!Meaning[1024] = {"O_APPEND"}
      /\ Shims!Meaning[1088] = {"O_CREAT", "O_APPEND"}
  BY DEF Shims!Meaning
<1>4. /\ Shims!Bit(f, 64) <=> f \in {64, 576, 192, 1088}
      /\ Shims!Bit(f, 128) <=> f = 192
      /\ Shims!Bit(f, 512) <=> f \in {576, 512}
      /\ Shims!Bit(f, 1024) <=> f \in {1024, 1088}
  BY <1>2 DEF Shims!Bit
<1> HIDE DEF Shims!Meaning
<1>5. QED
  BY <1>1, <1>2, <1>3, <1>4

ShimCalls == {"open", "fopen", "stat", "fstat", "opendir", "mkdir", "rmdir", "unlink", "remove", "rename"}
FileSystem(fs) == DOMAIN fs = Names /\ \A n \in Names : fs[n].kind \in {"none", "dir", "file"}

\* A call leaves a file system, and stat returns a pair.
LEMMA CallTypes ==
  ASSUME NEW fs, FileSystem(fs), NEW c, c.call \in ShimCalls,
         NEW n \in Names \cup {"nowhere"}, NEW m \in Names \cup {"nowhere"}
  PROVE  /\ FileSystem(Shims!Call(fs, c, n, m).fs)
         /\ c.call \in {"stat", "fstat"} =>
               \/ Shims!Call(fs, c, n, m).ret = Shims!Fail
               \/ \E a, b : Shims!Call(fs, c, n, m).ret = <<a, b>>
<1> USE ShimsBound DEF Shims!ShimsAssumption, Shims!Result
<1> DEFINE did == Shims!Call(fs, c, n, m)
<1>1. CASE n = "nowhere" \/ m = "nowhere"
  <2>1. did = [fs |-> fs, ret |-> Shims!Fail]
    BY <1>1 DEF Shims!Call
  <2>2. QED
    BY <2>1
<1>2. CASE n \in Names /\ m \in Names
  <2>1. n # "nowhere" /\ m # "nowhere"
    BY <1>2
  <2>2. /\ Shims!None.kind = "none" /\ Shims!Dir.kind = "dir" /\ \A d : Shims!File(d).kind = "file"
    BY DEF Shims!None, Shims!Dir, Shims!File
  <2>3. \A e \in {Shims!None, Shims!Dir} \cup {Shims!File(d) : d \in {n}} :
           e.kind \in {"none", "dir", "file"}
    BY <2>2
  <2>4. CASE c.call \in {"open", "fopen"}
    <3>1. did = Shims!Open(fs, n, c.flags, c.writes, c.value)
      BY <2>1, <2>4 DEF Shims!Call
    <3>2. did.fs = fs \/ \E d : did.fs = [fs EXCEPT ![n] = Shims!File(d)]
      BY <3>1 DEF Shims!Open
    <3> HIDE DEF did
    <3>3. ASSUME NEW d, did.fs = [fs EXCEPT ![n] = Shims!File(d)] PROVE FileSystem(did.fs)
      <4>1. Shims!File(d).kind = "file"
        BY <2>2
      <4>2. QED
        BY <1>2, <3>3, <4>1 DEF FileSystem
    <3>4. FileSystem(did.fs)
      BY <3>2, <3>3
    <3>5. QED
      BY <2>4, <3>4 DEF did
  <2>5. CASE c.call \in {"stat", "fstat"}
    <3>1. /\ did.fs = fs
          /\ \/ did.ret = Shims!Fail
             \/ did.ret = <<fs[n].kind, IF fs[n] = Shims!Dir THEN 0 ELSE Len(fs[n].data)>>
      BY <2>1, <2>5 DEF Shims!Call
    <3>2. PICK len : len = IF fs[n] = Shims!Dir THEN 0 ELSE Len(fs[n].data)
      OBVIOUS
    <3>3. did.ret = Shims!Fail \/ did.ret = <<fs[n].kind, len>>
      BY <3>1, <3>2
    <3> HIDE DEF did
    <3>4. did.ret = Shims!Fail \/ \E a, b : did.ret = <<a, b>>
      BY <3>3
    <3>5. FileSystem(did.fs)
      BY <3>1
    <3>6. QED
      BY <3>4, <3>5 DEF did
  <2>6. CASE c.call \in {"opendir", "mkdir", "rmdir", "unlink", "remove", "rename"}
    <3>1. \/ did.fs = fs
          \/ did.fs = [fs EXCEPT ![n] = Shims!Dir]
          \/ did.fs = [fs EXCEPT ![n] = Shims!None]
          \/ did.fs = [fs EXCEPT ![m] = fs[n], ![n] = Shims!None]
      BY <2>1, <2>6 DEF Shims!Call
    <3>2. QED
      BY <1>2, <2>2, <2>6, <3>1 DEF FileSystem
  <2>7. QED
    BY <2>4, <2>5, <2>6 DEF ShimCalls
<1>3. QED
  BY <1>1, <1>2

\* A call with flags that reach the card as they are meant.
LEMMA ShimKeeps ==
  ASSUME ShimsInv, NEW asked \in ShimCalls, NEW flags, NEW writes, NEW v,
         NEW p \in Shims!Paths, NEW q \in Shims!Paths,
         Shims!Shim(Shims!Asked(asked, flags, writes, v), flags, p, q)
  PROVE  ShimsInv'
<1> DEFINE c == Shims!Asked(asked, flags, writes, v)
           did == Shims!Call(disk, c, Shims!Meant(p), Shims!Meant(q))
<1>1. c.call = asked /\ [c EXCEPT !.flags = flags] = c
  BY DEF Shims!Asked
<1>2. /\ Shims!OnCard(Shims!Mapped(asked, p)) = Shims!Meant(p) /\ Shims!Meant(p) \in Names \cup {"nowhere"}
      /\ Shims!OnCard(Shims!Mapped(asked, q)) = Shims!Meant(q) /\ Shims!Meant(q) \in Names \cup {"nowhere"}
  BY PathMeant DEF ShimCalls
<1>3. disk = game /\ FileSystem(disk)
  BY DEF ShimsInv, SamePlace, Shims!SamePlace, Shims!TypeOK, FileSystem
<1>4. /\ FileSystem(did.fs)
      /\ asked \in {"stat", "fstat"} => did.ret = Shims!Fail \/ \E a, b : did.ret = <<a, b>>
  BY <1>1, <1>2, <1>3, CallTypes
<1>5. /\ disk' = did.fs /\ game' = did.fs /\ wanted' = did.ret
      /\ LET bs == Shims!to_bionic_stat(did.ret) IN
         result' = IF asked \in {"stat", "fstat"} /\ did.ret # Shims!Fail THEN <<bs[16], bs[48]>> ELSE did.ret
  BY <1>1, <1>2, <1>3 DEF Shims!Shim
<1> HIDE DEF did
<1>6. \A a, b : LET bs == Shims!to_bionic_stat(<<a, b>>) IN <<bs[16], bs[48]>> = <<a, b>>
  BY DEF Shims!to_bionic_stat
<1>7. result' = did.ret
  BY <1>4, <1>5, <1>6
<1>8. QED
  BY <1>4, <1>5, <1>7 DEF ShimsInv, SamePlace, Shims!SamePlace, Shims!TypeOK, FileSystem

LEMMA ShimsStep ==
  ASSUME "freopen" \notin Imports, ShimsInv, [Shims!Next]_(Shims!vars)
  PROVE  ShimsInv'
<1>1. CASE Shims!open_log
  <2>1. PICK p \in Shims!Paths, f \in DOMAIN Shims!Meaning, writes \in BOOLEAN, v \in Values :
            Shims!Shim(Shims!Asked("open", Shims!Meaning[f], writes, v),
                       {x[2] : x \in Shims!bionic_oflags(f)}, p, p)
    BY <1>1 DEF Shims!open_log
  <2>2. {x[2] : x \in Shims!bionic_oflags(f)} = Shims!Meaning[f] /\ "open" \in ShimCalls
    BY FlagsMeant DEF ShimCalls
  <2>3. QED
    BY <2>1, <2>2, ShimKeeps
<1>2. CASE Shims!fopen_log
  <2>1. PICK asked \in Imports \cap {"fopen", "freopen"}, p \in Shims!Paths, mode \in DOMAIN Shims!Modes,
             v \in Values :
            Shims!Shim(Shims!Asked(asked, Shims!Modes[mode], mode # "r", v), Shims!Modes[mode], p, p)
    BY <1>2 DEF Shims!fopen_log
  <2>2. asked \in ShimCalls
    BY DEF ShimCalls
  <2>3. QED
    BY <2>1, <2>2, ShimKeeps
<1>3. CASE Shims!PathCall
  <2>1. PICK asked \in Shims!Others, p \in Shims!Paths, q \in Shims!Paths :
            Shims!Shim(Shims!Asked(asked, {}, FALSE, 0), {}, p, q)
    BY <1>3 DEF Shims!PathCall
  <2>2. asked \in ShimCalls
    BY ShimsBound DEF ShimCalls, Shims!Others, Shims!ShimsAssumption
  <2>3. QED
    BY <2>1, <2>2, ShimKeeps
<1>4. CASE UNCHANGED Shims!vars
  BY <1>4 DEF Shims!vars, ShimsInv, SamePlace, Shims!SamePlace, Shims!TypeOK
<1>5. QED
  BY <1>1, <1>2, <1>3, <1>4 DEF Shims!Next

(* For any names, values and any calls but freopen, which goes to newlib as it
   is: however the game spells a path, the call finds the file of that name,
   does to it what Android's would with the flags the game gave, and returns
   what that would, a struct stat in Android's layout
   (default_dynlib.c:225-252, 282-319). *)
THEOREM PathsSafe ==
  ASSUME "freopen" \notin Imports
  PROVE  FilesSpec => []SamePlace
<1>1. FilesInit => ShimsInv
  BY DEF FilesInit, Shims!Init, ShimsInv, SamePlace, Shims!SamePlace, Shims!TypeOK, Shims!None
<1>2. ShimsInv /\ [FilesNext]_all => ShimsInv'
  BY PartsApart, ShimsStep
<1>3. ShimsInv => SamePlace
  BY DEF ShimsInv
<1>4. QED
  BY <1>1, <1>2, <1>3, PTL DEF FilesSpec

----------------------------------------------------------------------------
(* The assets *)

\* What an open stream is: it has the game's place, and a file of its own on the
\* card, open at that place, or a text in memory.
StreamTypes ==
    /\ DOMAIN want = DOMAIN streams /\ DOMAIN at = DOMAIN streams
    /\ DOMAIN streams \subseteq Handles /\ DOMAIN kernelFds \subseteq AssetFds
    /\ \A fd \in DOMAIN kernelFds : DOMAIN kernelFds[fd] = {"name", "off"}
    /\ \A h \in DOMAIN streams :
          /\ DOMAIN streams[h] = {"fd", "size", "pos", "mem"}
          /\ streams[h].fd \in AssetFds \cup {-1}

FdsOwn ==
    /\ \A h \in DOMAIN streams : streams[h].fd # -1 => streams[h].fd \in DOMAIN kernelFds
    /\ \A fd \in DOMAIN kernelFds : \E h \in DOMAIN streams : streams[h].fd = fd
    /\ \A g, h \in DOMAIN streams : streams[g].fd = streams[h].fd /\ streams[g].fd # -1 => g = h

AssetsInv == StreamTypes /\ FdsOwn

LEMMA FirstAsset ==
  ASSUME NEW S \in SUBSET Nat, S # {}
  PROVE  Assets!FirstOf(S) \in S
BY LeastOne DEF Assets!FirstOf

\* A new handle and a new descriptor are in nobody's use.
LEMMA FreshOnes ==
  ASSUME StreamTypes
  PROVE  /\ Handles \ DOMAIN streams # {} =>
               /\ Assets!FirstOf(Handles \ DOMAIN streams) \in Handles \ {0}
               /\ Assets!FirstOf(Handles \ DOMAIN streams) \notin DOMAIN streams
         /\ Assets!FreeFds # {} =>
               /\ Assets!FirstOf(Assets!FreeFds) \in AssetFds \ {-1}
               /\ Assets!FirstOf(Assets!FreeFds) \notin DOMAIN kernelFds
<1>1. /\ Handles \ DOMAIN streams \in SUBSET Nat /\ 0 \notin Handles
      /\ Assets!FreeFds \in SUBSET Nat /\ -1 \notin AssetFds
  <2>1. Handles \subseteq Nat \ {0} /\ AssetFds \subseteq Nat
    BY AssetsBound DEF Assets!AssetsAssumption, Assets!NULL
  <2>2. -1 \notin Nat
    OBVIOUS
  <2>3. Assets!FreeFds \in SUBSET Nat /\ Handles \ DOMAIN streams \in SUBSET Nat
    BY <2>1 DEF Assets!FreeFds
  <2>4. QED
    BY <2>1, <2>2, <2>3
<1>2. QED
  BY <1>1, FirstAsset DEF Assets!FreeFds

\* memory.cfg, as far as the card delivers it.
Raw(c, short) == SubSeq(c["memory"], 1, Len(c["memory"]) - short)

\* The ways a step changes the streams and the descriptors.
Opens(h, s, text) ==
    /\ h \in Handles /\ h \notin DOMAIN streams
    /\ DOMAIN s = {"fd", "size", "pos", "mem"} /\ s.pos = 0
    /\ streams' = Assets!With(streams, h, s)
    /\ want' = Assets!With(want, h, text) /\ at' = Assets!With(at, h, 0)
    /\ \/ /\ s.fd = -1 /\ kernelFds' = kernelFds /\ s.size = Len(s.mem)
          /\ "memory" \in DOMAIN card
          /\ \E short \in Shorts :
                s.mem = Assets!rewrite_memcfg(Raw(card, short)) /\ text = Assets!Ruled(Raw(card, short))
       \/ /\ s.fd \in AssetFds /\ s.fd # -1 /\ s.fd \notin DOMAIN kernelFds
          /\ s.size = Len(text)
          /\ \E n \in DOMAIN card :
                text = card[n] /\ kernelFds' = Assets!With(kernelFds, s.fd, [name |-> n, off |-> 0])
Moves(h, p) ==
    /\ h \in DOMAIN streams
    /\ streams' = [streams EXCEPT ![h].pos = p]
    /\ DOMAIN want' = DOMAIN want /\ DOMAIN at' = DOMAIN at
    /\ kernelFds' = kernelFds \/ \E o : kernelFds' = [kernelFds EXCEPT ![streams[h].fd].off = o]
Closes(h) ==
    /\ h \in DOMAIN streams
    /\ kernelFds' = Assets!Without(kernelFds, streams[h].fd)
    /\ streams' = Assets!Without(streams, h)
    /\ DOMAIN want' = DOMAIN want \ {h} /\ DOMAIN at' = DOMAIN at \ {h}

LEMMA OpensKeeps == ASSUME AssetsInv, NEW h, NEW s, NEW text, Opens(h, s, text) PROVE AssetsInv'
<1>1. /\ DOMAIN streams' = DOMAIN streams \cup {h} /\ streams'[h] = s
      /\ \A g \in DOMAIN streams : streams'[g] = streams[g]
      /\ DOMAIN want' = DOMAIN want \cup {h} /\ DOMAIN at' = DOMAIN at \cup {h}
  BY DEF Opens, Assets!With
<1>2. CASE s.fd = -1 /\ kernelFds' = kernelFds
  <2>1. StreamTypes'
    BY <1>1, <1>2 DEF AssetsInv, StreamTypes, Opens
  <2>2. FdsOwn'
    BY <1>1, <1>2 DEF AssetsInv, FdsOwn, Opens
  <2>3. QED
    BY <2>1, <2>2 DEF AssetsInv
<1>3. ASSUME s.fd \in AssetFds, s.fd # -1, s.fd \notin DOMAIN kernelFds, NEW n,
             kernelFds' = Assets!With(kernelFds, s.fd, [name |-> n, off |-> 0])
      PROVE  AssetsInv'
  <2>1. /\ DOMAIN kernelFds' = DOMAIN kernelFds \cup {s.fd}
        /\ DOMAIN kernelFds'[s.fd] = {"name", "off"}
        /\ \A fd \in DOMAIN kernelFds : kernelFds'[fd] = kernelFds[fd]
    BY <1>3 DEF Assets!With
  <2>2. StreamTypes'
    <3>1. \A fd \in DOMAIN kernelFds' : DOMAIN kernelFds'[fd] = {"name", "off"}
      BY <2>1 DEF AssetsInv, StreamTypes
    <3>2. DOMAIN streams' \subseteq Handles /\ DOMAIN kernelFds' \subseteq AssetFds
      BY <1>1, <1>3, <2>1 DEF AssetsInv, StreamTypes, Opens
    <3>3. ASSUME NEW g \in DOMAIN streams'
          PROVE  DOMAIN streams'[g] = {"fd", "size", "pos", "mem"} /\ streams'[g].fd \in AssetFds \cup {-1}
      BY <1>1, <1>3 DEF AssetsInv, StreamTypes, Opens
    <3>4. DOMAIN want' = DOMAIN streams' /\ DOMAIN at' = DOMAIN streams'
      BY <1>1 DEF AssetsInv, StreamTypes
    <3>5. QED
      BY <3>1, <3>2, <3>3, <3>4 DEF StreamTypes
  <2>3. FdsOwn'
    BY <1>1, <1>3, <2>1 DEF AssetsInv, FdsOwn, Opens
  <2>4. QED
    BY <2>2, <2>3 DEF AssetsInv
<1>4. QED
  BY <1>2, <1>3 DEF Opens

LEMMA MovesKeeps == ASSUME AssetsInv, NEW h, NEW p, Moves(h, p) PROVE AssetsInv'
<1>1. /\ DOMAIN streams' = DOMAIN streams /\ DOMAIN kernelFds' = DOMAIN kernelFds
      /\ \A fd \in DOMAIN kernelFds : DOMAIN kernelFds'[fd] = DOMAIN kernelFds[fd]
  BY DEF Moves
<1>2. /\ DOMAIN streams'[h] = DOMAIN streams[h] /\ streams'[h].pos = p
      /\ streams'[h].fd = streams[h].fd /\ streams'[h].size = streams[h].size
      /\ \A g \in DOMAIN streams : g # h => streams'[g] = streams[g]
  BY DEF Moves, AssetsInv, StreamTypes
<1>3. StreamTypes'
  BY <1>1, <1>2 DEF AssetsInv, StreamTypes, Moves
<1>4. FdsOwn'
  BY <1>1, <1>2 DEF AssetsInv, FdsOwn, Moves
<1>5. QED
  BY <1>3, <1>4 DEF AssetsInv

LEMMA ClosesKeeps == ASSUME AssetsInv, NEW h, Closes(h) PROVE AssetsInv'
<1>1. /\ DOMAIN streams' = DOMAIN streams \ {h}
      /\ \A g \in DOMAIN streams' : streams'[g] = streams[g]
      /\ DOMAIN kernelFds' = DOMAIN kernelFds \ {streams[h].fd}
      /\ \A fd \in DOMAIN kernelFds' : kernelFds'[fd] = kernelFds[fd]
  BY DEF Closes, Assets!Without
<1>2. StreamTypes'
  BY <1>1 DEF AssetsInv, StreamTypes, Closes
<1>3. -1 \notin DOMAIN kernelFds
  BY AssetsBound DEF AssetsInv, StreamTypes, Assets!AssetsAssumption
<1>4. FdsOwn'
  BY <1>1, <1>3 DEF AssetsInv, FdsOwn, Closes
<1>5. QED
  BY <1>2, <1>4 DEF AssetsInv

\* What an open leaves behind: a new stream and its handle, or an exception.
LEMMA OpenDoes ==
  ASSUME AssetsInv, NEW t \in Askers, Assets!asset_open(t)
  PROVE  /\ pc[t] = "idle" /\ seen' = seen /\ pc' = [pc EXCEPT ![t] = "called"]
         /\ taken' = [taken EXCEPT ![t] = FALSE]
         /\ \/ /\ pending_exception' = TRUE /\ ret' = [ret EXCEPT ![t] = 0]
               /\ UNCHANGED <<streams, want, at, kernelFds>>
            \/ \E h \in Handles \ {0} :
                  /\ pending_exception' = pending_exception /\ ret' = [ret EXCEPT ![t] = h]
                  /\ \E s, text : Opens(h, s, text)
<1> DEFINE h == Assets!FirstOf(Handles \ DOMAIN streams)
<1>1. StreamTypes
  BY DEF AssetsInv
<1>2. PICK name \in DOMAIN AssetKind :
         \/ Assets!OpenMovie(t, name) \/ Assets!OpenMissing(t, name) \/ Assets!OpenTooLarge(t, name, TRUE)
         \/ /\ Handles \ DOMAIN streams # {}
            /\ Assets!OpenConfig(t, name, h) \/ Assets!OpenFile(t, name, h)
  BY DEF Assets!asset_open, Assets!Open
<1>3. pc[t] = "idle" /\ seen' = seen
  BY DEF Assets!asset_open, Assets!Open
<1>4. ASSUME Assets!Throw(t), kernelFds' = kernelFds
      PROVE  /\ pc' = [pc EXCEPT ![t] = "called"] /\ taken' = [taken EXCEPT ![t] = FALSE]
             /\ pending_exception' = TRUE /\ ret' = [ret EXCEPT ![t] = 0]
             /\ UNCHANGED <<streams, want, at, kernelFds>>
  BY <1>4 DEF Assets!Throw, Assets!Returned, Assets!NULL
<1>5. CASE Assets!OpenMovie(t, name) \/ Assets!OpenMissing(t, name) \/ Assets!OpenTooLarge(t, name, TRUE)
  <2>1. Assets!Throw(t) /\ kernelFds' = kernelFds
    BY <1>5 DEF Assets!OpenMovie, Assets!OpenMovieOr, Assets!OpenMissing, Assets!OpenTooLarge
  <2>2. QED
    BY <1>3, <1>4, <2>1
<1>6. ASSUME Handles \ DOMAIN streams # {}, Assets!Returned(t, h), pending_exception' = pending_exception,
             NEW s, NEW text, Opens(h, s, text)
      PROVE  /\ pc' = [pc EXCEPT ![t] = "called"] /\ taken' = [taken EXCEPT ![t] = FALSE]
             /\ \E g \in Handles \ {0} :
                  /\ pending_exception' = pending_exception /\ ret' = [ret EXCEPT ![t] = g]
                  /\ \E r, x : Opens(g, r, x)
  <2>1. h \in Handles \ {0}
    BY <1>1, <1>6, FreshOnes
  <2>2. QED
    BY <1>6, <2>1 DEF Assets!Returned
<1>7. CASE Handles \ DOMAIN streams # {} /\ Assets!OpenConfig(t, name, h)
  <2>1. name = "memory" /\ Assets!Opened(name) # {}
    BY <1>7 DEF Assets!OpenConfig, AssetKind
  <2>2. "memory" \in DOMAIN card
    BY <2>1 DEF Assets!Opened, AssetKind
  <2>3. PICK short \in Shorts :
           LET raw == Raw(card, short)
               text == Assets!rewrite_memcfg(raw)
           IN  Assets!Stream(h, [fd |-> -1, size |-> Len(text), pos |-> 0, mem |-> text], Assets!Ruled(raw))
    BY <1>7, <2>1 DEF Assets!OpenConfig, Assets!NoFd, Raw
  <2>4. PICK mem, text : mem = Assets!rewrite_memcfg(Raw(card, short)) /\ text = Assets!Ruled(Raw(card, short))
    OBVIOUS
  <2>5. PICK s : s = [fd |-> -1, size |-> Len(mem), pos |-> 0, mem |-> mem]
    OBVIOUS
  <2>6. /\ s.fd = -1 /\ s.pos = 0 /\ s.mem = mem /\ s.size = Len(mem)
        /\ DOMAIN s = {"fd", "size", "pos", "mem"}
    BY <2>5
  <2>7. Assets!Stream(h, s, text)
    BY <2>3, <2>4, <2>5
  <2>8. kernelFds' = kernelFds /\ pending_exception' = pending_exception /\ Assets!Returned(t, h)
    BY <1>7 DEF Assets!OpenConfig
  <2>9. h \in Handles /\ h \notin DOMAIN streams
    BY <1>1, <1>7, FreshOnes
  <2>10. Opens(h, s, text)
    BY <2>2, <2>4, <2>6, <2>7, <2>8, <2>9 DEF Opens, Assets!Stream
  <2>11. QED
    BY <1>3, <1>6, <1>7, <2>8, <2>10
<1>8. CASE Handles \ DOMAIN streams # {} /\ Assets!OpenFile(t, name, h)
  <2>1. PICK n \in Assets!Opened(name) :
           LET fd == Assets!FirstOf(Assets!FreeFds) IN
           /\ kernelFds' = Assets!With(kernelFds, fd, [name |-> n, off |-> 0])
           /\ Assets!Stream(h, [fd |-> fd, size |-> Len(card[n]), pos |-> 0, mem |-> <<>>], card[n])
    BY <1>8 DEF Assets!OpenFile
  <2>2. PICK fd : fd = Assets!FirstOf(Assets!FreeFds)
    OBVIOUS
  <2>3. fd \in AssetFds \ {-1} /\ fd \notin DOMAIN kernelFds /\ n \in DOMAIN card
    BY <1>1, <2>1, <2>2, FreshOnes DEF Assets!Opened
  <2>4. h \in Handles /\ h \notin DOMAIN streams
    BY <1>1, <1>8, FreshOnes
  <2>5. PICK s : s = [fd |-> fd, size |-> Len(card[n]), pos |-> 0, mem |-> <<>>]
    OBVIOUS
  <2>6. s.fd = fd /\ s.pos = 0 /\ s.size = Len(card[n]) /\ DOMAIN s = {"fd", "size", "pos", "mem"}
    BY <2>5
  <2>7. /\ streams' = Assets!With(streams, h, s)
        /\ want' = Assets!With(want, h, card[n]) /\ at' = Assets!With(at, h, 0)
        /\ kernelFds' = Assets!With(kernelFds, s.fd, [name |-> n, off |-> 0])
    BY <2>1, <2>2, <2>5, <2>6 DEF Assets!Stream
  <2>8. Opens(h, s, card[n])
    BY <2>3, <2>4, <2>6, <2>7 DEF Opens
  <2>9. pending_exception' = pending_exception /\ Assets!Returned(t, h)
    BY <1>8 DEF Assets!OpenFile
  <2>10. QED
    BY <1>3, <1>6, <1>8, <2>8, <2>9
<1>9. QED
  BY <1>2, <1>5, <1>7, <1>8

LEMMA StreamMoves ==
  ASSUME AssetsInv, NEW h \in DOMAIN streams,
         Assets!asset_read(h) \/ Assets!asset_skip(h) \/ Assets!asset_reset(h)
  PROVE  AssetsInv' /\ UNCHANGED <<pending_exception, pc, ret, seen, taken>>
<1>1. UNCHANGED <<pending_exception, pc, ret, seen, taken>>
  BY DEF Assets!asset_read, Assets!asset_skip, Assets!SkipWithin, Assets!asset_reset, Assets!ResetIn, Assets!game
<1>2. ASSUME UNCHANGED <<kernelFds, streams, want, at>> PROVE AssetsInv'
  BY <1>2 DEF AssetsInv, StreamTypes, FdsOwn
<1>3. ASSUME NEW p, NEW q, NEW o,
             streams' = [streams EXCEPT ![h].pos = p], at' = [at EXCEPT ![h] = q], want' = want,
             kernelFds' = kernelFds \/ kernelFds' = Assets!Seek(streams[h], o)
      PROVE  AssetsInv'
  <2>1. Moves(h, p)
    BY <1>3 DEF Moves, Assets!Seek
  <2>2. QED
    BY <2>1, MovesKeeps
<1>4. CASE Assets!asset_read(h)
  <2>1. \/ UNCHANGED <<kernelFds, streams, want, at>>
        \/ \E n, o :
              /\ streams' = [streams EXCEPT ![h].pos = @ + n] /\ at' = [at EXCEPT ![h] = @ + n]
              /\ want' = want
              /\ kernelFds' = kernelFds \/ kernelFds' = Assets!Seek(streams[h], o)
    BY <1>4 DEF Assets!asset_read
  <2>2. ASSUME NEW n, NEW o,
               streams' = [streams EXCEPT ![h].pos = @ + n], at' = [at EXCEPT ![h] = @ + n], want' = want,
               kernelFds' = kernelFds \/ kernelFds' = Assets!Seek(streams[h], o)
        PROVE  AssetsInv'
    <3>1. PICK p, q : /\ streams' = [streams EXCEPT ![h].pos = p]
                      /\ at' = [at EXCEPT ![h] = q]
      BY <2>2
    <3>2. QED
      BY <1>3, <2>2, <3>1
  <2>3. AssetsInv'
    BY <1>2, <2>1, <2>2
  <2>4. QED
    BY <1>1, <2>3
<1>5. CASE Assets!asset_skip(h)
  <2>1. PICK np : /\ kernelFds' = Assets!Seek(streams[h], np) /\ want' = want
                  /\ streams' = [streams EXCEPT ![h].pos = np]
                  /\ at' = [at EXCEPT ![h] = at[h] + (np - streams[h].pos)]
    BY <1>5 DEF Assets!asset_skip, Assets!SkipWithin
  <2>2. PICK q : at' = [at EXCEPT ![h] = q]
    BY <2>1
  <2>3. AssetsInv'
    BY <1>3, <2>1, <2>2
  <2>4. QED
    BY <1>1, <2>3
<1>6. CASE Assets!asset_reset(h)
  <2>1. /\ kernelFds' = Assets!Seek(streams[h], 0) /\ want' = want
        /\ streams' = [streams EXCEPT ![h].pos = 0] /\ at' = [at EXCEPT ![h] = 0]
    BY <1>6 DEF Assets!asset_reset, Assets!ResetIn
  <2>2. AssetsInv'
    BY <1>3, <2>1
  <2>3. QED
    BY <1>1, <2>2
<1>7. QED
  BY <1>1, <1>4, <1>5, <1>6

LEMMA StreamCloses ==
  ASSUME AssetsInv, NEW h \in DOMAIN streams, Assets!asset_close(h)
  PROVE  AssetsInv' /\ UNCHANGED <<pending_exception, pc, ret, seen, taken>>
<1>1. Closes(h)
  BY DEF Assets!asset_close, Closes, Assets!Without, AssetsInv, StreamTypes
<1>2. QED
  BY <1>1, ClosesKeeps DEF Assets!asset_close, Assets!game

LEMMA AssetsInit == Assets!Init => AssetsInv
BY DEF Assets!Init, Assets!Nothing, AssetsInv, StreamTypes, FdsOwn

\* The exception is there for a thread that has not asked yet, unless another
\* cleared it, and while it is there one whose open failed is on its way to clear it.
Untold(t) == pc[t] = "called" \/ (pc[t] = "checked" /\ seen[t] = TRUE)
Noticed ==
    /\ pc \in [Askers -> {"idle", "called", "checked"}]
    /\ DOMAIN ret = Askers /\ DOMAIN seen = Askers /\ DOMAIN taken = Askers
    /\ \A t \in Askers : pc[t] = "called" /\ ret[t] = 0 => taken[t] \/ pending_exception = TRUE
    /\ \A t \in Askers : pc[t] = "checked" /\ ret[t] = 0 => taken[t] \/ seen[t] = TRUE
    /\ pending_exception = TRUE => \E t \in Askers : ret[t] = 0 /\ Untold(t)
    /\ pending_exception \in BOOLEAN

LEMMA OpenNoticed ==
  ASSUME AssetsInv, Noticed, NEW t \in Askers, Assets!asset_open(t)
  PROVE  Noticed'
<1>1. /\ pc[t] = "idle" /\ seen' = seen /\ pc' = [pc EXCEPT ![t] = "called"]
      /\ taken' = [taken EXCEPT ![t] = FALSE]
      /\ \/ pending_exception' = TRUE /\ ret' = [ret EXCEPT ![t] = 0]
         \/ \E h \in Handles \ {0} :
               pending_exception' = pending_exception /\ ret' = [ret EXCEPT ![t] = h]
  BY OpenDoes
<1>2. /\ pc' \in [Askers -> {"idle", "called", "checked"}]
      /\ DOMAIN ret' = Askers /\ DOMAIN seen' = Askers /\ DOMAIN taken' = Askers
  BY <1>1 DEF Noticed
<1>3. \A u \in Askers : u # t => pc'[u] = pc[u] /\ ret'[u] = ret[u] /\ taken'[u] = taken[u]
  BY <1>1 DEF Noticed
<1>4. pc'[t] = "called"
  BY <1>1 DEF Noticed
<1>5. CASE pending_exception' = TRUE /\ ret' = [ret EXCEPT ![t] = 0]
  <2>1. ret'[t] = 0
    BY <1>5 DEF Noticed
  <2>2. QED
    BY <1>1, <1>2, <1>3, <1>4, <1>5, <2>1 DEF Noticed, Untold
<1>6. ASSUME NEW h \in Handles \ {0}, pending_exception' = pending_exception, ret' = [ret EXCEPT ![t] = h]
      PROVE  Noticed'
  <2>1. ret'[t] # 0
    BY <1>6 DEF Noticed
  <2>2. \A u \in Askers : Untold(u) => u # t
    BY <1>1 DEF Untold
  <2>3. QED
    BY <1>1, <1>2, <1>3, <1>4, <1>6, <2>1, <2>2 DEF Noticed, Untold
<1>7. QED
  BY <1>1, <1>5, <1>6

LEMMA CheckNoticed ==
  ASSUME Noticed, NEW t \in Askers, Assets!ExceptionCheck(t)
  PROVE  Noticed'
<1>1. /\ pc[t] = "called" /\ UNCHANGED <<pending_exception, ret, taken>>
      /\ seen' = [seen EXCEPT ![t] = pending_exception] /\ pc' = [pc EXCEPT ![t] = "checked"]
  BY DEF Assets!ExceptionCheck
<1>2. /\ pc' \in [Askers -> {"idle", "called", "checked"}] /\ DOMAIN seen' = Askers
      /\ pc'[t] = "checked" /\ seen'[t] = pending_exception
      /\ \A u \in Askers : u # t => pc'[u] = pc[u] /\ seen'[u] = seen[u]
  BY <1>1 DEF Noticed
<1>3. QED
  BY <1>1, <1>2 DEF Noticed, Untold

LEMMA ClearNoticed ==
  ASSUME Noticed, NEW t \in Askers, Assets!ExceptionClear(t)
  PROVE  Noticed'
<1>1. /\ pc[t] = "checked"
      /\ pc' = [pc EXCEPT ![t] = "idle"]
      /\ ret' = [ret EXCEPT ![t] = Assets!NULL] /\ seen' = [seen EXCEPT ![t] = FALSE]
  BY Zenon DEF Assets!ExceptionClear
<1>2. /\ pending_exception' \in BOOLEAN
      /\ pending_exception' = TRUE => pending_exception = TRUE /\ ~seen[t]
      /\ pending_exception = TRUE /\ ~seen[t] => pending_exception' = TRUE
  BY Zenon DEF Assets!ExceptionClear, Noticed
<1>3. /\ DOMAIN taken' = Askers
      /\ \A u \in Askers : taken[u] => taken'[u]
      /\ \A u \in Askers : pc[u] = "called" /\ seen[t] => taken'[u]
  BY Zenon DEF Assets!ExceptionClear
<1>4. /\ pc' \in [Askers -> {"idle", "called", "checked"}]
      /\ DOMAIN ret' = Askers /\ DOMAIN seen' = Askers /\ pc'[t] = "idle"
      /\ \A u \in Askers : u # t => pc'[u] = pc[u] /\ ret'[u] = ret[u] /\ seen'[u] = seen[u]
  BY <1>1 DEF Noticed
<1>5. ASSUME NEW u \in Askers, pc'[u] = "called", ret'[u] = 0
      PROVE  taken'[u] \/ pending_exception' = TRUE
  BY <1>2, <1>3, <1>4, <1>5 DEF Noticed
<1>6. ASSUME NEW u \in Askers, pc'[u] = "checked", ret'[u] = 0
      PROVE  taken'[u] \/ seen'[u] = TRUE
  BY <1>3, <1>4, <1>6 DEF Noticed
<1>7. ASSUME pending_exception' = TRUE
      PROVE  \E u \in Askers : ret'[u] = 0 /\ Untold(u)'
  <2>1. PICK u \in Askers : ret[u] = 0 /\ Untold(u)
    BY <1>2, <1>7 DEF Noticed
  <2>2. u # t
    BY <1>1, <1>2, <1>7, <2>1 DEF Untold
  <2>3. QED
    BY <1>4, <2>1, <2>2 DEF Untold
<1>8. QED
  BY <1>2, <1>3, <1>4, <1>5, <1>6, <1>7 DEF Noticed

LEMMA AssetsStep ==
  ASSUME AssetsInv, Noticed, [Assets!Next]_(Assets!vars)
  PROVE  AssetsInv' /\ Noticed'
<1>1. ASSUME NEW t \in Askers, Assets!asset_open(t) PROVE AssetsInv' /\ Noticed'
  <2>1. AssetsInv'
    BY <1>1, OpenDoes, OpensKeeps DEF AssetsInv, StreamTypes, FdsOwn
  <2>2. QED
    BY <1>1, <2>1, OpenNoticed
<1>2. ASSUME NEW t \in Askers, Assets!ExceptionCheck(t) PROVE AssetsInv' /\ Noticed'
  <2>1. AssetsInv'
    BY <1>2 DEF Assets!ExceptionCheck, AssetsInv, StreamTypes, FdsOwn
  <2>2. QED
    BY <1>2, <2>1, CheckNoticed
<1>3. ASSUME NEW t \in Askers, Assets!ExceptionClear(t) PROVE AssetsInv' /\ Noticed'
  <2>1. AssetsInv'
    BY <1>3 DEF Assets!ExceptionClear, AssetsInv, StreamTypes, FdsOwn
  <2>2. QED
    BY <1>3, <2>1, ClearNoticed
<1>4. ASSUME NEW h \in DOMAIN streams,
             \/ Assets!asset_read(h) \/ Assets!asset_skip(h)
             \/ Assets!asset_reset(h) \/ Assets!asset_close(h)
      PROVE  AssetsInv' /\ Noticed'
  <2>1. AssetsInv' /\ UNCHANGED <<pending_exception, pc, ret, seen, taken>>
    BY <1>4, StreamMoves, StreamCloses
  <2>2. QED
    BY <2>1 DEF Noticed, Untold
<1>5. CASE UNCHANGED Assets!vars
  BY <1>5 DEF Assets!vars, Assets!game, AssetsInv, StreamTypes, FdsOwn, Noticed, Untold
<1>6. QED
  BY <1>1, <1>2, <1>3, <1>4, <1>5 DEF Assets!Next

LEMMA Owned == AssetsInv => Assets!FdsOwned
<1> SUFFICES ASSUME AssetsInv PROVE Assets!FdsOwned
  OBVIOUS
<1>1. DOMAIN kernelFds = {streams[h].fd : h \in {g \in DOMAIN streams : streams[g].fd # -1}}
  <2>1. -1 \notin AssetFds
    <3>1. AssetFds \subseteq Nat
      BY AssetsBound DEF Assets!AssetsAssumption
    <3>2. QED
      BY <3>1
  <2>2. ASSUME NEW fd \in DOMAIN kernelFds
        PROVE  fd \in {streams[h].fd : h \in {g \in DOMAIN streams : streams[g].fd # -1}}
    <3>1. PICK h \in DOMAIN streams : streams[h].fd = fd
      BY DEF AssetsInv, FdsOwn
    <3>2. fd # -1
      BY <2>1 DEF AssetsInv, StreamTypes
    <3>3. QED
      BY <3>1, <3>2
  <2>3. ASSUME NEW h \in {g \in DOMAIN streams : streams[g].fd # -1}
        PROVE  streams[h].fd \in DOMAIN kernelFds
    BY DEF AssetsInv, FdsOwn
  <2>4. QED
    BY <2>2, <2>3
<1>2. QED
  BY <1>1 DEF AssetsInv, FdsOwn, Assets!FdsOwned, Assets!NoFd

(* However opens, reads, skips, resets and closes follow one another, and for
   any number of threads, handles and descriptors: every open descriptor belongs
   to one open stream, an open that gives up half-way leaks none, and a thread
   whose open failed is told of the exception, whatever the others open at the
   same time, unless one that asked in between has cleared the flag they share
   (jni_patch.c:101, 150-178, 418). *)
THEOREM OpensSafe == FilesSpec => []FailsCleanly
<1> DEFINE Both == AssetsInv /\ Noticed
<1>1. FilesInit => Both
  BY AssetsInit DEF FilesInit, Assets!Init, Noticed
<1>2. Both /\ [FilesNext]_all => Both'
  BY PartsApart, AssetsStep
<1>3. Both => FailsCleanly
  BY Owned DEF FailsCleanly, Assets!NoticesFailure, Noticed, Untold, Assets!NULL
<1>4. QED
  BY <1>1, <1>2, <1>3, PTL DEF FilesSpec

\* A value is a sequence of whatever it holds.
IsSeq(f) == f \in Seq(Range(f))

\* The rewriting does to every memory.cfg that the card may deliver what its rules ask for.
RewritesRight ==
    \A c \in Cards : "memory" \in DOMAIN c =>
        \A short \in Shorts :
            /\ Assets!rewrite_memcfg(Raw(c, short)) = Assets!Ruled(Raw(c, short))
            /\ IsSeq(Assets!Ruled(Raw(c, short)))

\* A stream is at the game's place in what the game should read, and so is the
\* kernel's descriptor, which is open on that.
StreamRight(h) ==
    /\ IsSeq(want[h]) /\ at[h] = streams[h].pos
    /\ streams[h].size = Len(want[h]) /\ streams[h].pos \in 0..streams[h].size
    /\ streams[h].fd = -1 => streams[h].mem = want[h]
    /\ streams[h].fd # -1 =>
          /\ kernelFds[streams[h].fd].off = streams[h].pos
          /\ card[kernelFds[streams[h].fd].name] = want[h]
StreamsRight == \A h \in DOMAIN streams : StreamRight(h)
AskersTypes ==
    /\ pending_exception \in BOOLEAN /\ ret \in [Askers -> Handles \cup {0}]
    /\ card \in Cards
ReadsInv == StreamsRight /\ AskersTypes /\ Assets!ReadsWanted

LEMMA OpensRight ==
  ASSUME AssetsInv, StreamsRight, card \in Cards, card' = card, RewritesRight,
         NEW h, NEW s, NEW text, Opens(h, s, text)
  PROVE  StreamsRight'
<1>1. /\ DOMAIN streams' = DOMAIN streams \cup {h} /\ streams'[h] = s
      /\ want'[h] = text /\ at'[h] = 0
      /\ \A g \in DOMAIN streams : g # h /\ streams'[g] = streams[g] /\ want'[g] = want[g] /\ at'[g] = at[g]
  BY DEF Opens, Assets!With, AssetsInv, StreamTypes
<1>2. ASSUME NEW g \in DOMAIN streams PROVE StreamRight(g)'
  <2>1. ASSUME streams[g].fd # -1
        PROVE  kernelFds'[streams[g].fd] = kernelFds[streams[g].fd]
    BY <2>1 DEF Opens, Assets!With, AssetsInv, FdsOwn
  <2>2. StreamRight(g)
    BY DEF StreamsRight
  <2>3. QED
    BY <1>1, <2>1, <2>2 DEF StreamRight
<1>3. /\ IsSeq(text) /\ s.size = Len(text) /\ s.pos = 0
      /\ s.fd = -1 => s.mem = text
  <2>1. CASE \E short \in Shorts :
                /\ "memory" \in DOMAIN card /\ s.size = Len(s.mem) /\ s.fd = -1
                /\ s.mem = Assets!rewrite_memcfg(Raw(card, short)) /\ text = Assets!Ruled(Raw(card, short))
    BY <2>1 DEF RewritesRight, Opens
  <2>2. CASE \E n \in DOMAIN card : text = card[n] /\ s.size = Len(text) /\ s.fd # -1
    <3>1. PICK n \in DOMAIN card : text = card[n] /\ s.size = Len(text) /\ s.fd # -1
      BY <2>2
    <3>2. card[n] \in Seq(Range(card[n]))
      <4>1. \A c \in Cards : \A name \in DOMAIN c : c[name] \in Seq(Assets!Range(c[name]))
        BY AssetsBound DEF Assets!AssetsAssumption
      <4>2. Assets!Range(card[n]) = Range(card[n])
        BY DEF Assets!Range, Range
      <4>3. QED
        BY <4>1, <4>2
    <3>3. QED
      BY <3>1, <3>2 DEF Opens, IsSeq
  <2>3. \/ \E short \in Shorts :
                /\ "memory" \in DOMAIN card /\ s.size = Len(s.mem) /\ s.fd = -1
                /\ s.mem = Assets!rewrite_memcfg(Raw(card, short)) /\ text = Assets!Ruled(Raw(card, short))
        \/ \E n \in DOMAIN card : text = card[n] /\ s.size = Len(text) /\ s.fd # -1
    BY DEF Opens
  <2>4. QED
    BY <2>1, <2>2, <2>3
<1>4. s.fd # -1 => kernelFds'[s.fd].off = 0 /\ card[kernelFds'[s.fd].name] = text
  BY DEF Opens, Assets!With
<1>5. StreamRight(h)'
  <2>1. Len(text) \in Nat
    BY <1>3 DEF IsSeq
  <2>2. QED
    BY <1>1, <1>3, <1>4, <2>1 DEF StreamRight
<1>6. QED
  BY <1>1, <1>2, <1>5 DEF StreamsRight

LEMMA MovesRight ==
  ASSUME AssetsInv, StreamsRight, card' = card, want' = want,
         NEW h \in DOMAIN streams, NEW p \in 0..streams[h].size,
         streams' = [streams EXCEPT ![h].pos = p], at' = [at EXCEPT ![h] = p],
         kernelFds' = Assets!Seek(streams[h], p)
  PROVE  StreamsRight'
<1>1. /\ DOMAIN streams' = DOMAIN streams
      /\ streams'[h].pos = p /\ streams'[h].fd = streams[h].fd /\ streams'[h].size = streams[h].size
      /\ streams'[h].mem = streams[h].mem /\ at'[h] = p
      /\ \A g \in DOMAIN streams : g # h => streams'[g] = streams[g] /\ at'[g] = at[g]
  BY DEF AssetsInv, StreamTypes
<1>2. ASSUME streams[h].fd # -1
      PROVE  kernelFds'[streams[h].fd].off = p /\ kernelFds'[streams[h].fd].name = kernelFds[streams[h].fd].name
  <2>1. streams[h].fd \in DOMAIN kernelFds /\ DOMAIN kernelFds[streams[h].fd] = {"name", "off"}
    BY <1>2 DEF AssetsInv, StreamTypes, FdsOwn
  <2>2. kernelFds' = [kernelFds EXCEPT ![streams[h].fd].off = p]
    BY <1>2 DEF Assets!Seek, Assets!InMemory, Assets!NoFd
  <2>3. QED
    BY <2>1, <2>2
<1>3. ASSUME NEW g \in DOMAIN streams, g # h, streams[g].fd # -1
      PROVE  kernelFds'[streams[g].fd] = kernelFds[streams[g].fd]
  <2>1. streams[g].fd # streams[h].fd /\ streams[g].fd \in DOMAIN kernelFds
    BY <1>3 DEF AssetsInv, FdsOwn
  <2>2. QED
    BY <2>1 DEF Assets!Seek
<1>4. StreamRight(h)'
  <2>1. StreamRight(h)
    BY DEF StreamsRight
  <2>2. QED
    BY <1>1, <1>2, <2>1 DEF StreamRight
<1>5. ASSUME NEW g \in DOMAIN streams, g # h PROVE StreamRight(g)'
  <2>1. StreamRight(g)
    BY DEF StreamsRight
  <2>2. QED
    BY <1>1, <1>3, <1>5, <2>1 DEF StreamRight
<1>6. QED
  BY <1>1, <1>4, <1>5 DEF StreamsRight

LEMMA ClosesRight ==
  ASSUME AssetsInv, StreamsRight, card' = card, NEW h \in DOMAIN streams, Assets!asset_close(h)
  PROVE  StreamsRight'
<1>1. /\ DOMAIN streams' = DOMAIN streams \ {h}
      /\ \A g \in DOMAIN streams' : streams'[g] = streams[g] /\ want'[g] = want[g] /\ at'[g] = at[g]
  BY DEF Assets!asset_close, Assets!Without, AssetsInv, StreamTypes
<1>2. ASSUME NEW g \in DOMAIN streams, g # h, streams[g].fd # -1
      PROVE  kernelFds'[streams[g].fd] = kernelFds[streams[g].fd]
  BY <1>2 DEF Assets!asset_close, Assets!Without, AssetsInv, FdsOwn
<1>3. ASSUME NEW g \in DOMAIN streams' PROVE StreamRight(g)'
  <2>1. g \in DOMAIN streams /\ g # h /\ StreamRight(g)
    BY <1>1 DEF StreamsRight
  <2>2. QED
    BY <1>1, <1>2, <2>1 DEF StreamRight
<1>4. QED
  BY <1>3 DEF StreamsRight

LEMMA NoReadRight ==
  ASSUME got' = Assets!NoRead
  PROVE  Assets!ReadsWanted'
BY DEF Assets!NoRead, Assets!ReadsWanted

\* What comes are the elements behind the game's place.
LEMMA CameRight ==
  ASSUME NEW w, IsSeq(w), NEW p \in 0..Len(w), NEW n \in 0..(Len(w) - p),
         got'.from = w, got'.at = p, got'.data = SubSeq(w, p + 1, p + n), got'.end => p = Len(w)
  PROVE  Assets!ReadsWanted'
<1>1. Len(SubSeq(w, p + 1, p + n)) = n
  BY DEF IsSeq
<1>2. QED
  BY <1>1 DEF Assets!ReadsWanted

LEMMA ReadRight ==
  ASSUME AssetsInv, StreamsRight, NEW h \in DOMAIN streams, Assets!asset_read(h)
  PROVE  StreamsRight' /\ Assets!ReadsWanted'
<1> DEFINE s == streams[h]
<1>1. StreamRight(h) /\ IsSeq(want[h])
  BY DEF StreamsRight, StreamRight
<1>2. /\ at[h] = s.pos /\ s.size = Len(want[h]) /\ s.pos \in 0..s.size /\ Len(want[h]) \in Nat
      /\ s.fd = -1 => s.mem = want[h]
      /\ s.fd # -1 => kernelFds[s.fd].off = s.pos /\ Assets!File(s) = want[h]
  BY <1>1 DEF StreamRight, IsSeq, Assets!File
<1>3. card' = card /\ want' = want /\ Lengths \subseteq Nat \ {0}
  BY AssetsBound DEF Assets!asset_read, Assets!AssetsAssumption
<1>4. \A f : SubSeq(f, s.pos + 1, s.pos + 0) = <<>>
  BY <1>2
<1>5. ASSUME UNCHANGED <<kernelFds, streams, at>>, got'.end => s.pos = s.size,
             got'.from = want[h], got'.at = at[h], got'.data = <<>>
      PROVE  StreamsRight' /\ Assets!ReadsWanted'
  <2>1. got'.data = SubSeq(want[h], s.pos + 1, s.pos + 0) /\ got'.at = s.pos
    BY <1>2, <1>4, <1>5
  <2>2. Assets!ReadsWanted'
    <3>1. PICK w, p : w = want[h] /\ p = s.pos
      OBVIOUS
    <3>2. IsSeq(w) /\ p \in 0..Len(w) /\ 0 \in 0..(Len(w) - p)
      BY <1>1, <1>2, <3>1
    <3>3. got'.from = w /\ got'.at = p /\ got'.data = SubSeq(w, p + 1, p + 0) /\ (got'.end => p = Len(w))
      BY <1>2, <1>5, <2>1, <3>1
    <3>4. QED
      BY <3>2, <3>3, CameRight
  <2>3. QED
    BY <1>3, <1>5, <2>2 DEF StreamsRight, StreamRight
<1>6. ASSUME NEW n \in 1..(s.size - s.pos),
             streams' = [streams EXCEPT ![h].pos = @ + n], at' = [at EXCEPT ![h] = @ + n],
             kernelFds' = Assets!Seek(s, s.pos + n),
             got'.from = want[h], got'.at = at[h], got'.end = FALSE,
             got'.data = SubSeq(want[h], s.pos + 1, s.pos + n)
      PROVE  StreamsRight' /\ Assets!ReadsWanted'
  <2>1. PICK p \in 0..s.size : p = s.pos + n
    BY <1>2, <1>6
  <2>2. streams' = [streams EXCEPT ![h].pos = p] /\ at' = [at EXCEPT ![h] = p] /\ kernelFds' = Assets!Seek(streams[h], p)
    BY <1>2, <1>6, <2>1
  <2>3. StreamsRight'
    BY <1>3, <2>1, <2>2, MovesRight
  <2>4. Assets!ReadsWanted'
    <3>1. PICK w, q : w = want[h] /\ q = s.pos
      OBVIOUS
    <3>2. IsSeq(w) /\ q \in 0..Len(w) /\ n \in 0..(Len(w) - q)
      BY <1>1, <1>2, <3>1
    <3>3. got'.from = w /\ got'.at = q /\ got'.data = SubSeq(w, q + 1, q + n) /\ (got'.end => q = Len(w))
      BY <1>2, <1>6, <3>1
    <3>4. QED
      BY <3>2, <3>3, CameRight
  <2>5. QED
    BY <2>3, <2>4
<1>7. CASE /\ s.pos >= s.size
           /\ got' = [from |-> want[h], at |-> at[h], data |-> <<>>, end |-> TRUE]
           /\ UNCHANGED <<kernelFds, streams, at>>
  <2>1. s.pos = s.size
    BY <1>2, <1>7
  <2>2. got'.from = want[h] /\ got'.at = at[h] /\ got'.data = <<>>
    BY <1>7
  <2>3. QED
    BY <1>5, <1>7, <2>1, <2>2
<1>8. CASE got' = [from |-> want[h], at |-> at[h], data |-> <<>>, end |-> FALSE] /\ UNCHANGED <<kernelFds, streams, at>>
  <2>1. got'.from = want[h] /\ got'.at = at[h] /\ got'.data = <<>> /\ got'.end = FALSE
    BY <1>8
  <2>2. QED
    BY <1>5, <1>8, <2>1
<1>9. ASSUME s.pos < s.size, Assets!InMemory(s), NEW len \in Lengths,
             LET n == Assets!Least(len, s.size - s.pos) IN
             /\ got' = [from |-> want[h], at |-> at[h], data |-> SubSeq(s.mem, s.pos + 1, s.pos + n), end |-> FALSE]
             /\ streams' = [streams EXCEPT ![h].pos = @ + n] /\ at' = [at EXCEPT ![h] = @ + n],
             kernelFds' = kernelFds
      PROVE  StreamsRight' /\ Assets!ReadsWanted'
  <2>1. PICK n \in 1..(s.size - s.pos) : n = Assets!Least(len, s.size - s.pos)
    BY <1>2, <1>3, <1>9 DEF Assets!Least
  <2>2. s.mem = want[h] /\ kernelFds' = Assets!Seek(s, s.pos + n)
    BY <1>2, <1>9 DEF Assets!InMemory, Assets!Seek, Assets!NoFd
  <2>3. /\ got'.from = want[h] /\ got'.at = at[h] /\ got'.end = FALSE
        /\ got'.data = SubSeq(want[h], s.pos + 1, s.pos + n)
        /\ streams' = [streams EXCEPT ![h].pos = @ + n] /\ at' = [at EXCEPT ![h] = @ + n]
    BY <1>9, <2>1, <2>2
  <2>4. QED
    BY <1>6, <2>2, <2>3
<1>10. ASSUME s.pos < s.size, ~Assets!InMemory(s), NEW len \in Lengths,
              LET off == kernelFds[s.fd].off
                  n == Assets!Least(len, Len(Assets!File(s)) - off)
              IN  /\ got' = [from |-> want[h], at |-> at[h],
                             data |-> SubSeq(Assets!File(s), off + 1, off + n), end |-> (n = 0)]
                  /\ kernelFds' = Assets!Seek(s, off + n)
                  /\ streams' = [streams EXCEPT ![h].pos = @ + n] /\ at' = [at EXCEPT ![h] = @ + n]
       PROVE  StreamsRight' /\ Assets!ReadsWanted'
  <2>1. kernelFds[s.fd].off = s.pos /\ Assets!File(s) = want[h]
    BY <1>2, <1>10 DEF Assets!InMemory, Assets!NoFd
  <2>2. PICK n \in 1..(s.size - s.pos) : n = Assets!Least(len, Len(want[h]) - s.pos)
    BY <1>2, <1>3, <1>10 DEF Assets!Least
  <2>3. /\ got'.from = want[h] /\ got'.at = at[h] /\ got'.end = (n = 0)
        /\ got'.data = SubSeq(want[h], s.pos + 1, s.pos + n)
        /\ kernelFds' = Assets!Seek(s, s.pos + n)
        /\ streams' = [streams EXCEPT ![h].pos = @ + n] /\ at' = [at EXCEPT ![h] = @ + n]
    BY <1>10, <2>1, <2>2
  <2>4. got'.end = FALSE
    <3>1. n # 0
      BY <2>2
    <3>2. QED
      BY <2>3, <3>1, Zenon
  <2>5. QED
    BY <1>6, <2>3, <2>4
<1>11. QED
  BY <1>7, <1>8, <1>9, <1>10 DEF Assets!asset_read

LEMMA ReadsStep ==
  ASSUME RewritesRight, AssetsInv, ReadsInv, [Assets!Next]_(Assets!vars)
  PROVE  AssetsInv' /\ ReadsInv'
<1>1. ASSUME NEW t \in Askers, Assets!asset_open(t) PROVE AssetsInv' /\ ReadsInv'
  <2>1. card' = card /\ got' = Assets!NoRead
    BY <1>1 DEF Assets!asset_open, Assets!Open
  <2>2. CASE /\ pending_exception' = TRUE /\ ret' = [ret EXCEPT ![t] = 0]
             /\ UNCHANGED <<streams, want, at, kernelFds>>
    <3>1. AssetsInv'
      BY <2>2 DEF AssetsInv, StreamTypes, FdsOwn
    <3>2. StreamsRight'
      BY <2>1, <2>2 DEF ReadsInv, StreamsRight, StreamRight
    <3>3. AskersTypes'
      BY <2>1, <2>2 DEF ReadsInv, AskersTypes
    <3>4. QED
      BY <2>1, <3>1, <3>2, <3>3, NoReadRight DEF ReadsInv
  <2>3. ASSUME NEW h \in Handles \ {0}, NEW s, NEW text,
               pending_exception' = pending_exception, ret' = [ret EXCEPT ![t] = h], Opens(h, s, text)
        PROVE  AssetsInv' /\ ReadsInv'
    <3>1. AssetsInv'
      BY <2>3, OpensKeeps
    <3>2. StreamsRight'
      BY <2>1, <2>3, OpensRight DEF ReadsInv, AskersTypes
    <3>3. AskersTypes'
      BY <2>1, <2>3 DEF ReadsInv, AskersTypes
    <3>4. QED
      BY <2>1, <3>1, <3>2, <3>3, NoReadRight DEF ReadsInv
  <2>4. QED
    BY <1>1, <2>2, <2>3, OpenDoes
<1>2. ASSUME NEW t \in Askers, Assets!ExceptionCheck(t) \/ Assets!ExceptionClear(t)
      PROVE  AssetsInv' /\ ReadsInv'
  <2>1. UNCHANGED <<card, kernelFds, streams, want, at>> /\ got' = Assets!NoRead
    BY <1>2 DEF Assets!ExceptionCheck, Assets!ExceptionClear
  <2>2. pending_exception' \in BOOLEAN
    BY <1>2, Zenon DEF Assets!ExceptionCheck, Assets!ExceptionClear, ReadsInv, AskersTypes
  <2>3. ret' \in [Askers -> Handles \cup {0}]
    <3>1. ret' = ret \/ ret' = [ret EXCEPT ![t] = 0]
      BY <1>2, Zenon DEF Assets!ExceptionCheck, Assets!ExceptionClear, Assets!NULL
    <3>2. QED
      BY <3>1 DEF ReadsInv, AskersTypes
  <2>4. AssetsInv'
    BY <2>1 DEF AssetsInv, StreamTypes, FdsOwn
  <2>5. StreamsRight'
    BY <2>1 DEF ReadsInv, StreamsRight, StreamRight
  <2>6. QED
    BY <2>1, <2>2, <2>3, <2>4, <2>5, NoReadRight DEF ReadsInv, AskersTypes
<1>3. ASSUME NEW h \in DOMAIN streams,
             \/ Assets!asset_read(h) \/ Assets!asset_skip(h)
             \/ Assets!asset_reset(h) \/ Assets!asset_close(h)
      PROVE  AssetsInv' /\ ReadsInv'
  <2>1. AssetsInv' /\ UNCHANGED <<pending_exception, ret>>
    BY <1>3, StreamMoves, StreamCloses
  <2>2. card' = card
    BY <1>3 DEF Assets!asset_read, Assets!asset_skip, Assets!SkipWithin, Assets!asset_reset,
                Assets!ResetIn, Assets!asset_close
  <2>3. AskersTypes'
    BY <2>1, <2>2 DEF ReadsInv, AskersTypes
  <2>4. CASE Assets!asset_read(h)
    BY <2>1, <2>3, <2>4, ReadRight DEF ReadsInv
  <2>5. CASE Assets!asset_skip(h)
    <3>1. PICK n \in Lengths :
             LET np == Assets!Least(streams[h].pos + n, streams[h].size) IN
             /\ kernelFds' = Assets!Seek(streams[h], np)
             /\ streams' = [streams EXCEPT ![h].pos = np]
             /\ at' = [at EXCEPT ![h] = @ + (np - streams[h].pos)]
      BY <2>5 DEF Assets!asset_skip, Assets!SkipWithin
    <3>2. /\ StreamRight(h) /\ Len(want[h]) \in Nat /\ n \in Nat
      BY AssetsBound DEF ReadsInv, StreamsRight, StreamRight, IsSeq, Assets!AssetsAssumption
    <3>3. PICK p \in 0..streams[h].size : p = Assets!Least(streams[h].pos + n, streams[h].size)
      BY <3>2 DEF StreamRight, Assets!Least
    <3>4. at[h] + (p - streams[h].pos) = p
      BY <3>2, <3>3 DEF StreamRight
    <3>5. /\ streams' = [streams EXCEPT ![h].pos = p] /\ at' = [at EXCEPT ![h] = p]
          /\ kernelFds' = Assets!Seek(streams[h], p)
      BY <3>1, <3>3, <3>4
    <3>6. want' = want /\ got' = Assets!NoRead
      BY <2>5 DEF Assets!asset_skip, Assets!SkipWithin
    <3>7. StreamsRight'
      BY <2>2, <3>5, <3>6, MovesRight DEF ReadsInv
    <3>8. QED
      BY <2>1, <2>3, <3>6, <3>7, NoReadRight DEF ReadsInv
  <2>6. CASE Assets!asset_reset(h)
    <3>1. /\ streams' = [streams EXCEPT ![h].pos = 0] /\ at' = [at EXCEPT ![h] = 0]
          /\ kernelFds' = Assets!Seek(streams[h], 0) /\ want' = want /\ got' = Assets!NoRead
      BY <2>6 DEF Assets!asset_reset, Assets!ResetIn
    <3>2. 0 \in 0..streams[h].size
      BY DEF ReadsInv, StreamsRight, StreamRight
    <3>3. StreamsRight'
      BY <2>2, <3>1, <3>2, MovesRight DEF ReadsInv
    <3>4. QED
      BY <2>1, <2>3, <3>1, <3>3, NoReadRight DEF ReadsInv
  <2>7. CASE Assets!asset_close(h)
    <3>1. got' = Assets!NoRead
      BY <2>7 DEF Assets!asset_close
    <3>2. QED
      BY <2>1, <2>2, <2>3, <2>7, <3>1, ClosesRight, NoReadRight DEF ReadsInv
  <2>8. QED
    BY <1>3, <2>4, <2>5, <2>6, <2>7
<1>4. CASE UNCHANGED Assets!vars
  <2>1. AssetsInv'
    BY <1>4 DEF Assets!vars, AssetsInv, StreamTypes, FdsOwn
  <2>2. ReadsInv'
    BY <1>4 DEF Assets!vars, Assets!game, ReadsInv, StreamsRight, StreamRight, AskersTypes, Assets!ReadsWanted
  <2>3. QED
    BY <2>1, <2>2
<1>5. QED
  BY <1>1, <1>2, <1>3, <1>4 DEF Assets!Next

LEMMA ReadsMeant == AssetsInv /\ ReadsInv => ReadsWanted
<1> SUFFICES ASSUME AssetsInv, ReadsInv PROVE ReadsWanted
  OBVIOUS
<1>1. ASSUME NEW h \in DOMAIN streams PROVE StreamRight(h)
  BY DEF ReadsInv, StreamsRight
<1>2. Assets!TypeOK
  <2>1. \A t \in Askers : ret[t] \in Handles \cup {Assets!NULL}
    BY DEF ReadsInv, AskersTypes, Assets!NULL
  <2>2. \A h \in DOMAIN streams :
           streams[h].fd \in AssetFds \cup {Assets!NoFd} /\ streams[h].pos \in 0..streams[h].size
    BY <1>1 DEF AssetsInv, StreamTypes, StreamRight, Assets!NoFd
  <2>3. QED
    BY <2>1, <2>2 DEF AssetsInv, StreamTypes, ReadsInv, AskersTypes, Assets!TypeOK
<1>3. Assets!RewriteExact
  BY <1>1 DEF StreamRight, Assets!RewriteExact, Assets!InMemory, Assets!NoFd
<1>4. QED
  BY <1>2, <1>3 DEF ReadsInv, ReadsWanted

(* On any card whose memory.cfg the rewriting treats as its rules ask: after
   whatever opens, reads, skips, resets and closes, of any number of threads and
   streams, a read brings what is at the game's place in the asset and finds
   the end only there; the stream's position and the kernel's never part
   (jni_patch.c:150-203). *)
THEOREM ReadsSafe ==
  ASSUME RewritesRight
  PROVE  FilesSpec => []ReadsWanted
<1> DEFINE Both == AssetsInv /\ ReadsInv
<1>1. FilesInit => Both
  <2>1. Assets!Init => StreamsRight
    BY DEF Assets!Init, Assets!Nothing, StreamsRight
  <2>2. Assets!Init => AskersTypes
    BY DEF Assets!Init, Assets!NULL, AskersTypes
  <2>3. Assets!Init => Assets!ReadsWanted
    BY DEF Assets!Init, Assets!NoRead, Assets!ReadsWanted
  <2>4. QED
    BY <2>1, <2>2, <2>3, AssetsInit DEF FilesInit, ReadsInv
<1>2. Both /\ [FilesNext]_all => Both'
  BY PartsApart, ReadsStep
<1>3. QED
  BY <1>1, <1>2, ReadsMeant, PTL DEF FilesSpec

----------------------------------------------------------------------------
(* The objects of the Java side *)

\* What is built element by element is a sequence.
LEMMA BuiltSeq ==
  ASSUME NEW w, NEW n \in Nat, w = [i \in 1..n |-> w[i]]
  PROVE  IsSeq(w) /\ Len(w) = n /\ DOMAIN w = 1..n
<1>1. DOMAIN w = 1..n
  BY Zenon
<1>2. w \in [1..n -> Range(w)]
  BY <1>1 DEF Range
<1>3. QED
  BY <1>1, <1>2 DEF IsSeq

\* Two sequences of one length are one if they agree everywhere.
LEMMA SameSeq ==
  ASSUME NEW v, NEW w, IsSeq(v), IsSeq(w), Len(v) = Len(w), \A i \in 1..Len(v) : v[i] = w[i]
  PROVE  v = w
BY DEF IsSeq

LEMMA FlatSeq ==
  ASSUME NEW w, IsSeq(w), NEW width \in {1, 2, 4, 8}
  PROVE  /\ IsSeq(Objects!Flat(w, width)) /\ Len(Objects!Flat(w, width)) = Len(w) * width
         /\ Len(w) * width \in Nat /\ Len(w) \in Nat
         /\ \A b \in 1..(Len(w) * width) :
               Objects!Flat(w, width)[b] = <<w[((b - 1) \div width) + 1], ((b - 1) % width) + 1>>
<1>1. Len(w) \in Nat
  BY DEF IsSeq
<1>2. Len(w) * width \in Nat
  BY <1>1
<1>3. PICK n \in Nat : n = Len(w) * width
  BY <1>2
<1>4. PICK f : f = Objects!Flat(w, width)
  OBVIOUS
<1>5. f = [b \in 1..n |-> <<w[((b - 1) \div width) + 1], ((b - 1) % width) + 1>>]
  BY <1>3, <1>4 DEF Objects!Flat
<1>6. IsSeq(f) /\ Len(f) = n
  BY <1>5, BuiltSeq
<1>7. QED
  BY <1>1, <1>3, <1>4, <1>5, <1>6

\* Where a byte is, in elements.
LEMMA PlaceOf ==
  ASSUME NEW width \in {1, 2, 4, 8}, NEW n \in Nat, NEW b \in 1..(n * width)
  PROVE  \E i \in 0..(n - 1), c \in 1..width : b = i * width + c
<1> DEFINE i == (b - 1) \div width
           c == ((b - 1) % width) + 1
<1>1. CASE width = 1
  <2>1. i \in 0..(n - 1) /\ c \in 1..width /\ b = i * width + c
    BY <1>1
  <2>2. QED
    BY <2>1
<1>2. CASE width = 2
  <2>1. i \in 0..(n - 1) /\ c \in 1..width /\ b = i * width + c
    BY <1>2
  <2>2. QED
    BY <2>1
<1>3. CASE width = 4
  <2>1. i \in 0..(n - 1) /\ c \in 1..width /\ b = i * width + c
    BY <1>3
  <2>2. QED
    BY <2>1
<1>4. CASE width = 8
  <2>1. i \in 0..(n - 1) /\ c \in 1..width /\ b = i * width + c
    BY <1>4
  <2>2. QED
    BY <2>1
<1>5. QED
  BY <1>1, <1>2, <1>3, <1>4

LEMMA FlatAt ==
  ASSUME NEW w, IsSeq(w), NEW width \in {1, 2, 4, 8}, NEW i \in 0..(Len(w) - 1), NEW c \in 1..width
  PROVE  i * width + c \in 1..(Len(w) * width) /\ Objects!Flat(w, width)[i * width + c] = <<w[i + 1], c>>
<1>1. Len(w) \in Nat
  BY DEF IsSeq
<1>2. i * width + c \in 1..(Len(w) * width)
  <2>1. CASE width = 1
    BY <1>1, <2>1
  <2>2. CASE width = 2
    BY <1>1, <2>2
  <2>3. CASE width = 4
    BY <1>1, <2>3
  <2>4. CASE width = 8
    BY <1>1, <2>4
  <2>5. QED
    BY <2>1, <2>2, <2>3, <2>4
<1>3. PICK b \in 1..(Len(w) * width) : b = i * width + c
  BY <1>2
<1>4. \A e \in 1..(Len(w) * width) :
         Objects!Flat(w, width)[e] = <<w[((e - 1) \div width) + 1], ((e - 1) % width) + 1>>
  BY FlatSeq
<1>5. PICK q, r : q = ((b - 1) \div width) + 1 /\ r = ((b - 1) % width) + 1
  OBVIOUS
<1>6. q = i + 1 /\ r = c
  <2>1. i \in Nat
    BY <1>1
  <2>2. CASE width = 1
    BY <1>3, <1>5, <2>1, <2>2
  <2>3. CASE width = 2
    BY <1>3, <1>5, <2>1, <2>3
  <2>4. CASE width = 4
    BY <1>3, <1>5, <2>1, <2>4
  <2>5. CASE width = 8
    BY <1>3, <1>5, <2>1, <2>5
  <2>6. QED
    BY <2>2, <2>3, <2>4, <2>5
<1>7. Objects!Flat(w, width)[b] = <<w[i + 1], c>>
  BY <1>4, <1>5, <1>6
<1>8. QED
  BY <1>3, <1>7

\* Put within a sequence.
LEMMA PutSeq ==
  ASSUME NEW w, IsSeq(w), NEW data, IsSeq(data), NEW from \in Nat
  PROVE  LET p == Objects!Put(w, from, data) IN
         /\ IsSeq(p) /\ Len(p) = Len(w)
         /\ \A i \in 1..Len(w) : p[i] = IF i \in (from + 1)..(from + Len(data)) THEN data[i - from] ELSE w[i]
<1>1. Len(w) \in Nat /\ DOMAIN w = 1..Len(w)
  BY DEF IsSeq
<1>2. PICK p : p = Objects!Put(w, from, data)
  OBVIOUS
<1>3. p = [i \in 1..Len(w) |-> IF i \in (from + 1)..(from + Len(data)) THEN data[i - from] ELSE w[i]]
  BY <1>1, <1>2 DEF Objects!Put
<1>4. IsSeq(p) /\ Len(p) = Len(w)
  BY <1>1, <1>3, BuiltSeq
<1>5. QED
  BY <1>2, <1>3, <1>4

\* To put bytes of elements is to put the elements.
LEMMA FlatPut ==
  ASSUME NEW w, IsSeq(w), NEW vals, IsSeq(vals), NEW width \in {1, 2, 4, 8},
         NEW from \in Nat, from + Len(vals) <= Len(w)
  PROVE  Objects!Put(Objects!Flat(w, width), from * width, Objects!Flat(vals, width)) =
         Objects!Flat(Objects!Put(w, from, vals), width)
<1>1. PICK f, d, m : f = Objects!Flat(w, width) /\ d = Objects!Flat(vals, width) /\ m = Objects!Put(w, from, vals)
  OBVIOUS
<1>2. /\ IsSeq(f) /\ Len(f) = Len(w) * width /\ Len(w) \in Nat /\ Len(w) * width \in Nat
      /\ IsSeq(d) /\ Len(d) = Len(vals) * width /\ Len(vals) \in Nat /\ Len(vals) * width \in Nat
  BY <1>1, FlatSeq
<1>3. IsSeq(m) /\ Len(m) = Len(w)
  BY <1>1, PutSeq
<1>4. PICK start \in Nat : start = from * width
  OBVIOUS
<1>5. PICK p, g : p = Objects!Put(f, start, d) /\ g = Objects!Flat(m, width)
  OBVIOUS
<1>6. /\ IsSeq(p) /\ Len(p) = Len(w) * width
      /\ IsSeq(g) /\ Len(g) = Len(w) * width
      /\ \A b \in 1..(Len(w) * width) :
            p[b] = IF b \in (start + 1)..(start + Len(d)) THEN d[b - start] ELSE f[b]
  <2>1. IsSeq(g) /\ Len(g) = Len(m) * width
    BY <1>3, <1>5, FlatSeq
  <2>2. /\ IsSeq(p) /\ Len(p) = Len(f)
        /\ \A b \in 1..Len(f) :
              p[b] = IF b \in (start + 1)..(start + Len(d)) THEN d[b - start] ELSE f[b]
    BY <1>2, <1>5, PutSeq
  <2>3. QED
    BY <1>2, <1>3, <2>1, <2>2
<1>7. ASSUME NEW b \in 1..(Len(w) * width) PROVE p[b] = g[b]
  <2>1. PICK i \in 0..(Len(w) - 1), c \in 1..width : b = i * width + c
    BY <1>2, PlaceOf
  <2>2. g[b] = <<m[i + 1], c>> /\ f[b] = <<w[i + 1], c>>
    <3>1. g[i * width + c] = <<m[i + 1], c>>
      <4>1. i \in 0..(Len(m) - 1)
        BY <1>3
      <4>2. Objects!Flat(m, width)[i * width + c] = <<m[i + 1], c>>
        BY <1>3, <4>1, FlatAt, Zenon
      <4>3. QED
        BY <1>5, <4>2
    <3>2. f[i * width + c] = <<w[i + 1], c>>
      <4>1. Objects!Flat(w, width)[i * width + c] = <<w[i + 1], c>>
        BY FlatAt, Zenon
      <4>2. QED
        BY <1>1, <4>1
    <3>3. QED
      BY <2>1, <3>1, <3>2
  <2>3. p[b] = IF b \in (start + 1)..(start + Len(d)) THEN d[b - start] ELSE f[b]
    BY <1>6
  <2>4. m[i + 1] = IF i + 1 \in (from + 1)..(from + Len(vals)) THEN vals[i + 1 - from] ELSE w[i + 1]
    BY <1>1, <1>2, PutSeq
  <2>5. CASE i \in from..(from + Len(vals) - 1)
    <3>1. PICK j \in 0..(Len(vals) - 1) : i = from + j
      BY <1>2, <2>5
    <3>2. b - start = j * width + c
      BY <1>4, <2>1, <3>1
    <3>3. d[j * width + c] = <<vals[j + 1], c>> /\ j * width + c \in 1..(Len(vals) * width)
      <4>1. /\ j * width + c \in 1..(Len(vals) * width)
            /\ Objects!Flat(vals, width)[j * width + c] = <<vals[j + 1], c>>
        BY FlatAt, Zenon
      <4>2. QED
        BY <1>1, <4>1
    <3>4. b \in (start + 1)..(start + Len(d))
      BY <1>2, <1>4, <1>6, <3>2, <3>3
    <3>5. m[i + 1] = vals[j + 1]
      BY <1>2, <2>4, <3>1
    <3>6. QED
      BY <2>2, <2>3, <3>2, <3>3, <3>4, <3>5
  <2>6. CASE i \notin from..(from + Len(vals) - 1)
    <3>1. b \notin (start + 1)..(start + Len(d))
      <4>1. CASE width = 1
        BY <1>2, <1>4, <2>1, <2>6, <4>1
      <4>2. CASE width = 2
        BY <1>2, <1>4, <2>1, <2>6, <4>2
      <4>3. CASE width = 4
        BY <1>2, <1>4, <2>1, <2>6, <4>3
      <4>4. CASE width = 8
        BY <1>2, <1>4, <2>1, <2>6, <4>4
      <4>5. QED
        BY <4>1, <4>2, <4>3, <4>4
    <3>2. m[i + 1] = w[i + 1]
      BY <1>2, <2>4, <2>6
    <3>3. QED
      BY <2>2, <2>3, <3>1, <3>2
  <2>7. QED
    BY <2>5, <2>6
<1>8. p = g
  BY <1>6, <1>7, SameSeq
<1>9. QED
  BY <1>1, <1>4, <1>5, <1>8
\* What a piece of a sequence and two behind one another are.
LEMMA PieceSeq ==
  ASSUME NEW w, IsSeq(w), NEW m \in Nat, NEW e \in Nat, 1 <= m, m <= e + 1, e <= Len(w)
  PROVE  /\ IsSeq(SubSeq(w, m, e)) /\ Len(SubSeq(w, m, e)) = e - m + 1
         /\ \A i \in 1..(e - m + 1) : SubSeq(w, m, e)[i] = w[m + i - 1]
<1>1. Len(w) \in Nat /\ w \in Seq(Range(w))
  BY DEF IsSeq
<1>2. PICK p : p = SubSeq(w, m, e)
  OBVIOUS
<1>3. \A i \in m..e : w[i] \in Range(w)
  BY <1>1
<1>4. /\ p \in Seq(Range(w)) /\ Len(p) = IF m <= e THEN e - m + 1 ELSE 0
      /\ \A i \in 1..(e - m + 1) : p[i] = w[m + i - 1]
  BY <1>2, <1>3, SubSeqProperties
<1>5. PICK n \in Nat : n = e - m + 1 /\ Len(p) = n
  BY <1>4
<1>6. IsSeq(p)
  <2>1. p = [i \in 1..n |-> p[i]]
    BY <1>4, <1>5
  <2>2. QED
    BY <2>1, BuiltSeq
<1>7. QED
  BY <1>2, <1>4, <1>5, <1>6

LEMMA JoinedSeq ==
  ASSUME NEW v, NEW w, IsSeq(v), IsSeq(w)
  PROVE  /\ IsSeq(v \o w) /\ Len(v \o w) = Len(v) + Len(w) /\ Len(v) \in Nat /\ Len(w) \in Nat
         /\ \A i \in 1..(Len(v) + Len(w)) : (v \o w)[i] = IF i <= Len(v) THEN v[i] ELSE w[i - Len(v)]
<1>1. Len(v) \in Nat /\ v \in Seq(Range(v)) /\ Len(w) \in Nat /\ w \in Seq(Range(w))
  BY DEF IsSeq
<1>2. PICK S : S = Range(v) \cup Range(w)
  OBVIOUS
<1>3. v \in Seq(S) /\ w \in Seq(S)
  BY <1>1, <1>2
<1>4. PICK p : p = v \o w
  OBVIOUS
<1>5. /\ p \in Seq(S) /\ Len(p) = Len(v) + Len(w)
      /\ \A i \in 1..(Len(v) + Len(w)) : p[i] = IF i <= Len(v) THEN v[i] ELSE w[i - Len(v)]
  BY <1>1, <1>3, <1>4
<1>6. IsSeq(p)
  <2>1. p = [i \in 1..(Len(v) + Len(w)) |-> p[i]] /\ Len(v) + Len(w) \in Nat
    BY <1>1, <1>5
  <2>2. QED
    BY <2>1, BuiltSeq
<1>7. QED
  BY <1>1, <1>4, <1>5, <1>6

LEMMA MoreSeq ==
  ASSUME NEW w, IsSeq(w), NEW x
  PROVE  /\ IsSeq(Append(w, x)) /\ Len(Append(w, x)) = Len(w) + 1 /\ Len(w) \in Nat
         /\ \A i \in 1..Len(w) : Append(w, x)[i] = w[i]
         /\ Append(w, x)[Len(w) + 1] = x
<1>1. Len(w) \in Nat /\ w \in Seq(Range(w))
  BY DEF IsSeq
<1>2. PICK S : S = Range(w) \cup {x}
  OBVIOUS
<1>3. w \in Seq(S) /\ x \in S
  BY <1>1, <1>2
<1>4. PICK p : p = Append(w, x)
  OBVIOUS
<1>5. /\ p \in Seq(S) /\ Len(p) = Len(w) + 1
      /\ \A i \in 1..Len(w) : p[i] = w[i]
      /\ p[Len(w) + 1] = x
  BY <1>1, <1>3, <1>4
<1>6. IsSeq(p)
  <2>1. p = [i \in 1..(Len(w) + 1) |-> p[i]] /\ Len(w) + 1 \in Nat
    BY <1>1, <1>5
  <2>2. QED
    BY <2>1, BuiltSeq
<1>7. QED
  BY <1>1, <1>4, <1>5, <1>6

\* One value is its bytes.
LEMMA BytesFlat ==
  ASSUME NEW v, NEW width \in {1, 2, 4, 8}
  PROVE  Objects!Bytes(v, width) = Objects!Flat(<<v>>, width) /\ IsSeq(<<v>>) /\ Len(<<v>>) = 1
<1>1. PICK w : w = <<v>>
  OBVIOUS
<1>2. Len(w) = 1 /\ w[1] = v /\ w = [i \in 1..1 |-> w[i]]
  BY <1>1
<1>3. IsSeq(w)
  BY <1>2, BuiltSeq
<1>4. PICK n \in Nat : n = width
  OBVIOUS
<1>5. PICK p, g : p = Objects!Bytes(v, width) /\ g = Objects!Flat(w, width)
  OBVIOUS
<1>6. p = [i \in 1..n |-> <<v, i>>]
  BY <1>4, <1>5 DEF Objects!Bytes
<1>7. IsSeq(p) /\ Len(p) = n
  BY <1>4, <1>6, BuiltSeq
<1>8. IsSeq(g) /\ Len(g) = Len(w) * width
  BY <1>3, <1>5, FlatSeq
<1>9. ASSUME NEW c \in 1..width PROVE g[c] = <<v, c>>
  <2>1. 0 \in 0..(Len(w) - 1)
    BY <1>2
  <2>2. PICK i \in 0..(Len(w) - 1) : i = 0
    BY <2>1
  <2>3. g[i * width + c] = <<w[i + 1], c>>
    BY <1>3, <1>5, FlatAt
  <2>4. i * width + c = c /\ i + 1 = 1
    BY <2>2
  <2>5. QED
    BY <1>2, <2>3, <2>4
<1>10. p = g
  <2>1. Len(g) = n
    BY <1>2, <1>4, <1>8
  <2>2. \A c \in 1..Len(p) : p[c] = g[c]
    BY <1>4, <1>6, <1>7, <1>9
  <2>3. QED
    BY <1>7, <1>8, <2>1, <2>2, SameSeq
<1>11. QED
  BY <1>1, <1>2, <1>3, <1>5, <1>10

\* A block is what Java put there, byte for byte; of a string, unless it holds
\* units that its bytes cannot.
JniSize(k) == Objects!JniSize[k + 1]
Width(k) == IF k = Objects!Object THEN 4 ELSE JniSize(k)
BlockRight(x, v) ==
    /\ x = [kind |-> x.kind, len |-> x.len, bytes |-> x.bytes]
    /\ x.kind \in ElementKinds \cup Objects!Strings \cup {Objects!Object}
    /\ IsSeq(v) /\ x.len = Len(v)
    /\ x.kind \in Objects!Strings =>
          (x.kind = Objects!StringUTF \/ (\A i \in DOMAIN v : v[i] \in 1..255) => x.bytes = v)
    /\ x.kind \notin Objects!Strings => x.bytes = Objects!Flat(v, Width(x.kind))
BlocksInv ==
    /\ IsSeq(objects) /\ IsSeq(java) /\ Len(java) = Len(objects)
    /\ \A o \in 1..Len(objects) : BlockRight(objects[o], java[o])

LEMMA Widths ==
  /\ \A k \in 0..7 : /\ JniSize(k) \in {1, 2, 4, 8} /\ Width(k) = JniSize(k)
                     /\ Objects!NewSlots(175 + k) = JniSize(k)
                     /\ Objects!RegionSlots(199 + k) = JniSize(k)
                     /\ Objects!RegionSlots(207 + k) = JniSize(k)
  /\ Width(Objects!Object) = 4 /\ Width(Objects!IntKind) = 4 /\ Width(Objects!ShortKind) = 2
  /\ ElementKinds \subseteq 0..7
  /\ \A k \in ElementKinds \cup {Objects!Object} : Width(k) \in {1, 2, 4, 8}
<1>1. ASSUME NEW k \in 0..7
      PROVE  /\ JniSize(k) \in {1, 2, 4, 8} /\ Width(k) = JniSize(k)
             /\ Objects!NewSlots(175 + k) = JniSize(k)
             /\ Objects!RegionSlots(199 + k) = JniSize(k)
             /\ Objects!RegionSlots(207 + k) = JniSize(k)
  <2>1. CASE k = 0
    BY <2>1 DEF JniSize, Width, Objects!JniSize, Objects!Object, Objects!NewSlots, Objects!RegionSlots
  <2>2. CASE k = 1
    BY <2>2 DEF JniSize, Width, Objects!JniSize, Objects!Object, Objects!NewSlots, Objects!RegionSlots
  <2>3. CASE k = 2
    BY <2>3 DEF JniSize, Width, Objects!JniSize, Objects!Object, Objects!NewSlots, Objects!RegionSlots
  <2>4. CASE k = 3
    BY <2>4 DEF JniSize, Width, Objects!JniSize, Objects!Object, Objects!NewSlots, Objects!RegionSlots
  <2>5. CASE k = 4
    BY <2>5 DEF JniSize, Width, Objects!JniSize, Objects!Object, Objects!NewSlots, Objects!RegionSlots
  <2>6. CASE k = 5
    BY <2>6 DEF JniSize, Width, Objects!JniSize, Objects!Object, Objects!NewSlots, Objects!RegionSlots
  <2>7. CASE k = 6
    BY <2>7 DEF JniSize, Width, Objects!JniSize, Objects!Object, Objects!NewSlots, Objects!RegionSlots
  <2>8. CASE k = 7
    BY <2>8 DEF JniSize, Width, Objects!JniSize, Objects!Object, Objects!NewSlots, Objects!RegionSlots
  <2>9. QED
    BY <2>1, <2>2, <2>3, <2>4, <2>5, <2>6, <2>7, <2>8
<1>2. Width(Objects!Object) = 4
  BY DEF Width
<1>3. Width(Objects!IntKind) = 4 /\ Width(Objects!ShortKind) = 2
  BY DEF Width, JniSize, Objects!JniSize, Objects!Object, Objects!IntKind, Objects!ShortKind
<1>4. ElementKinds \subseteq 0..7
  BY ObjectsBound DEF Objects!ObjectsAssumption
<1>5. QED
  BY <1>1, <1>2, <1>3, <1>4

LEMMA Kinds ==
  /\ Objects!Strings = {-1, -2} /\ Objects!StringUTF = -2 /\ Objects!Object = 8 /\ Objects!IntKind = 4 /\ Objects!ShortKind = 3
  /\ ElementKinds \subseteq 0..7
BY Widths DEF Objects!Strings, Objects!String, Objects!StringUTF, Objects!Object, Objects!IntKind, Objects!ShortKind

\* A new block, and a block that is changed.
LEMMA Adds ==
  ASSUME BlocksInv, NEW x, NEW v, BlockRight(x, v), Objects!New(x, v)
  PROVE  BlocksInv'
<1>1. objects' = Append(objects, x) /\ java' = Append(java, v)
  BY DEF Objects!New
<1>2. IsSeq(objects) /\ IsSeq(java) /\ Len(java) = Len(objects)
  BY DEF BlocksInv
<1>3. IsSeq(objects') /\ IsSeq(java') /\ Len(java') = Len(objects')
  BY <1>1, <1>2, MoreSeq
<1>4. ASSUME NEW o \in 1..Len(objects') PROVE BlockRight(objects'[o], java'[o])
  <2>1. CASE o \in 1..Len(objects)
    <3>1. objects'[o] = objects[o] /\ java'[o] = java[o]
      BY <1>1, <1>2, <2>1, MoreSeq
    <3>2. QED
      BY <2>1, <3>1 DEF BlocksInv
  <2>2. CASE o \notin 1..Len(objects)
    <3>1. Len(objects) \in Nat /\ Len(objects') = Len(objects) + 1
      BY <1>1, <1>2, MoreSeq
    <3>2. o = Len(objects) + 1
      BY <2>2, <3>1
    <3>3. objects'[o] = x /\ java'[o] = v
      BY <1>1, <1>2, <3>2, MoreSeq
    <3>4. QED
      BY <3>3
  <2>3. QED
    BY <2>1, <2>2
<1>5. QED
  BY <1>3, <1>4 DEF BlocksInv, BlockRight

LEMMA Alters ==
  ASSUME BlocksInv, NEW o \in 1..Len(objects), NEW b, NEW v,
         objects' = [objects EXCEPT ![o].bytes = b], java' = [java EXCEPT ![o] = v],
         BlockRight([objects[o] EXCEPT !.bytes = b], v)
  PROVE  BlocksInv'
<1>1. PICK n \in Nat : n = Len(objects) /\ n = Len(java) /\ DOMAIN objects = 1..n /\ DOMAIN java = 1..n
  BY DEF BlocksInv, IsSeq
<1>2. PICK x : x = [objects[o] EXCEPT !.bytes = b]
  OBVIOUS
<1>3. /\ objects' = [i \in 1..n |-> IF i = o THEN x ELSE objects[i]]
      /\ java' = [i \in 1..n |-> IF i = o THEN v ELSE java[i]]
  BY <1>1, <1>2
<1>4. IsSeq(objects') /\ IsSeq(java') /\ Len(java') = n /\ Len(objects') = n
  <2>1. PICK p, q : p = objects' /\ q = java'
    OBVIOUS
  <2>2. IsSeq(p) /\ Len(p) = n
    <3>1. p = [i \in 1..n |-> p[i]]
      BY <1>3, <2>1
    <3>2. QED
      BY <3>1, BuiltSeq
  <2>3. IsSeq(q) /\ Len(q) = n
    <3>1. q = [i \in 1..n |-> q[i]]
      BY <1>3, <2>1
    <3>2. QED
      BY <3>1, BuiltSeq
  <2>4. QED
    BY <2>1, <2>2, <2>3
<1>5. ASSUME NEW i \in 1..n PROVE BlockRight(objects'[i], java'[i])
  <2>1. CASE i = o
    BY <1>2, <1>3, <2>1
  <2>2. CASE i # o
    BY <1>1, <1>3, <2>2 DEF BlocksInv
  <2>3. QED
    BY <2>1, <2>2
<1>6. QED
  BY <1>4, <1>5 DEF BlocksInv, BlockRight

\* Values that are put into an array, at their place.
LEMMA Puts ==
  ASSUME BlocksInv, NEW o \in 1..Len(objects), NEW vals, IsSeq(vals), NEW from \in Nat,
         objects[o].kind \notin Objects!Strings, from + Len(vals) <= objects[o].len,
         NEW width, width = Width(objects[o].kind),
         objects' = [objects EXCEPT ![o].bytes =
                        Objects!Put(objects[o].bytes, from * width, Objects!Flat(vals, width))],
         java' = [java EXCEPT ![o] = Objects!Put(java[o], from, vals)]
  PROVE  BlocksInv'
<1>1. BlockRight(objects[o], java[o])
  BY DEF BlocksInv
<1>2. PICK x, w, v, b :
         /\ x = objects[o] /\ w = java[o] /\ v = Objects!Put(w, from, vals)
         /\ b = Objects!Put(x.bytes, from * width, Objects!Flat(vals, width))
  OBVIOUS
<1>3. IsSeq(w) /\ x.len = Len(w) /\ x.bytes = Objects!Flat(w, width) /\ width \in {1, 2, 4, 8}
  BY <1>1, <1>2, Widths DEF BlockRight
<1>4. b = Objects!Flat(v, width)
  <2>1. Objects!Put(Objects!Flat(w, width), from * width, Objects!Flat(vals, width)) =
        Objects!Flat(Objects!Put(w, from, vals), width)
    <3>1. from + Len(vals) <= Len(w)
      BY <1>2, <1>3
    <3>2. QED
      BY <1>3, <3>1, FlatPut, Zenon
  <2>2. QED
    BY <1>2, <1>3, <2>1
<1>5. IsSeq(v) /\ Len(v) = x.len
  <2>1. IsSeq(v) /\ Len(v) = Len(w)
    BY <1>2, <1>3, PutSeq, Zenon
  <2>2. QED
    BY <1>3, <2>1
<1>6. PICK y : y = [x EXCEPT !.bytes = b]
  OBVIOUS
<1>7. /\ y = [kind |-> y.kind, len |-> y.len, bytes |-> y.bytes]
      /\ y.kind = x.kind /\ y.len = x.len /\ y.bytes = b
  <2>1. x = [kind |-> x.kind, len |-> x.len, bytes |-> x.bytes]
    BY <1>1, <1>2 DEF BlockRight
  <2>2. y = [kind |-> x.kind, len |-> x.len, bytes |-> b]
    BY <1>6, <2>1
  <2>3. QED
    BY <2>2
<1>8. BlockRight(y, v)
  BY <1>1, <1>2, <1>4, <1>5, <1>7 DEF BlockRight
<1>9. QED
  BY <1>2, <1>6, <1>8, Alters

\* Nothing is all zeros.
LEMMA ZerosSeq ==
  ASSUME NEW n \in Nat
  PROVE  IsSeq([i \in 1..n |-> 0]) /\ Len([i \in 1..n |-> 0]) = n
<1>1. PICK w : w = [i \in 1..n |-> 0]
  OBVIOUS
<1>2. w = [i \in 1..n |-> w[i]]
  BY <1>1
<1>3. QED
  BY <1>1, <1>2, BuiltSeq

\* The bytes that NewString keeps of a text of 1..255 are the text.
LEMMA TextKept ==
  ASSUME NEW s \in Texts, NEW r, r = [i \in DOMAIN s |-> Objects!Narrow(s[i])]
  PROVE  /\ IsSeq(s)
         /\ (\A i \in DOMAIN s : s[i] \in 1..255) => SubSeq(r, 1, Objects!Terminated(r)) = s
<1>1. s \in Seq(Nat)
  BY ObjectsBound DEF Objects!ObjectsAssumption
<1>2. PICK n \in Nat : n = Len(s) /\ DOMAIN s = 1..n
  BY <1>1
<1>3. s = [i \in 1..n |-> s[i]]
  BY <1>1, <1>2
<1>4. IsSeq(s)
  BY <1>3, BuiltSeq
<1>5. ASSUME \A i \in DOMAIN s : s[i] \in 1..255
      PROVE  SubSeq(r, 1, Objects!Terminated(r)) = s
  <2>1. ASSUME NEW i \in 1..n PROVE s[i] % 256 = s[i] /\ s[i] # 0
    <3>1. PICK c \in 1..255 : c = s[i]
      BY <1>2, <1>5
    <3>2. c % 256 = c /\ c # 0
      OBVIOUS
    <3>3. QED
      BY <3>1, <3>2
  <2>2. r = s
    BY <1>2, <1>3, <2>1 DEF Objects!Narrow
  <2>3. PICK z : z = <<0>>
    OBVIOUS
  <2>4. IsSeq(z) /\ Len(z) = 1 /\ z[1] = 0
    <3>1. z = [i \in 1..1 |-> z[i]] /\ z[1] = 0
      BY <2>3
    <3>2. QED
      BY <3>1, BuiltSeq
  <2>5. PICK w : w = s \o z
    OBVIOUS
  <2>6. /\ Len(w) = n + 1 /\ \A i \in 1..(n + 1) : w[i] = IF i <= n THEN s[i] ELSE z[i - n]
    <3>1. /\ Len(w) = Len(s) + Len(z)
          /\ \A i \in 1..(Len(s) + Len(z)) : w[i] = IF i <= Len(s) THEN s[i] ELSE z[i - Len(s)]
      BY <1>4, <2>4, <2>5, JoinedSeq, Zenon
    <3>2. QED
      BY <1>2, <2>4, <3>1
  <2>7. {i \in 1..Len(w) : w[i] = 0} = {n + 1}
    <3>1. ASSUME NEW i \in 1..n PROVE w[i] # 0
      <4>1. w[i] = s[i]
        BY <2>6
      <4>2. QED
        BY <2>1, <4>1
    <3>2. w[n + 1] = 0
      <4>1. n + 1 \in 1..(n + 1) /\ ~(n + 1 <= n) /\ n + 1 - n = 1
        OBVIOUS
      <4>2. QED
        BY <2>4, <2>6, <4>1
    <3>3. QED
      BY <2>6, <3>1, <3>2
  <2>8. Objects!SelectInSeq(w, LAMBDA b : b = 0) = n + 1
    <3>1. Objects!Min({n + 1}) = n + 1
      BY DEF Objects!Min
    <3>2. QED
      BY <2>7, <3>1 DEF Objects!SelectInSeq
  <2>9. Objects!Terminated(r) = n
    <3>1. Objects!Terminated(r) = Objects!SelectInSeq(w, LAMBDA b : b = 0) - 1
      BY <2>2, <2>3, <2>5 DEF Objects!Terminated
    <3>2. QED
      BY <2>8, <3>1
  <2>10. SubSeq(s, 1, n) = s
    BY <1>1, <1>2, SubSeqFull
  <2>11. QED
    BY <2>2, <2>9, <2>10
<1>6. QED
  BY <1>4, <1>5

LEMMA BlocksKept ==
  ASSUME BlocksInv, UNCHANGED <<objects, java>>
  PROVE  BlocksInv'
BY DEF BlocksInv, BlockRight

\* One action of the environment at a time.
LEMMA NewArrays ==
  ASSUME BlocksInv, NEW n \in ArrayLengths,
         (\E k \in ElementKinds : Objects!NewArray(k, n)) \/ Objects!NewObjectArray(n)
  PROVE  BlocksInv'
<1>1. PICK m \in Nat : m = n
  BY ObjectsBound DEF Objects!ObjectsAssumption
<1>2. PICK z : z = [i \in 1..m |-> 0]
  OBVIOUS
<1>3. IsSeq(z) /\ Len(z) = m
  BY <1>2, ZerosSeq
<1>4. ASSUME NEW k \in ElementKinds \cup {Objects!Object}, NEW x,
             x = [kind |-> k, len |-> m, bytes |-> Objects!Flat(z, Width(k))]
      PROVE  BlockRight(x, z)
  BY <1>3, <1>4, Kinds DEF BlockRight
<1>5. CASE \E k \in ElementKinds : Objects!NewArray(k, n)
  <2>1. PICK k \in ElementKinds : Objects!NewArray(k, n)
    BY <1>5
  <2>2. Objects!NewSlots(175 + k) = Width(k)
    BY Widths
  <2>3. PICK x : x = [kind |-> k, len |-> m, bytes |-> Objects!Flat(z, Width(k))]
    OBVIOUS
  <2>4. Objects!New(x, z)
    BY <1>1, <1>2, <2>1, <2>2, <2>3 DEF Objects!NewArray, Objects!Filled
  <2>5. QED
    BY <1>4, <2>3, <2>4, Adds
<1>6. CASE Objects!NewObjectArray(n)
  <2>1. PICK x : x = [kind |-> Objects!Object, len |-> m, bytes |-> Objects!Flat(z, 4)]
    OBVIOUS
  <2>2. Objects!New(x, z)
    BY <1>1, <1>2, <1>6, <2>1 DEF Objects!NewObjectArray, Objects!Filled
  <2>3. BlockRight(x, z)
    BY <1>4, <2>1, Widths
  <2>4. QED
    BY <2>2, <2>3, Adds
<1>7. QED
  BY <1>5, <1>6

LEMMA NewListing ==
  ASSUME BlocksInv, NEW names \in Listings, Objects!asset_list(names)
  PROVE  BlocksInv'
<1>1. Len(names) \in Nat /\ MaxListed \in Nat /\ IsSeq(names)
  <2>1. names \in Seq(Objects!Range(names)) /\ MaxListed \in Nat
    BY ObjectsBound DEF Objects!ObjectsAssumption
  <2>2. names = [i \in 1..Len(names) |-> names[i]] /\ Len(names) \in Nat
    BY <2>1
  <2>3. QED
    BY <2>1, <2>2, BuiltSeq
<1>2. PICK n \in Nat : n = Objects!Least(Len(names), MaxListed) /\ n <= Len(names)
  BY <1>1 DEF Objects!Least
<1>3. PICK z : z = Objects!UpTo(names, MaxListed)
  OBVIOUS
<1>4. IsSeq(z) /\ Len(z) = n
  <2>1. z = SubSeq(names, 1, n)
    BY <1>2, <1>3 DEF Objects!UpTo
  <2>2. PICK m \in Nat : m = 1
    OBVIOUS
  <2>3. z = SubSeq(names, m, n) /\ 1 <= m /\ m <= n + 1 /\ n - m + 1 = n
    BY <2>1, <2>2
  <2>4. QED
    BY <1>1, <1>2, <2>3, PieceSeq
<1>5. PICK x : x = [kind |-> Objects!Object, len |-> Len(z), bytes |-> Objects!Flat(z, 4)]
  OBVIOUS
<1>6. Objects!New(x, z)
  BY <1>3, <1>5 DEF Objects!asset_list, Objects!ListedUpTo
<1>7. BlockRight(x, z)
  BY <1>4, <1>5, Kinds, Widths DEF BlockRight
<1>8. QED
  BY <1>6, <1>7, Adds

LEMMA NewTexts ==
  ASSUME BlocksInv, NEW s \in Texts, Objects!NewString(s) \/ Objects!NewStringUTF(s)
  PROVE  BlocksInv'
<1>1. PICK r : r = [i \in DOMAIN s |-> Objects!Narrow(s[i])]
  OBVIOUS
<1>2. /\ IsSeq(s)
      /\ (\A i \in DOMAIN s : s[i] \in 1..255) => SubSeq(r, 1, Objects!Terminated(r)) = s
  BY <1>1, TextKept
<1>3. ASSUME NEW k \in Objects!Strings, NEW b,
             Objects!New([kind |-> k, len |-> Len(s), bytes |-> b], s),
             k = Objects!StringUTF \/ (\A i \in DOMAIN s : s[i] \in 1..255) => b = s
      PROVE  BlocksInv'
  <2>1. PICK x : x = [kind |-> k, len |-> Len(s), bytes |-> b]
    OBVIOUS
  <2>2. BlockRight(x, s)
    BY <1>2, <1>3, <2>1 DEF BlockRight
  <2>3. QED
    BY <1>3, <2>1, <2>2, Adds
<1>4. CASE Objects!NewString(s)
  <2>1. PICK b : b = SubSeq(r, 1, Objects!Terminated(r))
    OBVIOUS
  <2>2. Objects!New([kind |-> Objects!String, len |-> Len(s), bytes |-> b], s)
    BY <1>1, <1>4, <2>1 DEF Objects!NewString
  <2>3. Objects!String \in Objects!Strings /\ Objects!String # Objects!StringUTF
    BY DEF Objects!Strings, Objects!String, Objects!StringUTF
  <2>4. QED
    BY <1>2, <1>3, <2>1, <2>2, <2>3
<1>5. CASE Objects!NewStringUTF(s)
  <2>1. Objects!New([kind |-> Objects!StringUTF, len |-> Len(s), bytes |-> s], s)
    BY <1>5 DEF Objects!NewStringUTF
  <2>2. Objects!StringUTF \in Objects!Strings
    BY DEF Objects!Strings
  <2>3. QED
    BY <1>3, <2>1, <2>2
<1>6. QED
  BY <1>4, <1>5

LEMMA ElementPut ==
  ASSUME BlocksInv, NEW o \in DOMAIN objects, NEW i \in 0..1, NEW v \in Elements,
         \/ Objects!WriteElement(o, i, v) \/ Objects!SetObjectArrayElement(o, i, v)
         \/ Objects!EglQuery(o, v)
  PROVE  BlocksInv'
<1>1. o \in 1..Len(objects) /\ BlockRight(objects[o], java[o])
  BY DEF BlocksInv, IsSeq
<1>2. PICK one : one = <<v>> /\ IsSeq(one) /\ Len(one) = 1
  BY BytesFlat
<1>3. \A width \in {1, 2, 4, 8} : Objects!Bytes(v, width) = Objects!Flat(one, width)
  BY <1>2, BytesFlat
<1>4. objects[o].len \in Nat
  BY <1>1 DEF BlockRight, IsSeq
<1>5. CASE Objects!WriteElement(o, i, v)
  <2>1. PICK width : width = JniSize(objects[o].kind)
    OBVIOUS
  <2>2. /\ width = Width(objects[o].kind) /\ width \in {1, 2, 4, 8}
        /\ objects[o].kind \notin Objects!Strings /\ i < objects[o].len
    BY <1>5, <2>1, Widths, Kinds DEF Objects!WriteElement
  <2>3. /\ objects' = [objects EXCEPT ![o].bytes =
                          Objects!Put(objects[o].bytes, i * width, Objects!Flat(one, width))]
        /\ java' = [java EXCEPT ![o] = Objects!Put(java[o], i, one)]
    BY <1>1, <1>2, <1>3, <1>5, <2>1, <2>2 DEF Objects!WriteElement, Objects!g_elems, JniSize, BlocksInv, IsSeq
  <2>4. i + Len(one) <= objects[o].len /\ i \in Nat
    BY <1>2, <1>4, <2>2
  <2>5. QED
    BY <1>1, <1>2, <2>2, <2>3, <2>4, Puts
<1>6. CASE Objects!SetObjectArrayElement(o, i, v)
  <2>1. objects[o].kind = Objects!Object /\ i < objects[o].len /\ objects[o].kind \notin Objects!Strings
    BY <1>6, Kinds DEF Objects!SetObjectArrayElement
  <2>2. PICK width \in {1, 2, 4, 8} : width = 4 /\ width = Width(objects[o].kind)
    BY <2>1, Widths
  <2>3. /\ objects' = [objects EXCEPT ![o].bytes =
                          Objects!Put(objects[o].bytes, i * width, Objects!Flat(one, width))]
        /\ java' = [java EXCEPT ![o] = Objects!Put(java[o], i, one)]
    <3>1. i * width = 4 * i /\ Objects!Bytes(v, 4) = Objects!Flat(one, width)
      BY <1>3, <2>2
    <3>2. QED
      BY <1>1, <1>2, <1>6, <3>1 DEF Objects!SetObjectArrayElement, BlocksInv, IsSeq
  <2>4. i + Len(one) <= objects[o].len /\ i \in Nat
    BY <1>2, <1>4, <2>1
  <2>5. QED
    BY <1>1, <1>2, <2>1, <2>2, <2>3, <2>4, Puts
<1>7. CASE Objects!EglQuery(o, v)
  <2>1. CASE objects[o].len > 0
    <3>1. objects[o].kind = Objects!IntKind /\ objects[o].kind \notin Objects!Strings
      BY <1>7, Kinds DEF Objects!EglQuery
    <3>2. PICK width \in {1, 2, 4, 8} : width = 4 /\ width = Width(objects[o].kind)
      BY <3>1, Widths
    <3>3. PICK from \in Nat : from = 0
      OBVIOUS
    <3>4. /\ objects' = [objects EXCEPT ![o].bytes =
                            Objects!Put(objects[o].bytes, from * width, Objects!Flat(one, width))]
          /\ java' = [java EXCEPT ![o] = Objects!Put(java[o], from, one)]
      <4>1. from * width = 0 /\ Objects!Bytes(v, 4) = Objects!Flat(one, width)
        BY <1>3, <3>2, <3>3
      <4>2. QED
        BY <1>1, <1>2, <1>7, <2>1, <3>3, <4>1 DEF Objects!EglQuery, BlocksInv, IsSeq
    <3>5. from + Len(one) <= objects[o].len
      BY <1>2, <1>4, <2>1, <3>3
    <3>6. QED
      BY <1>1, <1>2, <3>1, <3>2, <3>4, <3>5, Puts
  <2>2. CASE ~(objects[o].len > 0)
    BY <1>7, <2>2, BlocksKept DEF Objects!EglQuery
  <2>3. QED
    BY <2>1, <2>2
<1>8. QED
  BY <1>5, <1>6, <1>7

LEMMA RegionPut ==
  ASSUME BlocksInv, NEW o \in DOMAIN objects, NEW i \in 0..1, NEW vals, IsSeq(vals),
         Objects!SetRegion(o, i, vals)
  PROVE  BlocksInv'
<1>1. o \in 1..Len(objects) /\ BlockRight(objects[o], java[o])
  BY DEF BlocksInv, IsSeq
<1>2. PICK k \in ElementKinds : k = objects[o].kind
  BY DEF Objects!SetRegion
<1>3. PICK width \in {1, 2, 4, 8} : width = JniSize(k) /\ width = Width(k) /\ width = Objects!RegionSlots(207 + k)
  BY Widths
<1>4. PICK data : data = Objects!Flat(vals, width)
  OBVIOUS
<1>5. SubSeq(data, 1, Len(vals) * width) = data
  <2>1. IsSeq(data) /\ Len(data) = Len(vals) * width
    BY <1>4, FlatSeq
  <2>2. QED
    BY <2>1, SubSeqFull DEF IsSeq
<1>6. /\ objects' = [objects EXCEPT ![o].bytes = Objects!Put(objects[o].bytes, i * width, data)]
      /\ java' = [java EXCEPT ![o] = Objects!Put(java[o], i, vals)]
      /\ i + Len(vals) <= objects[o].len
  BY <1>1, <1>2, <1>3, <1>4, <1>5 DEF Objects!SetRegion, JniSize, BlocksInv, IsSeq
<1>7. k \notin Objects!Strings /\ i \in Nat
  BY Kinds
<1>8. QED
  BY <1>1, <1>2, <1>3, <1>4, <1>6, <1>7, Puts

\* Bytes of a block from one element to another.
LEMMA FlatPiece ==
  ASSUME NEW w, IsSeq(w), NEW width \in {1, 2, 4, 8}, NEW i \in 0..Len(w)
  PROVE  SubSeq(Objects!Flat(w, width), i * width + 1, i * width + (Len(w) - i) * width) =
         SubSeq(Objects!Flat(w, width), i * width + 1, Len(Objects!Flat(w, width)))
<1>1. Len(Objects!Flat(w, width)) = Len(w) * width /\ Len(w) \in Nat
  BY FlatSeq
<1>2. i * width + (Len(w) - i) * width = Len(w) * width
  BY <1>1
<1>3. QED
  BY <1>1, <1>2

LEMMA BlocksMeant == BlocksInv => Objects!ObjectsKept
<1> SUFFICES ASSUME BlocksInv PROVE Objects!ObjectsKept
  OBVIOUS
<1>1. ASSUME NEW o \in DOMAIN objects
      PROVE  CASE objects[o].kind \in Objects!Strings -> Objects!StringKept(o)
               [] objects[o].kind = Objects!Object -> Objects!ReferencesKept(o)
               [] OTHER -> Objects!ElementsKept(o)
  <2>1. PICK x, w : x = objects[o] /\ w = java[o] /\ BlockRight(x, w)
    BY DEF BlocksInv, IsSeq
  <2>2. IsSeq(w) /\ Len(w) \in Nat /\ DOMAIN w = 1..Len(w) /\ x.len = Len(w)
    BY <2>1 DEF BlockRight, IsSeq
  <2>3. CASE x.kind \in Objects!Strings
    <3>1. x.kind = Objects!StringUTF \/ (\A i \in DOMAIN w : w[i] \in 1..255) => x.bytes = w
      BY <2>1, <2>3 DEF BlockRight
    <3>5. /\ (\A i \in DOMAIN w : w[i] \in 1..127) => \A i \in DOMAIN w : w[i] \in 1..255
          /\ 128 - 1 = 127 /\ 256 - 1 = 255
      OBVIOUS
    <3>6. \A from \in 0..Len(w) : from + (Len(w) - from) = Len(w)
      BY <2>2
    <3>2. Objects!StringKept(o)
      BY <2>1, <3>1, <3>5, <3>6
      DEF Objects!StringKept, Objects!GetStringChars, Objects!GetStringLength,
          Objects!GetStringUTFChars, Objects!GetStringUTFLength, Objects!GetStringUTFRegion
    <3>3. x.kind # Objects!Object
      BY <2>3, Kinds
    <3>4. QED
      BY <2>1, <2>3, <3>2, <3>3
  <2>4. CASE x.kind = Objects!Object
    <3>1. x.kind \notin Objects!Strings
      BY <2>4, Kinds
    <3>2. PICK width \in {1, 2, 4, 8} : width = 4
      OBVIOUS
    <3>3. x.bytes = Objects!Flat(w, width)
      BY <2>1, <2>4, <3>1, <3>2, Widths DEF BlockRight
    <3>4. ASSUME NEW i \in DOMAIN w PROVE Objects!GetObjectArrayElement(o, i - 1) = Objects!Bytes(w[i], 4)
      <4>1. PICK a \in 0..(Len(w) - 1) : a = i - 1
        BY <2>2
      <4>2. PICK b : b = Objects!Flat(w, width) /\ IsSeq(b) /\ Len(b) = Len(w) * width
        BY <2>2, FlatSeq
      <4>3. PICK from \in Nat, four \in Nat : from = 4 * a /\ four = 4
        OBVIOUS
      <4>4. from + four <= Len(b)
        BY <2>2, <3>2, <4>2, <4>3
      <4>5. PICK p : p = SubSeq(b, from + 1, from + four)
        OBVIOUS
      <4>6. IsSeq(p) /\ Len(p) = four /\ \A c \in 1..four : p[c] = b[from + c]
        <5>1. PICK m \in Nat, e \in Nat : m = from + 1 /\ e = from + four
          OBVIOUS
        <5>2. p = SubSeq(b, m, e) /\ 1 <= m /\ m <= e + 1 /\ e <= Len(b) /\ e - m + 1 = four
          BY <4>4, <4>5, <5>1
        <5>3. IsSeq(b) /\ 1 <= m /\ m <= e + 1 /\ e <= Len(b)
          BY <4>2, <5>2
        <5>4. /\ IsSeq(SubSeq(b, m, e)) /\ Len(SubSeq(b, m, e)) = e - m + 1
              /\ \A c \in 1..(e - m + 1) : SubSeq(b, m, e)[c] = b[m + c - 1]
          BY <5>3, PieceSeq, Zenon
        <5>5. IsSeq(p) /\ Len(p) = e - m + 1 /\ \A c \in 1..(e - m + 1) : p[c] = b[m + c - 1]
          BY <5>2, <5>4, Zenon
        <5>6. QED
          BY <5>1, <5>2, <5>5
      <4>7. ASSUME NEW c \in 1..four PROVE p[c] = <<w[i], c>>
        <5>1. c \in 1..width /\ a * width + c = from + c /\ a + 1 = i
          BY <2>2, <3>2, <4>1, <4>3
        <5>2. b[a * width + c] = <<w[a + 1], c>>
          <6>1. Objects!Flat(w, width)[a * width + c] = <<w[a + 1], c>>
            BY <2>2, <5>1, FlatAt, Zenon
          <6>2. QED
            BY <4>2, <6>1
        <5>3. QED
          BY <4>6, <5>1, <5>2
      <4>8. PICK y : y = Objects!Bytes(w[i], 4)
        OBVIOUS
      <4>9. y = [c \in 1..four |-> <<w[i], c>>]
        BY <4>3, <4>8 DEF Objects!Bytes
      <4>10. IsSeq(y) /\ Len(y) = four
        <5>1. y = [c \in 1..four |-> y[c]]
          BY <4>9
        <5>2. QED
          BY <5>1, BuiltSeq
      <4>11. p = y
        BY <4>6, <4>7, <4>9, <4>10, SameSeq
      <4>12. Objects!GetObjectArrayElement(o, i - 1) = p
        BY <2>1, <3>3, <4>1, <4>2, <4>3, <4>5 DEF Objects!GetObjectArrayElement, Objects!Read
      <4>13. QED
        BY <4>8, <4>11, <4>12
    <3>5. Objects!ReferencesKept(o)
      BY <2>1, <2>2, <3>4 DEF Objects!ReferencesKept
    <3>6. QED
      BY <2>1, <2>4, <3>1, <3>5
  <2>5. CASE x.kind \in ElementKinds
    <3>1. x.kind \notin Objects!Strings /\ x.kind # Objects!Object
      BY <2>5, Kinds
    <3>2. PICK width \in {1, 2, 4, 8} :
             /\ width = Objects!JniSize[x.kind + 1] /\ width = Width(x.kind)
             /\ width = Objects!RegionSlots(199 + x.kind)
      BY <2>5, Widths DEF JniSize
    <3>3. PICK b : b = Objects!Flat(w, width) /\ x.bytes = b
      BY <2>1, <3>1, <3>2 DEF BlockRight
    <3>4. ASSUME NEW i \in 0..x.len
          PROVE  Objects!GetRegion(o, i, x.len - i) = SubSeq(b, i * width + 1, Len(b))
      <4>1. Objects!GetRegion(o, i, x.len - i) = SubSeq(b, i * width + 1, i * width + (x.len - i) * width)
        BY <2>1, <3>2, <3>3 DEF Objects!GetRegion, Objects!Read
      <4>2. QED
        BY <2>2, <3>3, <4>1, FlatPiece
    <3>5. Objects!ElementsKept(o)
      BY <2>1, <3>2, <3>3, <3>4 DEF Objects!ElementsKept, Objects!g_elems
    <3>6. QED
      BY <2>1, <3>1, <3>5
  <2>6. QED
    BY <2>1, <2>3, <2>4, <2>5 DEF BlockRight
<1>2. QED
  BY <1>1 DEF Objects!ObjectsKept

\* The samples that are owed lie in the grain and in the write's buffer; once a
\* copy is made, what it copied counts to the grain.
Grain == 2 * AUDIO_GRAIN
Copied == IF write.at = "add" THEN audio_fill + write.take ELSE audio_fill
AudioInv ==
    /\ port \in {Objects!NoPort, 1} /\ lost = FALSE
    /\ IsSeq(audio_buf) /\ Len(audio_buf) = Grain /\ IsSeq(due)
    /\ audio_fill \in 0..(Grain - 1)
    /\ write = [at |-> write.at, src |-> write.src, take |-> write.take]
    /\ write.at \in {"idle", "take", "copy", "add"} /\ IsSeq(write.src) /\ write.take \in Nat
    /\ write.at = "idle" => write.src = <<>>
    /\ write.at \in {"copy", "add"} =>
          audio_fill + write.take <= Grain /\ write.take <= Len(write.src)
    /\ ~stopped => /\ Len(due) = audio_fill + Len(write.src)
                   /\ \A i \in 1..Len(due) :
                         due[i] = IF i <= Copied THEN audio_buf[i] ELSE write.src[i - audio_fill]

\* What is left of a sequence behind a place.
LEMMA RestSeq ==
  ASSUME NEW w, IsSeq(w), NEW a \in Nat
  PROVE  /\ IsSeq(SubSeq(w, a + 1, Len(w)))
         /\ a <= Len(w) => /\ Len(SubSeq(w, a + 1, Len(w))) = Len(w) - a
                           /\ \A i \in 1..(Len(w) - a) : SubSeq(w, a + 1, Len(w))[i] = w[a + i]
<1>1. w \in Seq(Range(w)) /\ Len(w) \in Nat
  BY DEF IsSeq
<1>2. PICK m \in Nat, e \in Nat : m = a + 1 /\ e = Len(w)
  BY <1>1
<1>3. \A i \in m..e : w[i] \in Range(w)
  BY <1>1, <1>2
<1>4. PICK p : p = SubSeq(w, m, e)
  OBVIOUS
<1>5. /\ p \in Seq(Range(w)) /\ Len(p) = IF m <= e THEN e - m + 1 ELSE 0
      /\ \A i \in 1..(e - m + 1) : p[i] = w[m + i - 1]
  BY <1>2, <1>3, <1>4, SubSeqProperties
<1>6. IsSeq(p)
  <2>1. p = [i \in 1..Len(p) |-> p[i]] /\ Len(p) \in Nat
    BY <1>5
  <2>2. QED
    BY <2>1, BuiltSeq
<1>7. QED
  BY <1>2, <1>4, <1>5, <1>6

LEMMA GrainNat == AUDIO_GRAIN \in Nat \ {0} /\ Grain \in Nat \ {0}
BY ObjectsBound DEF Objects!ObjectsAssumption, Grain

\* The samples of a short[] that a write takes are those that Java put there.
LEMMA SamplesThere ==
  ASSUME BlocksInv, NEW o \in DOMAIN objects, NEW from \in Nat, NEW n \in Nat,
         objects[o].kind = Objects!ShortKind, from + n <= objects[o].len
  PROVE  /\ IsSeq(SubSeq(java[o], from + 1, from + n))
         /\ Len(SubSeq(java[o], from + 1, from + n)) = n
         /\ \A i \in 1..n : /\ SubSeq(java[o], from + 1, from + n)[i] = java[o][from + i]
                            /\ objects[o].bytes[2 * (from + i)][1] = java[o][from + i]
<1>1. PICK x, w : x = objects[o] /\ w = java[o] /\ BlockRight(x, w)
  BY DEF BlocksInv, IsSeq
<1>2. PICK width \in {1, 2, 4, 8} : width = 2 /\ width = Width(x.kind)
  BY <1>1, Widths
<1>3. IsSeq(w) /\ Len(w) = x.len /\ Len(w) \in Nat /\ x.bytes = Objects!Flat(w, width)
  BY <1>1, <1>2, Kinds DEF BlockRight, IsSeq
<1>4. from + n <= Len(w)
  BY <1>1, <1>3
<1>5. PICK p : p = SubSeq(w, from + 1, from + n)
  OBVIOUS
<1>6. IsSeq(p) /\ Len(p) = n /\ \A i \in 1..n : p[i] = w[from + i]
  <2>1. PICK m \in Nat, e \in Nat : m = from + 1 /\ e = from + n
    OBVIOUS
  <2>2. p = SubSeq(w, m, e) /\ 1 <= m /\ m <= e + 1 /\ e <= Len(w) /\ e - m + 1 = n
    BY <1>4, <1>5, <2>1
  <2>3. IsSeq(p) /\ Len(p) = e - m + 1 /\ \A i \in 1..(e - m + 1) : p[i] = w[m + i - 1]
    <3>1. /\ IsSeq(SubSeq(w, m, e)) /\ Len(SubSeq(w, m, e)) = e - m + 1
          /\ \A i \in 1..(e - m + 1) : SubSeq(w, m, e)[i] = w[m + i - 1]
      <4>1. IsSeq(w)
        BY <1>3
      <4>2. 1 <= m /\ m <= e + 1 /\ e <= Len(w)
        BY <2>2
      <4>3. QED
        BY <4>1, <4>2, PieceSeq
    <3>2. QED
      BY <2>2, <3>1
  <2>4. QED
    BY <2>1, <2>2, <2>3
<1>7. ASSUME NEW i \in 1..n PROVE x.bytes[2 * (from + i)][1] = w[from + i]
  <2>1. PICK a \in 0..(Len(w) - 1) : a = from + i - 1
    <3>1. from + i - 1 \in 0..(Len(w) - 1)
      BY <1>3, <1>4
    <3>2. QED
      BY <3>1
  <2>2. PICK c \in 1..width : c = 2
    BY <1>2
  <2>3. Objects!Flat(w, width)[a * width + c] = <<w[a + 1], c>>
    BY <1>3, FlatAt
  <2>4. a * width + c = 2 * (from + i) /\ a + 1 = from + i
    BY <1>2, <2>1, <2>2
  <2>5. x.bytes[2 * (from + i)] = <<w[from + i], c>>
    BY <1>3, <2>3, <2>4
  <2>6. QED
    BY <2>5
<1>8. QED
  BY <1>1, <1>5, <1>6, <1>7

LEMMA NoneSeq == IsSeq(<<>>) /\ Len(<<>>) = 0
<1>1. PICK e : e = <<>>
  OBVIOUS
<1>2. PICK n \in Nat : n = 0
  OBVIOUS
<1>3. e = [i \in 1..n |-> e[i]]
  BY <1>1, <1>2
<1>4. IsSeq(e) /\ Len(e) = n
  BY <1>3, BuiltSeq
<1>5. QED
  BY <1>1, <1>2, <1>4

LEMMA WriteAudio ==
  ASSUME BlocksInv, AudioInv, NEW o \in DOMAIN objects, NEW from \in 0..1, NEW n \in ArrayLengths,
         Objects!AudioWrite(o, from, n)
  PROVE  BlocksInv' /\ AudioInv'
<1>1. BlocksInv'
  BY BlocksKept DEF Objects!AudioWrite, Objects!objectVars
<1>2. /\ write = Objects!Idle /\ port' \in {Objects!NoPort, 1}
      /\ UNCHANGED <<audio_buf, audio_fill, lost, stopped>>
  BY DEF Objects!AudioWrite, AudioInv
<1>3. n \in Nat
  BY ObjectsBound DEF Objects!ObjectsAssumption
<1>4. write.src = <<>> /\ write.at = "idle" /\ write.take = 0
  BY <1>2 DEF Objects!Idle
<1>5. CASE UNCHANGED <<write, due>>
  BY <1>1, <1>2, <1>5 DEF AudioInv, Copied
<1>6. CASE ~UNCHANGED <<write, due>>
  <2>1. PICK src, more :
           /\ src = [i \in 1..n |-> objects[o].bytes[2 * (from + i)][1]]
           /\ more = SubSeq(java[o], from + 1, from + n)
    OBVIOUS
  <2>2. /\ objects[o].kind = Objects!ShortKind /\ from + n <= objects[o].len
        /\ write' = [Objects!Idle EXCEPT !.at = "take", !.src = src]
        /\ due' = due \o more
    BY <1>6, <2>1 DEF Objects!AudioWrite
  <2>3. /\ IsSeq(src) /\ Len(src) = n /\ IsSeq(more) /\ Len(more) = n
        /\ \A i \in 1..n : src[i] = more[i]
    <3>1. PICK a \in Nat : a = from
      OBVIOUS
    <3>2. objects[o].kind = Objects!ShortKind /\ a + n <= objects[o].len
      BY <2>2, <3>1
    <3>3. PICK w, b : w = java[o] /\ b = objects[o].bytes
      OBVIOUS
    <3>4. /\ IsSeq(SubSeq(w, a + 1, a + n)) /\ Len(SubSeq(w, a + 1, a + n)) = n
          /\ \A i \in 1..n : /\ SubSeq(w, a + 1, a + n)[i] = w[a + i]
                             /\ b[2 * (a + i)][1] = w[a + i]
      BY <1>3, <3>2, <3>3, SamplesThere
    <3>5. more = SubSeq(w, a + 1, a + n) /\ src = [i \in 1..n |-> b[2 * (a + i)][1]]
      BY <2>1, <3>1, <3>3
    <3>6. IsSeq(src) /\ Len(src) = n
      <4>1. src = [i \in 1..n |-> src[i]]
        BY <3>5
      <4>2. QED
        BY <1>3, <4>1, BuiltSeq
    <3>7. QED
      BY <3>4, <3>5, <3>6
  <2>4. write' = [at |-> "take", src |-> src, take |-> 0]
    BY <2>2 DEF Objects!Idle
  <2>5. write'.at = "take" /\ write'.src = src /\ write'.take = 0
    BY <2>4
  <2>6. /\ IsSeq(due') /\ Len(due') = Len(due) + n /\ Len(due) \in Nat
        /\ \A i \in 1..(Len(due) + n) : due'[i] = IF i <= Len(due) THEN due[i] ELSE more[i - Len(due)]
    <3>1. PICK v, p : v = due /\ p = v \o more /\ due' = p
      BY <2>2
    <3>2. IsSeq(v)
      BY <3>1 DEF AudioInv
    <3>3. /\ IsSeq(p) /\ Len(p) = Len(v) + n /\ Len(v) \in Nat
          /\ \A i \in 1..(Len(v) + n) : p[i] = IF i <= Len(v) THEN v[i] ELSE more[i - Len(v)]
      BY <2>3, <3>1, <3>2, JoinedSeq
    <3>4. QED
      BY <3>1, <3>3
  <2>7. ASSUME ~stopped
        PROVE  /\ Len(due') = audio_fill + Len(src)
               /\ \A i \in 1..Len(due') : due'[i] = IF i <= audio_fill THEN audio_buf[i] ELSE src[i - audio_fill]
    <3>1. Len(due) = audio_fill /\ \A i \in 1..Len(due) : due[i] = audio_buf[i]
      <4>1. Len(due) = audio_fill + Len(write.src) /\ audio_fill \in Nat
        BY <2>7, GrainNat DEF AudioInv
      <4>2. Len(due) = audio_fill
        BY <1>4, <4>1, NoneSeq
      <4>3. \A i \in 1..Len(due) : due[i] = IF i <= audio_fill THEN audio_buf[i] ELSE write.src[i - audio_fill]
        BY <1>4, <2>7 DEF AudioInv, Copied
      <4>4. QED
        BY <4>1, <4>2, <4>3
    <3>2. QED
      BY <1>3, <2>3, <2>6, <3>1
  <2>8. /\ write' = [at |-> write'.at, src |-> write'.src, take |-> write'.take]
        /\ ~stopped' => /\ Len(due') = audio_fill' + Len(write'.src)
                        /\ \A i \in 1..Len(due') :
                              due'[i] = IF i <= Copied' THEN audio_buf'[i] ELSE write'.src[i - audio_fill']
    BY <1>2, <2>4, <2>5, <2>7 DEF Copied
  <2>9. QED
    BY <1>1, <1>2, <2>3, <2>5, <2>6, <2>8 DEF AudioInv
<1>7. QED
  BY <1>1, <1>5, <1>6

LEMMA TakeAudio == ASSUME AudioInv, Objects!AudioTake PROVE AudioInv'
<1>1. /\ write.at = "take"
      /\ UNCHANGED <<port, audio_buf, audio_fill, due, lost, stopped>>
  BY DEF Objects!AudioTake
<1>2. audio_fill \in Nat /\ audio_fill < Grain /\ Len(write.src) \in Nat /\ Grain \in Nat
  BY GrainNat DEF AudioInv, IsSeq
<1>3. PICK src, k : src = write.src /\ k = Objects!Least(Grain - audio_fill, Len(src))
  OBVIOUS
<1>4. k \in Nat /\ audio_fill + k <= Grain /\ k <= Len(src)
  BY <1>2, <1>3 DEF Objects!Least
<1>5. CASE write.src = <<>>
  <2>1. write' = [at |-> "idle", src |-> <<>>, take |-> 0]
    BY <1>5 DEF Objects!AudioTake, Objects!Idle
  <2>2. write'.at = "idle" /\ write'.src = write.src /\ write'.take = 0
    BY <1>5, <2>1
  <2>3. /\ write' = [at |-> write'.at, src |-> write'.src, take |-> write'.take]
        /\ write'.src = <<>> /\ Copied' = Copied
    BY <1>1, <1>5, <2>1, <2>2 DEF Copied
  <2>4. QED
    BY <1>1, <2>2, <2>3 DEF AudioInv
<1>6. CASE write.src # <<>>
  <2>1. write' = [at |-> "copy", src |-> src, take |-> k]
    BY <1>3, <1>6 DEF Objects!AudioTake, AudioInv, Grain
  <2>2. write'.at = "copy" /\ write'.src = write.src /\ write'.take = k
    BY <1>3, <2>1
  <2>3. /\ write' = [at |-> write'.at, src |-> write'.src, take |-> write'.take]
        /\ Copied' = Copied
    BY <1>1, <2>1, <2>2 DEF Copied
  <2>4. audio_fill' + write'.take <= Grain /\ write'.take <= Len(write'.src) /\ write'.take \in Nat
    BY <1>1, <1>3, <1>4, <2>2
  <2>5. QED
    BY <1>1, <2>2, <2>3, <2>4 DEF AudioInv, Grain
<1>7. QED
  BY <1>5, <1>6

LEMMA CopyAudio == ASSUME AudioInv, Objects!AudioCopy PROVE AudioInv'
<1>1. /\ write.at = "copy"
      /\ UNCHANGED <<port, audio_fill, due, lost, stopped>>
  BY DEF Objects!AudioCopy
<1>2. PICK src, k : src = write.src /\ k = write.take
  OBVIOUS
<1>3. /\ k \in Nat /\ audio_fill \in Nat /\ audio_fill + k <= Grain /\ k <= Len(src)
      /\ Len(src) \in Nat /\ Grain \in Nat /\ Len(due) \in Nat
  BY <1>1, <1>2, GrainNat DEF AudioInv, IsSeq
<1>4. PICK n \in Nat : n = Grain /\ DOMAIN audio_buf = 1..n
  BY <1>3 DEF AudioInv, IsSeq
<1>5. audio_buf' = [i \in 1..n |-> IF i \in (audio_fill + 1)..(audio_fill + k)
                                   THEN src[i - audio_fill] ELSE audio_buf[i]]
  BY <1>2, <1>4 DEF Objects!AudioCopy
<1>6. IsSeq(audio_buf') /\ Len(audio_buf') = n
  <2>1. PICK p : p = audio_buf'
    OBVIOUS
  <2>2. p = [i \in 1..n |-> p[i]]
    BY <1>5, <2>1
  <2>3. QED
    BY <2>1, <2>2, BuiltSeq
<1>7. write' = [at |-> "add", src |-> src, take |-> k]
  BY <1>2 DEF Objects!AudioCopy, AudioInv
<1>8. write'.at = "add" /\ write'.src = src /\ write'.take = k
  BY <1>7
<1>9. Copied' = audio_fill + k /\ Copied = audio_fill
  BY <1>1, <1>8 DEF Copied
<1>10. ASSUME ~stopped
       PROVE  /\ Len(due) = audio_fill + Len(src)
              /\ \A i \in 1..Len(due) : due[i] = IF i <= audio_fill + k THEN audio_buf'[i] ELSE src[i - audio_fill]
  <2>1. /\ Len(due) = audio_fill + Len(src)
        /\ \A i \in 1..Len(due) : due[i] = IF i <= audio_fill THEN audio_buf[i] ELSE src[i - audio_fill]
    BY <1>2, <1>9, <1>10 DEF AudioInv
  <2>2. QED
    BY <1>3, <1>4, <1>5, <2>1
<1>11. /\ write' = [at |-> write'.at, src |-> write'.src, take |-> write'.take]
       /\ ~stopped' => /\ Len(due') = audio_fill' + Len(write'.src)
                       /\ \A i \in 1..Len(due') :
                             due'[i] = IF i <= Copied' THEN audio_buf'[i] ELSE write'.src[i - audio_fill']
  BY <1>1, <1>7, <1>8, <1>9, <1>10
<1>12. IsSeq(write'.src)
  BY <1>2, <1>8 DEF AudioInv
<1>13. QED
  BY <1>1, <1>3, <1>4, <1>6, <1>8, <1>11, <1>12 DEF AudioInv, Grain

LEMMA AddAudio == ASSUME AudioInv, Objects!AudioAdd PROVE AudioInv'
<1>1. write.at = "add" /\ UNCHANGED <<port, audio_buf, stopped>>
  BY DEF Objects!AudioAdd, Objects!AudioAddUpTo
<1>2. PICK src, k : src = write.src /\ k = write.take
  OBVIOUS
<1>3. /\ IsSeq(src) /\ k \in Nat /\ audio_fill \in Nat /\ audio_fill + k <= Grain /\ k <= Len(src)
      /\ Len(src) \in Nat /\ Grain \in Nat /\ Len(due) \in Nat /\ Grain # 0
  BY <1>1, <1>2, GrainNat DEF AudioInv, IsSeq
<1>4. PICK fill \in Nat : fill = audio_fill + k
  BY <1>3
<1>5. PICK rest : rest = SubSeq(src, k + 1, Len(src))
  OBVIOUS
<1>6. IsSeq(rest) /\ Len(rest) = Len(src) - k /\ \A i \in 1..(Len(src) - k) : rest[i] = src[k + i]
  BY <1>3, <1>5, RestSeq
<1>7. write' = [at |-> "take", src |-> rest, take |-> 0]
  BY <1>2, <1>5 DEF Objects!AudioAdd, Objects!AudioAddUpTo, AudioInv
<1>8. write'.at = "take" /\ write'.src = rest /\ write'.take = 0 /\ Copied' = audio_fill'
  BY <1>7 DEF Copied
<1>9. write' = [at |-> write'.at, src |-> write'.src, take |-> write'.take]
  BY <1>7, <1>8
<1>10. ASSUME ~stopped
       PROVE  /\ Len(due) = audio_fill + Len(src)
              /\ \A i \in 1..Len(due) : due[i] = IF i <= fill THEN audio_buf[i] ELSE src[i - audio_fill]
  BY <1>1, <1>2, <1>4, <1>10 DEF AudioInv, Copied
<1>11. CASE fill = Grain
  <2>1. /\ audio_fill' = 0 /\ lost' = (lost \/ (~stopped /\ ~Objects!IsPrefix(audio_buf, due)))
        /\ due' = SubSeq(due, Grain + 1, Len(due))
    BY <1>2, <1>4, <1>11 DEF Objects!AudioAdd, Objects!AudioAddUpTo, Grain
  <2>2. PICK p : p = SubSeq(due, Grain + 1, Len(due))
    OBVIOUS
  <2>3. /\ IsSeq(p)
        /\ Grain <= Len(due) => /\ Len(p) = Len(due) - Grain
                                /\ \A i \in 1..(Len(due) - Grain) : p[i] = due[Grain + i]
    <3>1. IsSeq(due) /\ Grain \in Nat
      BY <1>3 DEF AudioInv
    <3>2. QED
      BY <2>2, <3>1, RestSeq
  <2>4. ASSUME ~stopped
        PROVE  /\ Len(p) = Len(rest) /\ \A i \in 1..Len(p) : p[i] = rest[i]
               /\ Objects!IsPrefix(audio_buf, due)
    <3>1. Grain <= Len(due) /\ Len(due) - Grain = Len(src) - k
      BY <1>3, <1>4, <1>10, <1>11, <2>4
    <3>2. \A i \in 1..Len(p) : p[i] = rest[i]
      <4>1. ASSUME NEW i \in 1..Len(p) PROVE p[i] = rest[i]
        <5>1. i \in 1..(Len(due) - Grain) /\ i \in 1..(Len(src) - k)
          BY <2>3, <3>1
        <5>2. PICK j : j = Grain + i
          OBVIOUS
        <5>3. j \in 1..Len(due) /\ ~(j <= fill) /\ j - audio_fill = k + i
          BY <1>3, <1>4, <1>11, <3>1, <5>1, <5>2
        <5>4. due[j] = src[j - audio_fill]
          BY <1>10, <2>4, <5>3
        <5>5. QED
          BY <1>6, <2>3, <3>1, <5>1, <5>2, <5>3, <5>4
      <4>2. QED
        BY <4>1
    <3>3. Objects!IsPrefix(audio_buf, due)
      <4>1. IsSeq(audio_buf) /\ Len(audio_buf) = Grain /\ IsSeq(due)
        BY DEF AudioInv
      <4>2. PICK m \in Nat, n \in Nat : m = 1 /\ n = Grain /\ m <= n + 1 /\ n - m + 1 = n
        BY <1>3
      <4>3. PICK v, w : v = SubSeq(audio_buf, m, n) /\ w = SubSeq(due, m, n)
        OBVIOUS
      <4>4. n <= Len(audio_buf) /\ n <= Len(due) /\ 1 <= m
        BY <3>1, <4>1, <4>2
      <4>5. IsSeq(v) /\ Len(v) = n /\ \A i \in 1..n : v[i] = audio_buf[i]
        <5>1. IsSeq(v) /\ Len(v) = n - m + 1 /\ \A i \in 1..(n - m + 1) : v[i] = audio_buf[m + i - 1]
          BY <4>1, <4>2, <4>3, <4>4, PieceSeq
        <5>2. QED
          BY <4>2, <5>1
      <4>6. IsSeq(w) /\ Len(w) = n /\ \A i \in 1..n : w[i] = due[i]
        <5>1. IsSeq(w) /\ Len(w) = n - m + 1 /\ \A i \in 1..(n - m + 1) : w[i] = due[m + i - 1]
          BY <4>1, <4>2, <4>3, <4>4, PieceSeq
        <5>2. QED
          BY <4>2, <5>1
      <4>7. \A i \in 1..n : due[i] = audio_buf[i]
        BY <1>3, <1>10, <1>11, <2>4, <3>1, <4>2
      <4>8. v = w
        BY <4>5, <4>6, <4>7, SameSeq
      <4>9. QED
        BY <3>1, <4>1, <4>2, <4>3, <4>8 DEF Objects!IsPrefix
    <3>4. QED
      BY <1>6, <2>3, <3>1, <3>2, <3>3
  <2>5. lost' = FALSE
    <3>1. lost = FALSE
      BY DEF AudioInv
    <3>2. QED
      BY <2>1, <2>4, <3>1, Zenon
  <2>6. ~stopped' => /\ Len(due') = audio_fill' + Len(write'.src)
                     /\ \A i \in 1..Len(due') :
                           due'[i] = IF i <= Copied' THEN audio_buf'[i] ELSE write'.src[i - audio_fill']
    <3>1. ASSUME ~stopped
          PROVE  /\ Len(p) = 0 + Len(rest)
                 /\ \A i \in 1..Len(p) : p[i] = IF i <= 0 THEN audio_buf[i] ELSE rest[i - 0]
      <4>1. Len(p) = Len(rest) /\ Len(rest) \in Nat /\ \A i \in 1..Len(p) : p[i] = rest[i]
        BY <1>6, <2>4, <3>1 DEF IsSeq
      <4>2. ASSUME NEW i \in 1..Len(p) PROVE p[i] = IF i <= 0 THEN audio_buf[i] ELSE rest[i - 0]
        BY <4>1
      <4>3. Len(p) = 0 + Len(rest)
        BY <4>1
      <4>4. QED
        BY <4>2, <4>3, Zenon
    <3>2. due' = p /\ audio_fill' = 0 /\ write'.src = rest /\ Copied' = 0 /\ audio_buf' = audio_buf
          /\ stopped' = stopped
      BY <1>1, <1>8, <2>1, <2>2
    <3>3. QED
      BY <3>1, <3>2
  <2>7. 0 \in 0..(Grain - 1)
    BY <1>3
  <2>8. QED
    <3>1. port' \in {Objects!NoPort, 1} /\ IsSeq(audio_buf') /\ Len(audio_buf') = Grain
      BY <1>1 DEF AudioInv
    <3>2. IsSeq(due') /\ audio_fill' \in 0..(Grain - 1)
      BY <2>1, <2>2, <2>3, <2>7
    <3>3. IsSeq(write'.src) /\ write'.take \in Nat /\ write'.at = "take"
      BY <1>6, <1>8
    <3>4. Grain' = Grain
      BY DEF Grain
    <3>5. QED
      BY <1>9, <2>5, <2>6, <3>1, <3>2, <3>3, <3>4 DEF AudioInv
<1>12. CASE fill # Grain
  <2>1. audio_fill' = fill /\ due' = due /\ lost' = lost
    BY <1>2, <1>4, <1>12 DEF Objects!AudioAdd, Objects!AudioAddUpTo, Grain
  <2>2. fill \in 0..(Grain - 1)
    BY <1>3, <1>4, <1>12
  <2>3. ASSUME ~stopped
        PROVE  /\ Len(due) = fill + Len(rest)
               /\ \A i \in 1..Len(due) : due[i] = IF i <= fill THEN audio_buf[i] ELSE rest[i - fill]
    <3>1. Len(due) = fill + Len(rest)
      <4>1. Len(due) = audio_fill + Len(src)
        BY <1>10, <2>3
      <4>2. PICK a \in Nat, b \in Nat : a = audio_fill /\ b = Len(src)
        BY <1>3
      <4>3. Len(due) = a + b /\ fill = a + k /\ Len(rest) = b - k
        BY <1>4, <1>6, <4>1, <4>2
      <4>4. QED
        BY <1>3, <4>2, <4>3
    <3>2. ASSUME NEW i \in 1..Len(due), ~(i <= fill) PROVE due[i] = rest[i - fill]
      <4>1. PICK j \in 1..(Len(src) - k) : j = i - fill
        <5>1. i - fill \in 1..(Len(src) - k)
          BY <1>3, <1>6, <3>1, <3>2
        <5>2. QED
          BY <5>1
      <4>2. k + j = i - audio_fill
        BY <1>3, <1>4, <4>1
      <4>3. due[i] = src[i - audio_fill]
        BY <1>10, <2>3, <3>2
      <4>4. QED
        BY <1>6, <4>1, <4>2, <4>3
    <3>3. QED
      BY <1>10, <2>3, <3>1, <3>2
  <2>4. ~stopped' => /\ Len(due') = audio_fill' + Len(write'.src)
                     /\ \A i \in 1..Len(due') :
                           due'[i] = IF i <= Copied' THEN audio_buf'[i] ELSE write'.src[i - audio_fill']
    BY <1>1, <1>8, <2>1, <2>3
  <2>5. QED
    BY <1>1, <1>6, <1>8, <1>9, <2>1, <2>2, <2>4 DEF AudioInv, Grain
<1>13. QED
  BY <1>11, <1>12

LEMMA StopAudio == ASSUME AudioInv, Objects!AudioStop PROVE AudioInv'
<1>1. audio_fill' = 0 /\ due' = <<>> /\ UNCHANGED <<port, audio_buf, write, lost>>
  BY DEF Objects!AudioStop
<1>2. ~stopped' => write.src = <<>> /\ write.at = "idle"
  <2>1. ~stopped' => write = Objects!Idle
    BY Zenon DEF Objects!AudioStop
  <2>2. QED
    BY <2>1 DEF Objects!Idle
<1>3. ~stopped' => /\ Len(due') = audio_fill' + Len(write'.src)
                   /\ \A i \in 1..Len(due') :
                         due'[i] = IF i <= Copied' THEN audio_buf'[i] ELSE write'.src[i - audio_fill']
  <2>1. ASSUME ~stopped' PROVE Len(due') = 0 /\ Len(write'.src) = 0
    BY <1>1, <1>2, <2>1, NoneSeq
  <2>2. QED
    BY <1>1, <2>1
<1>4. audio_fill' \in 0..(Grain - 1) /\ IsSeq(due')
  BY <1>1, GrainNat, NoneSeq
<1>5. write.at \in {"copy", "add"} => audio_fill' + write.take <= Grain
  <2>1. audio_fill \in Nat /\ Grain \in Nat /\ write.take \in Nat
    BY GrainNat DEF AudioInv
  <2>2. QED
    BY <1>1, <2>1 DEF AudioInv
<1>6. QED
  BY <1>1, <1>3, <1>4, <1>5 DEF AudioInv, Grain

LEMMA AudioKept ==
  ASSUME AudioInv, UNCHANGED Objects!audio
  PROVE  AudioInv'
BY DEF AudioInv, Copied, Grain, Objects!audio

LEMMA ObjectsStep ==
  ASSUME BlocksInv, AudioInv, [Objects!Next]_(Objects!vars)
  PROVE  BlocksInv' /\ AudioInv'
<1>1. CASE UNCHANGED Objects!vars
  BY <1>1, BlocksKept, AudioKept DEF Objects!vars
<1>2. ASSUME NEW k \in ElementKinds, NEW n \in ArrayLengths, Objects!NewArray(k, n)
      PROVE  BlocksInv' /\ AudioInv'
  BY <1>2, NewArrays, AudioKept DEF Objects!NewArray
<1>3. ASSUME NEW o \in DOMAIN objects, NEW i \in 0..1, NEW v \in Elements,
             \/ Objects!SetRegion(o, i, <<v>>) \/ Objects!SetRegion(o, i, <<v, 1>>)
             \/ Objects!WriteElement(o, i, v) \/ Objects!EglQuery(o, v)
             \/ Objects!SetObjectArrayElement(o, i, v)
      PROVE  BlocksInv' /\ AudioInv'
  <2>1. PICK one, two : one = <<v>> /\ two = <<v, 1>>
    OBVIOUS
  <2>2. IsSeq(one)
    BY <2>1, BytesFlat
  <2>3. IsSeq(two)
    <3>1. PICK n \in Nat : n = 2
      OBVIOUS
    <3>2. two = [j \in 1..n |-> two[j]]
      BY <2>1, <3>1
    <3>3. QED
      BY <3>2, BuiltSeq
  <2>4. UNCHANGED Objects!audio
    BY <1>3 DEF Objects!SetRegion, Objects!WriteElement, Objects!EglQuery, Objects!SetObjectArrayElement
  <2>5. AudioInv'
    BY <2>4, AudioKept
  <2>6. CASE Objects!SetRegion(o, i, one)
    BY <2>2, <2>5, <2>6, RegionPut
  <2>7. CASE Objects!SetRegion(o, i, two)
    BY <2>3, <2>5, <2>7, RegionPut
  <2>8. CASE ~Objects!SetRegion(o, i, one) /\ ~Objects!SetRegion(o, i, two)
    BY <1>3, <2>1, <2>5, <2>8, ElementPut
  <2>9. QED
    BY <2>6, <2>7, <2>8
<1>4. ASSUME NEW n \in ArrayLengths, Objects!NewObjectArray(n)
      PROVE  BlocksInv' /\ AudioInv'
  BY <1>4, NewArrays, AudioKept DEF Objects!NewObjectArray
<1>5. ASSUME NEW names \in Listings, Objects!asset_list(names)
      PROVE  BlocksInv' /\ AudioInv'
  BY <1>5, NewListing, AudioKept DEF Objects!asset_list, Objects!ListedUpTo
<1>6. ASSUME NEW o \in DOMAIN objects, Objects!DeleteLocalRef(o)
      PROVE  BlocksInv' /\ AudioInv'
  BY <1>6, BlocksKept, AudioKept DEF Objects!DeleteLocalRef, Objects!vars
<1>7. ASSUME NEW s \in Texts, Objects!NewString(s) \/ Objects!NewStringUTF(s)
      PROVE  BlocksInv' /\ AudioInv'
  BY <1>7, NewTexts, AudioKept DEF Objects!NewString, Objects!NewStringUTF
<1>8. ASSUME NEW o \in DOMAIN objects, NEW from \in 0..1, NEW n \in ArrayLengths,
             Objects!AudioWrite(o, from, n)
      PROVE  BlocksInv' /\ AudioInv'
  BY <1>8, WriteAudio
<1>9. ASSUME Objects!AudioTake \/ Objects!AudioCopy \/ Objects!AudioAdd \/ Objects!AudioStop
      PROVE  BlocksInv' /\ AudioInv'
  <2>1. UNCHANGED <<objects, java>>
    BY <1>9 DEF Objects!AudioTake, Objects!AudioCopy, Objects!AudioAdd, Objects!AudioAddUpTo,
                Objects!AudioStop, Objects!objectVars
  <2>2. QED
    BY <1>9, <2>1, BlocksKept, TakeAudio, CopyAudio, AddAudio, StopAudio
<1>10. QED
  BY <1>1, <1>2, <1>3, <1>4, <1>5, <1>6, <1>7, <1>8, <1>9 DEF Objects!Next

LEMMA ObjectsInit == Objects!Init => BlocksInv /\ AudioInv
<1> SUFFICES ASSUME Objects!Init PROVE BlocksInv /\ AudioInv
  OBVIOUS
<1>1. BlocksInv
  BY NoneSeq DEF Objects!Init, BlocksInv
<1>2. IsSeq(audio_buf) /\ Len(audio_buf) = Grain
  BY GrainNat, ZerosSeq DEF Objects!Init, Grain
<1>3. write = [at |-> "idle", src |-> <<>>, take |-> 0]
  BY DEF Objects!Init, Objects!Idle
<1>4. /\ write.at = "idle" /\ write.src = <<>> /\ write.take = 0
      /\ write = [at |-> write.at, src |-> write.src, take |-> write.take]
  BY <1>3
<1>5. Len(due) = audio_fill + Len(write.src) /\ Len(due) = 0
  BY <1>4, NoneSeq DEF Objects!Init
<1>6. audio_fill \in 0..(Grain - 1)
  BY GrainNat DEF Objects!Init
<1>7. QED
  <2>1. ~stopped => /\ Len(due) = audio_fill + Len(write.src)
                    /\ \A i \in 1..Len(due) :
                          due[i] = IF i <= Copied THEN audio_buf[i] ELSE write.src[i - audio_fill]
    BY <1>5
  <2>2. port \in {Objects!NoPort, 1} /\ lost = FALSE /\ IsSeq(due) /\ IsSeq(write.src)
    BY <1>4, NoneSeq DEF Objects!Init
  <2>3. AudioInv
    BY <1>2, <1>4, <1>6, <2>1, <2>2 DEF AudioInv
  <2>4. QED
    BY <1>1, <2>3

LEMMA ObjectsMeant == BlocksInv /\ AudioInv => JavaDataKept
<1> SUFFICES ASSUME BlocksInv, AudioInv PROVE JavaDataKept
  OBVIOUS
<1>1. Objects!TypeOK
  <2>1. ASSUME NEW o \in DOMAIN objects
        PROVE  objects[o].kind \in ElementKinds \cup Objects!Strings \cup {Objects!Object} /\ objects[o].len \in Nat
    <3>1. BlockRight(objects[o], java[o])
      BY DEF BlocksInv, IsSeq
    <3>2. QED
      BY <3>1 DEF BlockRight, IsSeq
  <2>2. DOMAIN java = DOMAIN objects
    BY DEF BlocksInv, IsSeq
  <2>3. QED
    BY <2>1, <2>2 DEF Objects!TypeOK, AudioInv, Grain
<1>2. ASSUME ~stopped, write.at \in {"idle", "take"}
      PROVE  SubSeq(audio_buf, 1, audio_fill) \o write.src = due
  <2>1. PICK src : src = write.src /\ IsSeq(src)
    BY DEF AudioInv
  <2>2. PICK m \in Nat, n \in Nat :
           m = 1 /\ n = audio_fill /\ 1 <= m /\ m <= n + 1 /\ n <= Len(audio_buf) /\ n - m + 1 = n
    BY GrainNat DEF AudioInv
  <2>3. IsSeq(audio_buf)
    BY DEF AudioInv
  <2>4. PICK v : v = SubSeq(audio_buf, m, n)
    OBVIOUS
  <2>5. IsSeq(v) /\ Len(v) = n /\ \A i \in 1..n : v[i] = audio_buf[i]
    <3>1. IsSeq(v) /\ Len(v) = n - m + 1 /\ \A i \in 1..(n - m + 1) : v[i] = audio_buf[m + i - 1]
      BY <2>2, <2>3, <2>4, PieceSeq
    <3>2. QED
      BY <2>2, <3>1
  <2>6. PICK w : w = v \o src
    OBVIOUS
  <2>7. /\ IsSeq(w) /\ Len(w) = n + Len(src) /\ Len(src) \in Nat
        /\ \A i \in 1..(n + Len(src)) : w[i] = IF i <= n THEN v[i] ELSE src[i - n]
    BY <2>1, <2>5, <2>6, JoinedSeq
  <2>8. /\ IsSeq(due) /\ Len(due) = n + Len(src)
        /\ \A i \in 1..Len(due) : due[i] = IF i <= n THEN audio_buf[i] ELSE src[i - n]
    BY <1>2, <2>1, <2>2 DEF AudioInv, Copied
  <2>9. \A i \in 1..Len(w) : w[i] = due[i]
    BY <2>5, <2>7, <2>8
  <2>10. w = due
    BY <2>7, <2>8, <2>9, SameSeq
  <2>11. QED
    BY <2>1, <2>2, <2>4, <2>6, <2>10
<1>3. Objects!PlayedInOrder
  BY <1>2 DEF Objects!PlayedInOrder, AudioInv, Grain
<1>4. QED
  BY <1>1, <1>3, BlocksMeant DEF JavaDataKept

(* What the game puts into arrays of any number, kind and length comes out of them
   again, element by element and byte by byte, from the elements and by regions;
   what it makes a string of comes out of it, bytes as bytes and units of Latin-1
   as units, and of ASCII both ways; and whatever grain, lengths and interleaving with stops, the port plays the
   samples in order and the grain does not overflow
   (jni_patch.c:45-93, 204-211, 393-486, 642-693). *)
THEOREM ObjectsSafe == FilesSpec => []JavaDataKept
<1> DEFINE Both == BlocksInv /\ AudioInv
<1>1. FilesInit => Both
  BY ObjectsInit DEF FilesInit
<1>2. Both /\ [FilesNext]_all => Both'
  BY PartsApart, ObjectsStep
<1>3. QED
  BY <1>1, <1>2, ObjectsMeant, PTL DEF FilesSpec
=============================================================================

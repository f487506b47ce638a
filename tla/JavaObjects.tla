----------------------------- MODULE JavaObjects -----------------------------
(***************************************************************************)
(* Arrays and strings of the Java side as blocks of bytes behind a length, *)
(* the slots of the environment that reach them, the EGL queries that      *)
(* answer in an int[], and the AudioTrack that plays a short[]             *)
(* (loader/jni_patch.c:45-93, 204-211, 393-486, 642-703).  The game stays  *)
(* within the arrays; nothing is ever freed.                               *)
(***************************************************************************)
EXTENDS Integers, Sequences, SequencesExt

CONSTANTS
    ElementKinds,  \* of the arrays the game makes, 0..7 as in jni.h
    Lengths,       \* of arrays
    Elements,      \* values of elements, 0 that of a new array
    Texts,         \* sequences of UTF-16 units, or of bytes
    Listings,      \* sequences of the names in a directory
    MaxListed,     \* 512
    MaxObjects,
    AUDIO_GRAIN    \* 1024

ObjectsAssumption ==
    /\ ElementKinds \subseteq 0..7 /\ Lengths \subseteq Nat
    /\ Texts \subseteq Seq(Nat) /\ \A names \in Listings : names \in Seq(Range(names))
    /\ MaxListed \in Nat /\ AUDIO_GRAIN \in Nat \ {0}

NoPort == -1
\* jni.h: boolean, byte, char, short, int, long, float, double
JniSize == <<1, 1, 2, 2, 4, 8, 4, 8>>
IntKind == 4
ShortKind == 3
String == -1      \* the kinds of strings, made of units or of bytes, and of arrays of references
StringUTF == -2
Strings == {String, StringUTF}
Object == 8

VARIABLES
    objects,   \* blocks: [kind, len, bytes]; bytes of an element are <<value, place>>
    java,      \* what the game put into each
    port, audio_buf, audio_fill,
    write,     \* of audio_write: where it is, samples to go, samples taken
    due, lost, stopped      \* samples to be played, is what was played wrong, was a write cut short

audio == <<port, audio_buf, audio_fill, write, due, lost, stopped>>
vars == <<objects, java, audio>>

Bytes(v, size) == [i \in 1..size |-> <<v, i>>]
\* Values one behind the other, each with its bytes.
Flat(vals, size) ==
    [b \in 1..(Len(vals) * size) |-> <<vals[((b - 1) \div size) + 1], ((b - 1) % size) + 1>>]
Filled(n, size) == Flat([i \in 1..n |-> 0], size)
Idle == [at |-> "idle", src |-> <<>>, take |-> 0]

Init ==
    /\ objects = <<>> /\ java = <<>>
    /\ port = NoPort /\ audio_buf = [i \in 1..(2 * AUDIO_GRAIN) |-> 0] /\ audio_fill = 0
    /\ write = Idle /\ due = <<>> /\ lost = FALSE /\ stopped = FALSE

----------------------------------------------------------------------------
(* The environment's slots *)

\* New<Type>Array: the bytes that the array in this slot gets per element.
NewSlots(n) ==
    CASE n \in {175, 176} -> 1 [] n \in {177, 178} -> 2 [] n \in {179, 181} -> 4 [] n \in {180, 182} -> 8
RegionSlotsFour(n) ==                                                          \* mutant
    CASE n \in {199, 200, 207, 208} -> 1 [] n \in {201, 202, 209, 210} -> 2 [] OTHER -> 4
\* Get<Type>ArrayRegion from 199 on, Set<Type>ArrayRegion from 207 on.
RegionSlots(n) ==
    CASE n \in {199, 200, 207, 208} -> 1 [] n \in {201, 202, 209, 210} -> 2
      [] n \in {203, 205, 211, 213} -> 4 [] n \in {204, 206, 212, 214} -> 8

\* memcpy between a block and a buffer.
Read(b, from, n) == SubSeq(b, from + 1, from + n)
Put(b, from, data) == [i \in DOMAIN b |-> IF i \in (from + 1)..(from + Len(data)) THEN data[i - from] ELSE b[i]]
GetRegion(o, start, n) ==
    LET esz == RegionSlots(199 + objects[o].kind) IN Read(objects[o].bytes, start * esz, n * esz)

New(o, gets) == objects' = Append(objects, o) /\ java' = Append(java, gets)
NewArray(k, n) ==
    /\ Len(objects) < MaxObjects
    /\ New([kind |-> k, len |-> n, bytes |-> Filled(n, NewSlots(175 + k))], [i \in 1..n |-> 0])
    /\ UNCHANGED audio

\* An array of references is an int[], and so is the list of a directory.
NewObjectArray(n) ==
    /\ Len(objects) < MaxObjects
    /\ New([kind |-> Object, len |-> n, bytes |-> Filled(n, 4)], [i \in 1..n |-> 0])
    /\ UNCHANGED audio
SetObjectArrayElement(o, i, v) ==
    /\ objects[o].kind = Object /\ i < objects[o].len
    /\ objects' = [objects EXCEPT ![o].bytes = Put(@, 4 * i, Bytes(v, 4))]
    /\ java' = [java EXCEPT ![o] = Put(@, i, <<v>>)]
    /\ UNCHANGED audio
GetObjectArrayElement(o, i) == Read(objects[o].bytes, 4 * i, 4)
Least(a, b) == IF a < b THEN a ELSE b
UpTo(names, max) == SubSeq(names, 1, Least(Len(names), max))
ListedUpTo(names, max) ==
    /\ Len(objects) < MaxObjects
    /\ LET listed == UpTo(names, max)
       IN  New([kind |-> Object, len |-> Len(listed), bytes |-> Flat(listed, 4)], UpTo(names, MaxListed))
    /\ UNCHANGED audio
ListedBelow(names) == ListedUpTo(names, MaxListed - 1)                          \* mutant
asset_list(names) == ListedUpTo(names, MaxListed)

SetRegion(o, start, vals) ==
    /\ objects[o].kind \in ElementKinds /\ start + Len(vals) <= objects[o].len
    /\ LET k == objects[o].kind
           esz == RegionSlots(207 + k)
           data == Flat(vals, JniSize[k + 1])
       IN  objects' = [objects EXCEPT ![o].bytes = Put(@, start * esz, SubSeq(data, 1, Len(vals) * esz))]
    /\ java' = [java EXCEPT ![o] = Put(@, start, vals)]
    /\ UNCHANGED audio

\* Get<Type>ArrayElements hands out the block itself, and so does Critical.
g_elems(o) == objects[o].bytes
WriteElement(o, i, v) ==
    /\ objects[o].kind \in ElementKinds /\ i < objects[o].len
    /\ LET size == JniSize[objects[o].kind + 1]
       IN  objects' = [objects EXCEPT ![o].bytes = Put(g_elems(o), i * size, Bytes(v, size))]
    /\ java' = [java EXCEPT ![o] = Put(@, i, <<v>>)]
    /\ UNCHANGED audio

\* eglQuerySurface, eglQueryContext, eglChooseConfig and eglGetConfigAttrib answer
\* in element 0, if there is one.
EglQuery(o, v) ==
    /\ objects[o].kind = IntKind
    /\ IF objects[o].len > 0
       THEN /\ objects' = [objects EXCEPT ![o].bytes = Put(@, 0, Bytes(v, 4))]
            /\ java' = [java EXCEPT ![o] = Put(@, 0, <<v>>)]
       ELSE UNCHANGED <<objects, java>>
    /\ UNCHANGED audio

\* Strings are C strings; NewString keeps the low byte of each unit.
Narrow(c) == c % 256
Terminated(s) == SelectInSeq(s \o <<0>>, LAMBDA b : b = 0) - 1
NewString(s) ==
    /\ Len(objects) < MaxObjects
    /\ LET r == [i \in DOMAIN s |-> Narrow(s[i])] IN
       New([kind |-> String, len |-> Len(s), bytes |-> SubSeq(r, 1, Terminated(r))], s)
    /\ UNCHANGED audio
NewStringUTF(s) ==
    /\ Len(objects) < MaxObjects /\ \A i \in DOMAIN s : s[i] \in 1..255
    /\ New([kind |-> StringUTF, len |-> Len(s), bytes |-> s], s)
    /\ UNCHANGED audio
\* Either is read as units and as bytes, one for one, whichever it was made of.
GetStringChars(o) == objects[o].bytes
GetStringLength(o) == Len(objects[o].bytes)
GetStringUTFChars(o) == objects[o].bytes
GetStringUTFLength(o) == Len(objects[o].bytes)
GetStringUTFRegion(o, from, n) == SubSeq(objects[o].bytes, from + 1, from + n) \o <<0>>
\* g_void: the game's buffer stays as it is.
GetStringRegion(o, from, n, buf) == buf

\* Nothing is given back.
DeleteLocalRef(o) == o \in DOMAIN objects /\ UNCHANGED vars

----------------------------------------------------------------------------
(* AudioTrack *)

objectVars == <<objects, java>>

\* A port that does not open swallows the samples.
AudioWrite(o, from, n) ==
    /\ write = Idle /\ objects[o].kind = ShortKind /\ from + n <= objects[o].len
    /\ \E p \in IF port = NoPort THEN {NoPort, 1} ELSE {port} :
          /\ port' = p
          /\ IF p = NoPort THEN UNCHANGED <<write, due>>
             ELSE /\ write' = [Idle EXCEPT !.at = "take", !.src = [i \in 1..n |-> objects[o].bytes[2 * (from + i)][1]]]
                  /\ due' = due \o SubSeq(java[o], from + 1, from + n)
    /\ UNCHANGED <<objectVars, audio_buf, audio_fill, lost, stopped>>

AudioTake ==
    /\ write.at = "take"
    /\ write' = IF write.src = <<>> THEN Idle
                ELSE [write EXCEPT !.at = "copy",
                                   !.take = Least(2 * AUDIO_GRAIN - audio_fill, Len(write.src))]
    /\ UNCHANGED <<objectVars, port, audio_buf, audio_fill, due, lost, stopped>>
AudioCopy ==
    /\ write.at = "copy"
    /\ audio_buf' = [i \in DOMAIN audio_buf |->
                        IF i \in (audio_fill + 1)..(audio_fill + write.take)
                        THEN write.src[i - audio_fill] ELSE audio_buf[i]]
    /\ write' = [write EXCEPT !.at = "add"]
    /\ UNCHANGED <<objectVars, port, audio_fill, due, lost, stopped>>
\* The rest of the round: count, and a full grain goes to the port.
AudioAddUpTo(full) ==
    /\ write.at = "add"
    /\ LET fill == audio_fill + write.take IN
       IF fill = full
       THEN /\ audio_fill' = 0
            /\ lost' = (lost \/ (~stopped /\ ~IsPrefix(audio_buf, due)))
            /\ due' = SubSeq(due, fill + 1, Len(due))
       ELSE audio_fill' = fill /\ UNCHANGED <<due, lost>>
    /\ write' = [write EXCEPT !.at = "take", !.take = 0, !.src = SubSeq(@, write.take + 1, Len(@))]
    /\ UNCHANGED <<objectVars, port, audio_buf, stopped>>
AudioAddEarly == AudioAddUpTo(AUDIO_GRAIN)                                     \* mutant
AudioAdd == AudioAddUpTo(2 * AUDIO_GRAIN)

\* audio_stop, by another thread: it drops what is in no grain yet.
AudioStop ==
    /\ port # NoPort
    /\ audio_fill' = 0
    /\ stopped' = (write # Idle)
    /\ due' = <<>>
    /\ UNCHANGED <<objectVars, port, audio_buf, write, lost>>

Next ==
    \/ \E k \in ElementKinds, n \in Lengths : NewArray(k, n)
    \/ \E o \in DOMAIN objects, i \in 0..1, v \in Elements :
          SetRegion(o, i, <<v>>) \/ SetRegion(o, i, <<v, 1>>) \/ WriteElement(o, i, v) \/ EglQuery(o, v)
    \/ \E n \in Lengths : NewObjectArray(n)
    \/ \E names \in Listings : asset_list(names)
    \/ \E o \in DOMAIN objects, i \in 0..1, v \in Elements : SetObjectArrayElement(o, i, v)
    \/ \E o \in DOMAIN objects : DeleteLocalRef(o)
    \/ \E s \in Texts : NewString(s) \/ NewStringUTF(s)
    \/ \E o \in DOMAIN objects, from \in 0..1, n \in Lengths : AudioWrite(o, from, n)
    \/ AudioTake \/ AudioCopy \/ AudioAdd \/ AudioStop
Spec == Init /\ [][Next]_vars

----------------------------------------------------------------------------

TypeOK ==
    /\ \A o \in DOMAIN objects : objects[o].kind \in ElementKinds \cup Strings \cup {Object} /\ objects[o].len \in Nat
    /\ DOMAIN java = DOMAIN objects
    /\ port \in {NoPort, 1} /\ audio_fill \in 0..(2 * AUDIO_GRAIN - 1)

(* What the game reads from an array, from its elements or by regions, is what it
   put there in either way, and from a list of a directory every name that fits.
   A string gives back what it was made of: bytes as bytes, and units of Latin-1
   as units; one of ASCII both ways, and by regions of bytes
   (jni_patch.c:204-211,396-401,405-477,651-693). *)
StringKept(o) ==
    LET s == java[o]
        Below(n) == \A i \in DOMAIN s : s[i] \in 1..(n - 1)
    IN  /\ objects[o].kind = StringUTF \/ Below(128) =>
              GetStringUTFChars(o) = s /\ GetStringUTFLength(o) = Len(s)
        /\ Below(IF objects[o].kind = StringUTF THEN 128 ELSE 256) =>
              GetStringChars(o) = s /\ GetStringLength(o) = Len(s)
        /\ Below(128) =>
              \A from \in 0..Len(s) :
                 GetStringUTFRegion(o, from, Len(s) - from) = SubSeq(s, from + 1, Len(s)) \o <<0>>
\* Not kept: a region of units, which slot 220 leaves out (jni_patch.c:699).
RegionRead(o, buf) == GetStringRegion(o, 0, GetStringLength(o), buf) = java[o]
ReferencesKept(o) ==
    /\ objects[o].len = Len(java[o])
    /\ \A i \in DOMAIN java[o] : GetObjectArrayElement(o, i - 1) = Bytes(java[o][i], 4)
ElementsKept(o) ==
    LET size == JniSize[objects[o].kind + 1]
        bytes == Flat(java[o], size)
    IN  /\ g_elems(o) = bytes
        /\ \A i \in 0..objects[o].len :
               GetRegion(o, i, objects[o].len - i) = SubSeq(bytes, i * size + 1, Len(bytes))
ObjectsKept ==
    \A o \in DOMAIN objects :
        CASE objects[o].kind \in Strings -> StringKept(o)
          [] objects[o].kind = Object -> ReferencesKept(o)
          [] OTHER -> ElementsKept(o)

(* The port plays what was written, in order, as long as no stop comes while a
   write is under way; the grain overflows not even then (jni_patch.c:79-92). *)
PlayedInOrder ==
    /\ ~lost
    /\ ~stopped /\ write.at \in {"idle", "take"} => SubSeq(audio_buf, 1, audio_fill) \o write.src = due
    /\ write.at \in {"copy", "add"} => audio_fill + write.take <= 2 * AUDIO_GRAIN
=============================================================================

------------------------------ MODULE FileShims ------------------------------
(***************************************************************************)
(* Calls of libc that take a path, as the game makes them and as they      *)
(* reach the card (loader/default_dynlib.c:227-252, 282-319, and the       *)
(* import table).  A path is a spelling and a name, the card is flat.      *)
(* "game" is the file system that would take the game's paths and flags    *)
(* as Android's does; a file that is opened is written, if the flags let   *)
(* it, and closed (positions and the cap of saves: SaveFile).              *)
(***************************************************************************)
EXTENDS Integers, Sequences

CONSTANTS
    Names,      \* of files and directories of the game
    Values,     \* what is written
    MaxLength,  \* of a file
    Imports     \* the calls that the game makes

ShimsAssumption ==
    /\ "nowhere" \notin Names
    /\ Imports \subseteq {"open", "fopen", "freopen", "stat", "fstat", "opendir", "mkdir", "rmdir",
                          "unlink", "remove", "rename"}

(* How the game writes a path: below "/data/ssx", relative, with "./", and with
   the card's device; anywhere else is no place of the game's. *)
Paths == {"prefix", "relative", "dot", "device", "elsewhere"} \X Names

VARIABLES card, game, ret, wanted     \* the card, the game's view, results of the last call
vars == <<card, game, ret, wanted>>

None == [kind |-> "none"]
Dir == [kind |-> "dir"]
File(d) == [kind |-> "file", data |-> d]
Fail == <<-1>>
Done == <<0>>
Init == card = [n \in Names |-> None] /\ game = card /\ ret = Done /\ wanted = Done

----------------------------------------------------------------------------
(* What the shims do to the arguments and the results *)

fix_pathPrefix(p) == IF p[1] = "prefix" THEN <<"device", p[2]>> ELSE p            \* mutant
\* A prefix is cut off, and a relative path has no directory to be relative to.
fix_path(p) == IF p[1] \in {"prefix", "relative", "dot"} THEN <<"device", p[2]>> ELSE p

\* bionic's bits of open(2) besides the access mode.
Bit(f, b) == (f \div b) % 2 = 1
bionic_oflagsRaw(f) ==                                                            \* mutant
    {x \in {<<512, "O_CREAT">>, <<2048, "O_EXCL">>, <<1024, "O_TRUNC">>, <<8, "O_APPEND">>} : Bit(f, x[1])}
bionic_oflags(f) ==
    {x \in {<<64, "O_CREAT">>, <<128, "O_EXCL">>, <<512, "O_TRUNC">>, <<1024, "O_APPEND">>} : Bit(f, x[1])}

\* Of bionic's struct stat: the mode at +16, the size at +48.
to_bionic_stat(s) == [at \in {16, 48} |-> IF at = 16 THEN s[1] ELSE s[2]]

\* freopen goes to newlib as it is.
Mapped(call, p) == IF call = "freopen" THEN p ELSE fix_path(p)
Modes == [r |-> {}, w |-> {"O_CREAT", "O_TRUNC"}, a |-> {"O_CREAT", "O_APPEND"}]
----------------------------------------------------------------------------
(* newlib: a call on the file with this name, and what it returns *)

Result(fs, r) == [fs |-> fs, ret |-> r]
Written(old, flags, v) ==
    LET base == IF "O_TRUNC" \in flags THEN <<>> ELSE old
    IN  IF "O_APPEND" \in flags \/ base = <<>> THEN Append(base, v) ELSE [base EXCEPT ![1] = v]
Open(fs, n, flags, writes, v) ==
    LET old == IF fs[n] = None THEN <<>> ELSE fs[n].data
        new == IF writes THEN Written(old, flags, v) ELSE old
    IN  IF \/ fs[n] = Dir \/ (fs[n] = None /\ "O_CREAT" \notin flags)
           \/ (fs[n] # None /\ {"O_CREAT", "O_EXCL"} \subseteq flags)
        THEN Result(fs, Fail) ELSE Result([fs EXCEPT ![n] = File(new)], Done)

\* a call: [call, flags, writes, value], on one name or, to rename, on two.
Call(fs, c, n, m) ==
    IF n = "nowhere" \/ m = "nowhere" THEN Result(fs, Fail) ELSE
    CASE c.call \in {"open", "fopen", "freopen"} -> Open(fs, n, c.flags, c.writes, c.value)
      [] c.call \in {"stat", "fstat"} ->
            Result(fs, IF fs[n] = None THEN Fail
                       ELSE <<fs[n].kind, IF fs[n] = Dir THEN 0 ELSE Len(fs[n].data)>>)
      [] c.call = "opendir" -> Result(fs, IF fs[n] = Dir THEN Done ELSE Fail)
      [] c.call = "mkdir" ->
            IF fs[n] = None THEN Result([fs EXCEPT ![n] = Dir], Done) ELSE Result(fs, Fail)
      [] c.call = "rmdir" ->
            IF fs[n] = Dir THEN Result([fs EXCEPT ![n] = None], Done) ELSE Result(fs, Fail)
      [] c.call \in {"unlink", "remove"} ->
            IF fs[n].kind = "file" THEN Result([fs EXCEPT ![n] = None], Done) ELSE Result(fs, Fail)
      [] c.call = "rename" ->
            IF fs[n] = None \/ fs[m] = Dir \/ n = m THEN Result(fs, Fail)
            ELSE Result([fs EXCEPT ![m] = fs[n], ![n] = None], Done)

OnCard(p) == IF p[1] = "device" THEN p[2] ELSE "nowhere"
Meant(p) == IF p[1] # "elsewhere" THEN p[2] ELSE "nowhere"
----------------------------------------------------------------------------
(* One call of the game, and what it should have done *)

Shim(c, reached, p, q) ==
    LET did == Call(card, [c EXCEPT !.flags = reached], OnCard(Mapped(c.call, p)), OnCard(Mapped(c.call, q)))
        bs == to_bionic_stat(did.ret)
        should == Call(game, c, Meant(p), Meant(q))
    IN  /\ card' = did.fs
        /\ ret' = IF c.call \in {"stat", "fstat"} /\ did.ret # Fail THEN <<bs[16], bs[48]>> ELSE did.ret
        /\ game' = should.fs /\ wanted' = should.ret

Asked(call, flags, writes, v) == [call |-> call, flags |-> flags, writes |-> writes, value |-> v]
Short == \A n \in Names : game[n].kind = "file" => Len(game[n].data) < MaxLength
\* What the game's flags mean on Android, as <fcntl.h> there has them.
Meaning ==
    [f \in {0, 64, 64 + 512, 512, 64 + 128, 1024, 64 + 1024} |->
        CASE f = 0 -> {}            [] f = 64 -> {"O_CREAT"}  [] f = 64 + 512 -> {"O_CREAT", "O_TRUNC"}
          [] f = 512 -> {"O_TRUNC"} [] f = 1024 -> {"O_APPEND"} [] f = 64 + 128 -> {"O_CREAT", "O_EXCL"}
          [] f = 64 + 1024 -> {"O_CREAT", "O_APPEND"}]
open_log == \E p \in Paths, f \in DOMAIN Meaning, writes \in BOOLEAN, v \in Values :
    /\ "open" \in Imports /\ ("O_APPEND" \in Meaning[f] => Short)
    /\ Shim(Asked("open", Meaning[f], writes, v), {x[2] : x \in bionic_oflags(f)}, p, p)
fopen_log == \E call \in Imports \cap {"fopen", "freopen"}, p \in Paths, mode \in DOMAIN Modes, v \in Values :
    /\ "O_APPEND" \in Modes[mode] => Short
    /\ Shim(Asked(call, Modes[mode], mode # "r", v), Modes[mode], p, p)
Others == Imports \ {"open", "fopen", "freopen"}
PathCall == \E call \in Others, p \in Paths, q \in Paths :
    /\ call # "rename" => p = q
    /\ Shim(Asked(call, {}, FALSE, 0), {}, p, q)

Next == open_log \/ fopen_log \/ PathCall
Spec == Init /\ [][Next]_vars
----------------------------------------------------------------------------

TypeOK ==
    /\ DOMAIN card = Names /\ DOMAIN game = Names
    /\ \A n \in Names : card[n].kind \in {"none", "dir", "file"}

(* However the game spells a path, its calls find the one file of that name on
   the card, and do to it and return what Android's would
   (default_dynlib.c:225-252, 282-319). *)
SamePlace == TypeOK /\ card = game /\ ret = wanted
=============================================================================

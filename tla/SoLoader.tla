------------------------------ MODULE SoLoader ------------------------------
(***************************************************************************)
(* The ELF loader of loader/so_util.c and the order in which main uses it  *)
(* (loader/main.c:484-497): for each library, load, relocate, resolve,     *)
(* hook, flush the caches and run the constructors.  main gives up when a  *)
(* load fails.                                                             *)
(*                                                                         *)
(* A library is described by its image: program headers, the sections it   *)
(* has, its symbols, its relocation entries (.rel.dyn before .rel.plt), of *)
(* which entry i writes word i of its memory, the libraries it needs and   *)
(* the words its .init_array has.  Symbol 1 is the null symbol.            *)
(***************************************************************************)
EXTENDS Integers, Sequences, SequencesExt

CONSTANTS
    Boot,        \* the libraries in the order main loads them
    Names,       \* of symbols
    Images,      \* the images there may be: functions from Boot's libraries
    Libs,        \* what default_dynlib may be: functions from names to addresses
    Base         \* the address each library is loaded at

Mods == ToSet(Boot)
Place(m) == CHOOSE k \in DOMAIN Boot : Boot[k] = m
Types == {"ABS32", "RELATIVE", "GLOB_DAT", "JUMP_SLOT"}

\* What a linker makes of a library: one header for its code and one for its
\* data, tables that refer to what there is, a symbol for each name.
WellFormed(x) ==
    /\ x.phdrs \in Seq({"text", "data", "other"})
    /\ \E a, b \in DOMAIN x.phdrs :
          /\ x.phdrs[a] = "text" /\ x.phdrs[b] = "data"
          /\ \A k \in DOMAIN x.phdrs \ {a, b} : x.phdrs[k] = "other"
    /\ x.syms \in Seq([name : Names, defined : BOOLEAN, info : Nat, value : Nat])
    /\ \A j, k \in DOMAIN x.syms :
          x.syms[j].info # 0 /\ x.syms[k].info # 0 /\ x.syms[j].name = x.syms[k].name => j = k
    /\ x.rels \in Seq([type : Types, sym : DOMAIN x.syms, addend : Nat])
    /\ \A k \in DOMAIN x.rels : x.rels[k].type # "RELATIVE" => x.syms[x.rels[k].sym].info # 0
    /\ x.inits \in Seq(DOMAIN x.rels)
    /\ \A n \in Names : x.bucket[n] \in Seq(DOMAIN x.syms)

\* main loads a library after those of Boot that it needs.
LoaderAssumption ==
    /\ Boot \in Seq(Mods) /\ Boot # <<>> /\ \A j, k \in DOMAIN Boot : Boot[j] = Boot[k] => j = k
    /\ Base \in [Mods -> Nat \ {0}]
    /\ \A x \in Libs : \A n \in DOMAIN x : x[n] \in Nat \ {0}
    /\ \A x \in Images : \A m \in Mods :
          /\ WellFormed(x[m])
          /\ x[m].needed \in Seq(ToSet(x[m].needed))
          /\ \A l \in ToSet(x[m].needed) \cap Mods : Place(l) < Place(m)
ASSUME Loader == LoaderAssumption

VARIABLES
    image, lib,  \* this boot's
    at, pc,      \* which library main is at, and where it is with it
    i,           \* index of the loop it is in
    fd, so_data, \* the file is open; the buffer with its bytes is allocated
    cut,         \* reading broke off, and the rest of the buffer is what the heap had
    text, data,  \* per library, whether its memory blocks are allocated
    res,         \* what so_load is about to return: its sign
    loaded,      \* the list from head to tail
    mem,         \* the words that relocation writes
    dirty,       \* libraries with code written since their caches were flushed
    ran          \* per library, the addresses called as constructors

vars == <<image, lib, at, pc, i, fd, so_data, cut, text, data, res, loaded, mem, dirty, ran>>
load == <<fd, so_data, cut, text, data, res>>
run == <<mem, dirty, ran>>

mod == Boot[at]
Img == image[mod]
Goto(p) == pc' = p
Loop(k) == i' = k
HasSections == {"dynamic", "dynstr", "dynsym", "reldyn", "relplt"} \subseteq Img.sections

\* What default_dynlib overrides is stored without an addend: of such imports,
\* only those without one are linked right.
PlainOverrides ==
    \A m \in Mods : \A r \in ToSet(image[m].rels) :
        r.type = "ABS32" /\ ~image[m].syms[r.sym].defined /\ image[m].syms[r.sym].name \in DOMAIN lib
            => r.addend = 0

Init ==
    /\ image \in Images /\ lib \in Libs /\ PlainOverrides
    /\ at = 1 /\ pc = "open" /\ i = 1
    /\ fd = FALSE /\ so_data = FALSE /\ cut = FALSE
    /\ text = [m \in Mods |-> FALSE] /\ data = [m \in Mods |-> FALSE]
    /\ res = 0 /\ loaded = <<>>
    /\ mem = [m \in Mods |-> <<>>]
    /\ dirty = {} /\ ran = [m \in Mods |-> <<>>]

\* so_load: the file is opened ...
Open ==
    /\ pc = "open"
    /\ \/ fd' = TRUE /\ Goto("read") /\ UNCHANGED res
       \/ res' = -1 /\ Goto("return") /\ UNCHANGED fd
    /\ UNCHANGED <<image, lib, at, i, so_data, cut, text, data, loaded, run>>

\* ... and read, as a whole or up to an error, which so_load only reports; a
\* buffer that could not be had leaves it open ...
ReadFile ==
    /\ pc = "read"
    /\ \/ so_data' = TRUE /\ fd' = FALSE /\ Goto("magic") /\ cut' \in BOOLEAN /\ UNCHANGED res
       \/ res' = -1 /\ Goto("return") /\ UNCHANGED <<so_data, cut, fd>>
    /\ UNCHANGED <<image, lib, at, i, text, data, loaded, run>>

\* ... and it may not be an ELF file; one that is cut short may still begin as one.
Magic ==
    /\ pc = "magic"
    /\ \/ Goto("segments") /\ res' = 0
       \/ Goto("err_free_so") /\ res' = -1
    /\ Loop(1)
    /\ UNCHANGED <<image, lib, at, fd, so_data, cut, text, data, loaded, run>>

\* Of a file that was cut short the section table, at its end, was not read, and
\* maybe not the program headers: so_load follows what the heap has there, to
\* a fault or to anything.  Nothing is said of what comes then.
Astray ==
    /\ pc = "segments" /\ cut
    /\ Goto("undefined")
    /\ UNCHANGED <<image, lib, at, i, load, loaded, run>>

\* A program header: the text first, then the data behind it.
Segment ==
    /\ pc = "segments" /\ i <= Len(Img.phdrs)
    /\ LET p == Img.phdrs[i] IN
       \/ p = "other" /\ Loop(i + 1) /\ UNCHANGED <<pc, text, data, res, dirty>>
       \/ /\ p = "text"
          /\ text' = [text EXCEPT ![mod] = TRUE] /\ res' = 1
          /\ dirty' = dirty \cup {mod}
          /\ Loop(i + 1)
          /\ UNCHANGED <<pc, data>>
       \/ /\ p = "text"
          /\ res' = -1 /\ Goto("err_free_so")
          /\ UNCHANGED <<i, text, data, dirty>>
       \/ /\ p = "data" /\ ~text[mod]
          /\ Goto("err_free_so")
          /\ UNCHANGED <<i, text, data, res, dirty>>
       \/ /\ p = "data" /\ text[mod]
          /\ data' = [data EXCEPT ![mod] = TRUE] /\ res' = 1
          /\ Loop(i + 1)
          /\ UNCHANGED <<pc, text, dirty>>
       \/ /\ p = "data" /\ text[mod]
          /\ res' = -1 /\ Goto("err_free_text")
          /\ UNCHANGED <<i, text, data, dirty>>
    /\ UNCHANGED <<image, lib, at, fd, so_data, cut, loaded, mem, ran>>

\* The sections, and the module joins the list at its tail; bytes of the heap
\* are no sections.
JoinedAtHead == <<mod>> \o loaded                                    \* mutant
Joined == Append(loaded, mod)
SectionsElse(missing) ==
    /\ pc = "segments" /\ i > Len(Img.phdrs)
    /\ IF HasSections /\ ~cut
       THEN /\ so_data' = FALSE
            /\ loaded' = Joined
            /\ mem' = [mem EXCEPT ![mod] = [k \in DOMAIN Img.rels |-> Img.rels[k].addend]]
            /\ res' = 0
            /\ Goto("return")
       ELSE /\ res' = missing
            /\ Goto("err_free_data")
            /\ UNCHANGED <<so_data, loaded, mem>>
    /\ UNCHANGED <<image, lib, at, i, fd, cut, text, data, dirty, ran>>

SectionsUnset == SectionsElse(res)                                   \* mutant
Sections == SectionsElse(-1)

\* The labels at so_load's end, which fall through to one another.
FreeFrom(labels) ==
    /\ pc \in {"err_free_data", "err_free_text", "err_free_so"}
    /\ data' = IF pc = "err_free_data" THEN [data EXCEPT ![mod] = FALSE] ELSE data
    /\ text' = IF pc \in labels THEN [text EXCEPT ![mod] = FALSE] ELSE text
    /\ so_data' = FALSE
    /\ Goto("return")
    /\ UNCHANGED <<image, lib, at, i, fd, cut, res, loaded, run>>

FreeDataOnly == FreeFrom({"err_free_text"})                          \* mutant
FreeAll == FreeFrom({"err_free_data", "err_free_text"})

\* main: a negative result is fatal.
LoadedTo(next) ==
    /\ pc = "return"
    /\ Goto(IF res < 0 THEN "fatal" ELSE next)
    /\ Loop(1)
    /\ UNCHANGED <<image, lib, at, load, loaded, run>>

LoadedUnrelocated == LoadedTo("resolve")                             \* mutant
Loaded == LoadedTo("relocate")

Linked(m) == m \in ToSet(loaded)
Rels(m) == IF Linked(m) THEN image[m].rels ELSE <<>>
Sym(m, r) == image[m].syms[r.sym]
WriteHead(v) == mem' = [mem EXCEPT ![Head(loaded)][i] = v]           \* mutant
Write(v) == mem' = [mem EXCEPT ![mod][i] = v]

\* An entry of so_relocate: what the library defines itself.
RelocateIf(defined) ==
    /\ pc = "relocate" /\ i <= Len(Rels(mod))
    /\ LET r == Rels(mod)[i]
           s == Sym(mod, r)
       IN  \/ r.type = "ABS32" /\ defined /\ Write(mem[mod][i] + Base[mod] + s.value)
           \/ r.type = "RELATIVE" /\ Write(mem[mod][i] + Base[mod])
           \/ r.type \in {"GLOB_DAT", "JUMP_SLOT"} /\ defined /\ Write(Base[mod] + s.value)
           \/ r.type # "RELATIVE" /\ ~defined /\ UNCHANGED mem
    /\ Loop(i + 1)
    /\ UNCHANGED <<image, lib, at, pc, load, loaded, dirty, ran>>

Relocate ==
    /\ pc = "relocate" /\ i <= Len(Rels(mod))
    /\ RelocateIf(Sym(mod, Rels(mod)[i]).defined)

Relocated ==
    /\ pc = "relocate" /\ i > Len(Rels(mod))
    /\ Goto("resolve") /\ Loop(1)
    /\ UNCHANGED <<image, lib, at, load, loaded, run>>

\* so_symbol: the chain of the name's bucket, then all symbols in order.
Matches(m, n, k) ==
    LET s == image[m].syms[k] IN s.defined /\ s.info # 0 /\ s.name = n
FirstOf(S) == CHOOSE k \in S : \A j \in S : k <= j
AddressOf(m, ks, hits) == IF hits = {} THEN 0 ELSE Base[m] + image[m].syms[ks[FirstOf(hits)]].value
FoundNamed(m, n, ks) ==                                              \* mutant
    AddressOf(m, ks, {j \in DOMAIN ks : image[m].syms[ks[j]].name = n})
Found(m, n, ks) == AddressOf(m, ks, {j \in DOMAIN ks : Matches(m, n, ks[j])})
so_symbol(m, n) ==
    LET hashed == IF "hash" \in image[m].sections THEN Found(m, n, image[m].bucket[n]) ELSE 0
    IN  IF hashed # 0 THEN hashed ELSE Found(m, n, [k \in DOMAIN image[m].syms |-> k])

\* so_resolve_link: the needed libraries in order, those that are loaded.
so_resolve_link(m, n) ==
    LET ls == image[m].needed
        hits == {j \in DOMAIN ls : ls[j] # m /\ Linked(ls[j]) /\ so_symbol(ls[j], n) # 0}
    IN  IF hits = {} THEN 0 ELSE so_symbol(ls[FirstOf(hits)], n)

\* An entry of so_resolve: what the library imports; default_dynlib, looked at
\* last, overrides what its needed libraries define.
ImportFirst(w, type, link, n) ==                                     \* mutant
    IF link # 0 THEN IF type = "ABS32" THEN w + link ELSE link
    ELSE IF n \in DOMAIN lib THEN lib[n] ELSE w
Import(w, type, link, n) ==
    IF n \in DOMAIN lib THEN lib[n]
    ELSE IF link = 0 THEN w
    ELSE IF type = "ABS32" THEN w + link ELSE link

Resolve ==
    /\ pc = "resolve" /\ i <= Len(Rels(mod))
    /\ LET r == Rels(mod)[i]
           s == Sym(mod, r)
       IN  IF r.type # "RELATIVE" /\ ~s.defined
           THEN Write(Import(mem[mod][i], r.type, so_resolve_link(mod, s.name), s.name))
           ELSE UNCHANGED mem
    /\ Loop(i + 1)
    /\ UNCHANGED <<image, lib, at, pc, load, loaded, dirty, ran>>

\* main, between so_resolve and so_initialize: install_hooks writes into the
\* game's code, then the caches are flushed.
Resolved ==
    /\ pc = "resolve" /\ i > Len(Rels(mod))
    /\ dirty' = IF at = Len(Boot) THEN dirty \cup {mod} ELSE dirty
    /\ Goto("flush")
    /\ UNCHANGED <<image, lib, at, i, load, loaded, mem, ran>>

FlushFirst == dirty \ {Head(Boot)}                                   \* mutant
Flushed == dirty \ {mod}
Flush ==
    /\ pc = "flush"
    /\ dirty' = Flushed
    /\ Goto("init") /\ Loop(1)
    /\ UNCHANGED <<image, lib, at, load, loaded, mem, ran>>

\* so_initialize: the words of .init_array that are not 0, in order.
Inits == IF Linked(mod) /\ "init_array" \in Img.sections THEN Img.inits ELSE <<>>
Initialize ==
    /\ pc = "init" /\ i <= Len(Inits)
    /\ ran' = IF mem[mod][Inits[i]] # 0 THEN [ran EXCEPT ![mod] = Append(@, mem[mod][Inits[i]])] ELSE ran
    /\ Loop(i + 1)
    /\ UNCHANGED <<image, lib, at, pc, load, loaded, mem, dirty>>

Initialized ==
    /\ pc = "init" /\ i > Len(Inits)
    /\ IF at < Len(Boot) THEN at' = at + 1 /\ Goto("open") ELSE at' = at /\ Goto("booted")
    /\ UNCHANGED <<image, lib, i, load, loaded, run>>

Next ==
    \/ Open \/ ReadFile \/ Magic \/ Astray \/ Segment \/ Sections \/ FreeAll \/ Loaded
    \/ Relocate \/ Relocated \/ Resolve \/ Resolved \/ Flush \/ Initialize \/ Initialized

Spec == Init /\ [][Next]_vars

----------------------------------------------------------------------------

Words(m) == 1..Len(mem[m])
TypeOK ==
    /\ at \in 1..Len(Boot) /\ i \in Nat /\ res \in {-1, 0, 1}
    /\ fd \in BOOLEAN /\ so_data \in BOOLEAN /\ cut \in BOOLEAN
    /\ text \in [Mods -> BOOLEAN] /\ data \in [Mods -> BOOLEAN]
    /\ ToSet(loaded) \subseteq Mods
    /\ \A j, k \in DOMAIN loaded : j < k => Place(loaded[j]) < Place(loaded[k])
    /\ \A m \in Mods : \A w \in Words(m) : mem[m][w] \in Nat
    /\ dirty \subseteq Mods

\* What the ELF for ARM ABI asks of a word, given the addresses of symbols: the
\* library's own, else default_dynlib's, else the first of a needed library.
Defs(m, n) == {k \in DOMAIN image[m].syms : Matches(m, n, k)}
Own(m, n) == Base[m] + image[m].syms[CHOOSE k \in Defs(m, n) : TRUE].value
Providers(m, n) ==
    {j \in DOMAIN image[m].needed : Linked(image[m].needed[j]) /\ Defs(image[m].needed[j], n) # {}}
Address(m, s) ==
    IF s.defined THEN Base[m] + s.value
    ELSE IF s.name \in DOMAIN lib THEN lib[s.name]
    ELSE IF Providers(m, s.name) # {} THEN Own(image[m].needed[FirstOf(Providers(m, s.name))], s.name)
    ELSE 0
Reference(m, r) ==
    LET S == Address(m, Sym(m, r)) IN
    IF r.type = "RELATIVE" THEN Base[m] + r.addend
    ELSE IF S = 0 THEN r.addend
    ELSE IF r.type = "ABS32" THEN S + r.addend ELSE S

\* When constructors run, every word of every library has its final value:
\* so_relocate and so_resolve together wrote each of them right, with imports
\* that default_dynlib overrides (so_util.c:228-351, main.c:484-499).
Final(m) == \A w \in Words(m) : mem[m][w] = Reference(m, image[m].rels[w])
RunsOnFinalWords == pc = "init" => \A m \in ToSet(loaded) : Final(m)

\* What an initialised library was given is not taken back by the next one's
\* relocation (so_util.c:25,295).
KeepsWords ==
    [][\A m \in Mods : ran[m] # <<>> => mem'[m] = mem[m]]_vars

\* Only relocated addresses are called as constructors, in the array's order.
CallsCode ==
    \A m \in Mods :
        \A k \in 1..Len(ran[m]) : \E w \in ToSet(image[m].inits) : ran[m][k] = Reference(m, image[m].rels[w])

\* so_symbol finds a name through the hash table or without it exactly if the
\* library defines it (so_util.c:373-395).
LookupExact ==
    \A m \in ToSet(loaded), n \in Names :
        so_symbol(m, n) = IF Defs(m, n) = {} THEN 0 ELSE Own(m, n)

\* A library whose load is over is in the list and has its memory, or it has
\* none and main gives up; the file's bytes are freed, and the file is closed
\* unless there was no buffer for it (so_util.c:80-88,206-225; main.c:485,492).
\* A library whose data comes before its text is an exception: its load ends
\* with the result 0 and without the library (so_util.c:135-136).  A file that
\* was cut short is never linked, or leads astray (so_util.c:86).
TextFirst(m) ==
    LET p == image[m].phdrs IN \E k \in DOMAIN p : p[k] = "text" /\ \A j \in 1..(k - 1) : p[j] = "other"
LoadedOrFatal ==
    /\ TextFirst(mod) /\ pc \in {"relocate", "resolve", "flush", "init", "booted"} =>
          Linked(mod) /\ text[mod] /\ data[mod] /\ ~fd /\ ~so_data /\ ~cut
    /\ pc = "fatal" => ~Linked(mod) /\ ~text[mod] /\ ~data[mod] /\ ~so_data

\* No constructor runs while code written by the loader or by the hooks is
\* not flushed (main.c:488,496-498).
RunsFlushed == pc = "init" => dirty = {}
=============================================================================

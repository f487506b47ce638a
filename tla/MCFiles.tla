------------------------------ MODULE MCFiles ------------------------------
(***************************************************************************)
(* What the game asks of the card and of Java, one thing at a time: save   *)
(* files with two threads, two descriptors, a cap of two units and         *)
(* positions beyond it; paths; assets on small cards; methods looked up by *)
(* two threads; objects.  "part" says which a behaviour is about.          *)
(***************************************************************************)
EXTENDS SaveFile, SequencesExt

CONSTANTS
    ghosts, other,
    Parts,       \* that behaviours are about
    Askers,      \* threads among the assets
    Imports,     \* of the calls with paths, those the game makes
    LookedUp,    \* names of methods
    Lookers,     \* threads among the methods
    Handles, AssetFds, Cards, BankMax, Lengths, Shorts,         \* see AssetStream
    Names, Values, MaxLength,                                   \* FileShims
    MaxNames,                                                   \* JniMethods
    ElementKinds, ArrayLengths, Elements, Texts, Listings, MaxListed,
    MaxObjects, AUDIO_GRAIN                                     \* JavaObjects

MCKind == (ghosts :> 2) @@ (other :> 0)
Symmetry == Permutations(Threads) \cup Permutations(Askers)

(* A sample bank below and above the limit, a shader that is there or not, a
   card without anything, and memory.cfg with lines that the rules match, with
   plain and conditional sizes, and lines that they must leave alone. *)
Placeholder == "errormissing"
AssetKind == [movie |-> "movie", bank |-> "bank", shader |-> "shader", memory |-> "config"]
SmallRules == <<[name |-> "A_GEN", size |-> "60M"], [name |-> "B_GEN", size |-> "8M"]>>

Item(n, s) == <<" ", n, " ", "size=">> \o s \o <<",", "x">>
Conditional == <<"{", "{", "pc", "}", "?", "20M", ",", "100M", "}">>
SmallConfigs ==
    {Item("A_GEN", s) \o <<"\n">> \o Item(n, <<"20M">>) :
        s \in {<<>>, Conditional}, n \in {"A_GEN", "B_GEN", "C_GEN"}}
    \cup {<<"A_GEN", " ", "B_GEN", " ", "size=", "1", " ", "A_GEN", " ", "size=", "2", " ", "size=", "3">>,
          <<" ", "A_GEN", " ", "\n", " ", "size=", "1">>,
          <<"x", "A_GEN", " ", "size=", "1">>}
MCTexts == {<<65>>, <<233, 65>>, <<195, 169>>, <<321>>, <<65, 0, 65>>}
MCListings == {<<1>>, <<2, 1>>, <<1, 2, 1>>}
MCCards ==
    {(Placeholder :> <<"e">>) @@ (name :> <<1, 2, 3, 4, 5, 6, 7>>) : name \in {"bank", "shader"}}
    \cup {(Placeholder :> <<"e">>) @@ ("bank" :> <<1, 2>>), <<>>}
    \cup {("memory" :> f) : f \in SmallConfigs}

VARIABLES
    part,
    card, kernelFds, streams, pending_exception, pc, ret, seen, taken, want, at, got,
    disk, game, result, wanted,
    unknown_names, unknown_count, mpc, arg, slot, known,
    objects, java, port, audio_buf, audio_fill, write, due, lost, stopped

Assets == INSTANCE AssetStream WITH
    Threads <- Askers, Fds <- AssetFds, Kind <- AssetKind,
    ErrorMissing <- Placeholder, memcfg_rules <- SmallRules, kernel <- kernelFds
ASSUME AssetsBound == Assets!AssetsAssumption
Shims == INSTANCE FileShims WITH card <- disk, ret <- result
ASSUME ShimsBound == Shims!ShimsAssumption
Methods == INSTANCE JniMethods WITH Threads <- Lookers, Names <- LookedUp, pc <- mpc
ASSUME MethodsBound == Methods!MethodsAssumption
Objects == INSTANCE JavaObjects WITH Lengths <- ArrayLengths
ASSUME ObjectsBound == Objects!ObjectsAssumption

assetVars == <<card, kernelFds, streams, pending_exception, pc, ret, seen, taken, want, at, got>>
shimVars == <<disk, game, result, wanted>>
methodVars == <<unknown_names, unknown_count, mpc, arg, slot, known>>
objectVars == <<objects, java, port, audio_buf, audio_fill, write, due, lost, stopped>>
javaVars == <<methodVars, objectVars>>
all == <<part, vars, assetVars, shimVars, javaVars>>

FilesInit ==
    /\ part \in Parts
    /\ Init /\ Assets!Init /\ Shims!Init /\ Methods!Init /\ Objects!Init
    /\ part # "assets" => card = <<>>
FilesNext ==
    \/ part = "saves" /\ Next /\ UNCHANGED <<part, assetVars, shimVars, javaVars>>
    \/ part = "assets" /\ Assets!Next /\ UNCHANGED <<part, vars, shimVars, javaVars>>
    \/ part = "paths" /\ Shims!Next /\ UNCHANGED <<part, vars, assetVars, javaVars>>
    \/ part = "methods" /\ Methods!Next /\ UNCHANGED <<part, vars, assetVars, shimVars, objectVars>>
    \/ part = "objects" /\ Objects!Next /\ UNCHANGED <<part, vars, assetVars, shimVars, methodVars>>
FilesSpec == FilesInit /\ [][FilesNext]_all

(* A read brings what is at the game's place, and memory.cfg as its rules
   rewrite it (jni_patch.c:109-198). *)
ReadsWanted == Assets!TypeOK /\ Assets!ReadsWanted /\ Assets!RewriteExact

(* An open that gives up leaks no descriptor, and the thread whose call failed
   sees its exception unless another thread cleared it (jni_patch.c:150-178,418). *)
FailsCleanly == Assets!FdsOwned /\ Assets!NoticesFailure

(* However the game spells a path, the calls behind fix_path do to the file of
   that name what Android's would (default_dynlib.c:227-252,282-319). *)
SamePlace == Shims!SamePlace

(* The method that is called is the one that was looked up, whatever other
   threads look up, and a field is a zero of its type (jni_patch.c:326-352,388-392,513-642). *)
CallsRightMethod == Methods!TypeOK /\ Methods!CallsRightMethod /\ Methods!FieldsAreZero

(* "Return type must match the Call<Type>Method used" (jni_patch.c:229). *)
TypesMatch == Methods!TypesMatch

(* "Unknown names return a numbered id" (jni_patch.c:3-4). *)
NumberedIds == Methods!NumberedIds

(* What is put into an array comes out of it, element by element and by regions,
   and out of a string what it was made of, as bytes or as units; and the port
   plays a short[] in order, also when another thread stops the track between two
   writes (jni_patch.c:45-93,204-211,393-486,642-693). *)
JavaDataKept == Objects!TypeOK /\ Objects!ObjectsKept /\ Objects!PlayedInOrder
=============================================================================

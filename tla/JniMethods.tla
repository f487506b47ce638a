----------------------------- MODULE JniMethods -----------------------------
(***************************************************************************)
(* Methods of the Java side by name (loader/jni_patch.c:212-392, 513-642): *)
(* ids for them, the growing table of names nobody knows, which no lock    *)
(* protects, and what a call through a slot of the environment runs.       *)
(*                                                                         *)
(* Of the table of methods there is one entry for each kind of function    *)
(* in it and each name that is in it twice; the other entries are further  *)
(* names of retv, ret0, ret1 and of constants.  Arguments are left out.    *)
(***************************************************************************)
EXTENDS Integers, Sequences

CONSTANTS
    Threads,
    Names,      \* of methods that the game looks up
    MaxNames    \* 512

MethodsAssumption == MaxNames \in Nat

NULL == "null"
UNKNOWN_BASE == 1000
M_OPEN == 900
special == <<"open", "openFd", "list", "read", "skip", "close",
             "getLength", "available", "reset", "mark", "getAssets">>
M_GETASSETS == M_OPEN + 10

Entry(n, f) == [name |-> n, func |-> f]
methods ==
    <<Entry("eglGetDisplay", "ret1"), Entry("eglGetError", "ret0"), Entry("exitApp", "retv"),
      Entry("eglSwapBuffers", "egl_swap"), Entry("eglQueryString", "lang"),
      Entry("write", "audio_write"), Entry("GetDisplayDensity", "density"),
      Entry("GetDeviceName", "device_name"), Entry("GetBatteryLevel", "ret1"),
      Entry("IsPowerConnected", "ret1"), Entry("Play", "video_play"),
      Entry("GenerateUniqueNotificationId", "notif_id"), Entry("GetBatteryLevel", "f_battery"),
      Entry("GetCommandLineArguments", "empty_str_array"), Entry("GetDpiX", "f_dpi"),
      Entry("IsPowerConnected", "ret1"), Entry("GetDeviceName", "device_name")>>
NMETHODS == Len(methods)

VARIABLES
    unknown_names, unknown_count,
    pc, arg, slot,    \* per thread: where in GetMethodID it is, for which name, the slot it took
    known             \* names with the ids the game has for them

vars == <<unknown_names, unknown_count, pc, arg, slot, known>>

Init ==
    /\ unknown_names = [i \in 0..(MaxNames - 1) |-> NULL] /\ unknown_count = 0
    /\ pc = [t \in Threads |-> "idle"]
    /\ arg = [t \in Threads |-> NULL] /\ slot = [t \in Threads |-> 0]
    /\ known = {}

FirstOf(S) == CHOOSE i \in S : \A j \in S : i <= j
InSpecial(n) == {i \in DOMAIN special : special[i] = n}
InMethods(n) == {i \in 1..NMETHODS : methods[i].name = n}
Unknown(n) == InSpecial(n) = {} /\ InMethods(n) = {}

Returned(t, n, id) ==
    /\ known' = known \cup {<<n, id>>}
    /\ pc' = [pc EXCEPT ![t] = "idle"] /\ arg' = [arg EXCEPT ![t] = NULL]
Running == \A t \in Threads : pc[t] # "crashed"

\* The tables that never change are searched first.
GetMethodID(t, n) ==
    /\ Running /\ pc[t] = "idle"
    /\ IF Unknown(n)
       THEN /\ pc' = [pc EXCEPT ![t] = "scan"] /\ arg' = [arg EXCEPT ![t] = n]
            /\ UNCHANGED known
       ELSE Returned(t, n, IF InSpecial(n) # {} THEN M_OPEN + FirstOf(InSpecial(n)) - 1
                           ELSE FirstOf(InMethods(n)))
    /\ UNCHANGED <<unknown_names, unknown_count, slot>>

\* The names met so far; a slot that was counted but not written is a null pointer.
Scan(t) ==
    /\ Running /\ pc[t] = "scan"
    /\ LET stop == {i \in 0..(unknown_count - 1) :
                        i >= MaxNames \/ unknown_names[i] \in {NULL, arg[t]}}
       IN  IF stop = {}
           THEN pc' = [pc EXCEPT ![t] = "store"] /\ UNCHANGED <<arg, known>>
           ELSE IF FirstOf(stop) < MaxNames /\ unknown_names[FirstOf(stop)] = arg[t]
           THEN Returned(t, arg[t], UNKNOWN_BASE + FirstOf(stop))
           ELSE pc' = [pc EXCEPT ![t] = "crashed"] /\ UNCHANGED <<arg, known>>
    /\ UNCHANGED <<unknown_names, unknown_count, slot>>

Store(t) ==
    /\ Running /\ pc[t] = "store"
    /\ unknown_names' = IF unknown_count < MaxNames
                        THEN [unknown_names EXCEPT ![unknown_count] = arg[t]] ELSE unknown_names
    /\ slot' = [slot EXCEPT ![t] = unknown_count]
    /\ pc' = [pc EXCEPT ![t] = "load"]
    /\ UNCHANGED <<unknown_count, arg, known>>

\* unknown_count++ loads the count again, or the compiler kept it, and stores it later.
Load(t) ==
    /\ Running /\ pc[t] = "load"
    /\ \E c \in {slot[t], unknown_count} : slot' = [slot EXCEPT ![t] = c]
    /\ pc' = [pc EXCEPT ![t] = "count"]
    /\ UNCHANGED <<unknown_names, unknown_count, arg, known>>
Count(t) ==
    /\ Running /\ pc[t] = "count"
    /\ unknown_count' = slot[t] + 1
    /\ Returned(t, arg[t], UNKNOWN_BASE + slot[t])
    /\ UNCHANGED <<unknown_names, slot>>

\* A process that crashed stays as it is.
Crashed == ~Running /\ UNCHANGED vars

Next ==
    \/ \E t \in Threads :
        \/ \E n \in Names : GetMethodID(t, n)
        \/ Scan(t) \/ Store(t) \/ Load(t) \/ Count(t)
    \/ Crashed
Spec == Init /\ [][Next]_vars

----------------------------------------------------------------------------
(* Calls *)

lookupFromZero(id) == IF id \in 0..(NMETHODS - 1) THEN methods[id + 1].func ELSE NULL   \* mutant
lookup(id) == IF id \in 1..NMETHODS THEN methods[id].func ELSE NULL

CallSlotsShifted(n) ==                                                         \* mutant
    LET k == IF n < 114 THEN n - 34 ELSE n - 117 IN
    CASE k \in 21..22 -> "Float" [] k \in 23..26 -> "zero" [] OTHER -> "Int"
InFamily(n) == IF n < 114 THEN n - 34 ELSE n - 114
\* What of the family Call<Type>Method, CallStatic<Type>Method sits in a slot.
CallSlots(n) ==
    LET k == InFamily(n) IN
    CASE k \in 0..2 -> "Object"  [] k \in 3..5 -> "Boolean"
      [] k \in 6..17 -> "Int"    [] k \in 18..20 -> "Long"
      [] k \in 21..22 -> "Float" [] k \in 27..29 -> "Void"
      [] OTHER -> "zero"

FieldSlotsInt(n) ==                                                            \* mutant
    LET k == IF n < 144 THEN n - 95 ELSE n - 145 IN
    CASE k \in 0..6 -> "int" [] k = 7 -> "float" [] k = 8 -> "double" [] OTHER -> "nothing"
\* The zero that a slot of Get<Type>Field, GetStatic<Type>Field answers; Set does nothing.
FieldSlots(n) ==
    LET k == IF n < 144 THEN n - 95 ELSE n - 145 IN
    CASE k \in 0..5 -> "int" [] k = 6 -> "long" [] k = 7 -> "float"
      [] k = 8 -> "double" [] OTHER -> "nothing"
special_call(id) == special[id - M_OPEN + 1]

\* The function that a call of this method runs.  For an id beyond the tables
\* nothing runs; with "..." and va_list, what was counted is also looked up by
\* its number, among the names and the warnings given, which are MaxNames each.
Outside == "outside"
CountedAny(id) == id >= UNKNOWN_BASE                             \* mutant
Counted(id) == id >= UNKNOWN_BASE /\ id - UNKNOWN_BASE < unknown_count
CallA(id) == IF id \in M_OPEN..M_GETASSETS THEN special_call(id) ELSE lookup(id)
CallV(id) == IF Counted(id) /\ id - UNKNOWN_BASE >= MaxNames THEN Outside ELSE CallA(id)
CallFloatMethodV(id) == lookup(id)
Runs(n, id) ==
    CASE CallSlots(n) = "zero" -> NULL
      [] CallSlots(n) = "Float" -> CallFloatMethodV(id)
      [] CallSlots(n) \notin {"zero", "Float"} /\ InFamily(n) % 3 = 2 -> CallA(id)
      [] OTHER -> CallV(id)
----------------------------------------------------------------------------
\* jni.h: the slots of Call<Type>Method, with "...", va_list and an array.
Types == <<"Object", "Boolean", "Byte", "Char", "Short", "Int", "Long", "Float", "Double", "Void">>
JniSlot(static, type, form) == (IF static THEN 114 ELSE 34) + 3 * (type - 1) + form
JniField(static, set, type) == (IF static THEN 145 ELSE 95) + (IF set THEN 9 ELSE 0) + type - 1
Width == [Long |-> "long", Float |-> "float", Double |-> "double"]
\* What a function returns, and what is taken from one by a slot: nothing, a long,
\* a float, or a word, which a Byte and a reference also are.
Returns(f) ==
    CASE f \in {"f_dpi", "f_battery", "density"} -> "float" [] f = "retv" -> "nothing"
      [] OTHER -> "word"
Taken(type) ==
    CASE type = "Void" -> "nothing" [] type \in DOMAIN Width -> Width[type] [] OTHER -> "word"

\* Nothing here returns a double, nor takes arguments for a float as an array.
NotCalled(type, form) == Types[type] = "Double" \/ (Types[type] = "Float" /\ form = 2)

TypeOK ==
    /\ unknown_names \in [0..(MaxNames - 1) -> Names \cup {NULL}]
    /\ unknown_count \in Nat
    /\ pc \in [Threads -> {"idle", "scan", "store", "load", "count", "crashed"}]
    /\ arg \in [Threads -> Names \cup {NULL}] /\ slot \in [Threads -> Nat]
    /\ known \subseteq Names \X Nat

Named(n) == {methods[i].func : i \in InMethods(n)}
Meant(n) ==
    CASE InSpecial(n) # {} -> {n} [] InMethods(n) # {} -> Named(n) [] OTHER -> {NULL}

(* No object has fields: one reads as a zero as wide as its type, in every slot
   of that type, and is written without effect (jni_patch.c:604-642). *)
FieldsAreZero ==
    \A static \in BOOLEAN, type \in DOMAIN Types \ {Len(Types)} :
        /\ FieldSlots(JniField(static, FALSE, type)) =
               IF Types[type] \in DOMAIN Width THEN Width[Types[type]] ELSE "int"
        /\ FieldSlots(JniField(static, TRUE, type)) = "nothing"

(* Whatever other threads look up meanwhile, a method called by its id, through
   any slot of its type, is one with its name, whose result the slot takes in the
   width of its type; and nothing runs for a name that no table has, nor is
   anything outside of the names read, as long as there are no more of them than
   the table holds (jni_patch.c:326-352, 388-392, 513-603). *)
CallsRightMethod ==
    /\ \A static \in BOOLEAN, type \in DOMAIN Types, form \in 0..2 :
          ~NotCalled(type, form) => Taken(CallSlots(JniSlot(static, type, form))) = Taken(Types[type])
    /\ \A k \in known : LET meant == Meant(k[1]) IN
          \A static \in BOOLEAN, type \in DOMAIN Types, form \in 0..2 :
             ~NotCalled(type, form) =>
                LET f == Runs(JniSlot(static, type, form), k[2]) IN
                \/ f \in IF Types[type] = "Float" /\ InSpecial(k[1]) # {} THEN {NULL} ELSE meant
                \/ f = Outside /\ unknown_count > MaxNames

(* "Return type must match the Call<Type>Method used" (jni_patch.c:229): a call
   runs a function of the slot's type if there is one of that name, which a name
   that is in the table with two types breaks. *)
TypesMatch ==
    \A static \in BOOLEAN, type \in DOMAIN Types, form \in 0..2, k \in known :
        ~NotCalled(type, form) /\ (\E f \in Named(k[1]) : Returns(f) = Taken(Types[type])) =>
            LET f == Runs(JniSlot(static, type, form), k[2]) IN Returns(f) = Taken(Types[type])

(* "unknown names return a numbered id" (jni_patch.c:3-4): two of them never the
   same, which two threads at once break. *)
NumberedIds ==
    /\ Running
    /\ \A k, l \in known : k[1] # l[1] => k[2] # l[2] \/ k[2] < UNKNOWN_BASE
=============================================================================

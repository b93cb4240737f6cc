--------------------------- MODULE ExtensionList ---------------------------
(***************************************************************************)
(* The way of the instance extensions: SDL names them one by one,          *)
(* get_instance_extensions of sdl_display.c joins them to one string, and  *)
(* split_list of gpu_device.c cuts a copy of it into names again for       *)
(* vkCreateInstance, logging it on the way.  One step is one turn of a     *)
(* loop; log_at also prints what the rest of the program logs.             *)
(***************************************************************************)
EXTENDS LogLines

CONSTANTS
  MaxExtensions,   \* MAX_EXTENSIONS, 32 in the code
  Letters,         \* the characters of a name
  NameLists,       \* what SDL_Vulkan_GetInstanceExtensions may name
  Texts            \* what the rest of the program logs

ASSUME LettersAssumption == Letters \cap {" ", "\n", "nul"} = {}
ASSUME MaxExtensionsAssumption == MaxExtensions \in Nat \ {0}
ASSUME NameListsAssumption ==
  \A ns \in NameLists : ns \in Seq(Seq(Letters) \ {<<>>}) \ {<<>>}
ASSUME TextsAssumption == \A t \in Texts : t \in Seq(Letters \cup {"\n"})

VARIABLES
  pc,              \* which loop is running
  names,           \* ext_list, as a sequence of names
  listLen,         \* list_len, and the size of what is allocated
  list,            \* the characters of instance_extensions, then of its copy
  i,               \* the counter of the loop
  num,             \* num_elements
  array,           \* the elements of array, as offsets in the list
  lastElement      \* last_element - list

vars == <<pc, names, listLen, list, i, num, array, lastElement, logVars>>

LogChars == Letters \cup {"#", "\n"}

(* log_at's line_len is a size_t: the length that is copied never wraps.   *)
TypeOK ==
  /\ pc \in {"idle", "measure", "join", "count", "log", "cut", "create", "undefined"}
  /\ names \in Seq(Seq(Letters))
  /\ list \in Seq(Letters \cup {" ", "\n", "nul"})
  /\ i \in Nat /\ num \in Nat /\ lastElement \in Nat /\ listLen \in Nat
  /\ array \in Seq(Nat)
  /\ text \in Seq(LogChars) /\ printed \in Seq(Seq(LogChars))
  /\ idx \in Nat /\ lineLen \in Nat /\ lastLine \in Nat
  /\ logging \in {"none", "loop", "done", "undefined"}
  /\ AtLineEnd => CopyLen \in Nat

Init ==
  /\ pc = "idle"
  /\ names = <<>>
  /\ listLen = 0
  /\ list = <<>>
  /\ i = 0
  /\ num = 0
  /\ array = <<>>
  /\ lastElement = 0
  /\ LogInit

(* Every other function waits until log_at has returned.                   *)
Running(where) == pc = where /\ logging = "none"

(* Any other call of log_at, from the main loop or by debug_callback.      *)
Log(t) ==
  /\ Running("idle")
  /\ LogAt(t)
  /\ UNCHANGED <<pc, names, listLen, list, i, num, array, lastElement>>

---------------------------------------------------------------------------
(* get_instance_extensions.                                                *)

(* Mutant: room for the NUL, and none for the spaces.                      *)
GetNamesShort(ns) ==
  /\ Running("idle")
  /\ pc' = "measure"
  /\ names' = ns
  /\ listLen' = 1
  /\ i' = 0
  /\ UNCHANGED <<list, num, array, lastElement, logVars>>

(* SDL_Vulkan_GetInstanceExtensions, and a space or NUL for each name.     *)
GetNames(ns) ==
  /\ Running("idle")
  /\ pc' = "measure"
  /\ names' = ns
  /\ listLen' = Len(ns)
  /\ i' = 0
  /\ UNCHANGED <<list, num, array, lastElement, logVars>>

(* The answer of SDL is not looked at.  When it fails, the first loop      *)
(* follows pointers that were never set; when it names no extension, the   *)
(* NUL is written to an allocation of no bytes.                            *)
GetNoNames ==
  /\ Running("idle")
  /\ pc' = "undefined"
  /\ UNCHANGED <<names, listLen, list, i, num, array, lastElement, logVars>>

(* The first loop.                                                         *)
Measure ==
  /\ Running("measure")
  /\ i < Len(names)
  /\ listLen' = listLen + Len(names[i + 1])
  /\ i' = i + 1
  /\ UNCHANGED <<pc, names, list, num, array, lastElement, logVars>>

(* malloc.                                                                 *)
Allocate ==
  /\ Running("measure")
  /\ i = Len(names)
  /\ pc' = "join"
  /\ list' = <<>>
  /\ i' = 0
  /\ UNCHANGED <<names, listLen, num, array, lastElement, logVars>>

(* The second loop.                                                        *)
Join ==
  /\ Running("join")
  /\ i < Len(names)
  /\ list' = list \o names[i + 1] \o (IF i < Len(names) - 1 THEN <<" ">> ELSE <<>>)
  /\ i' = i + 1
  /\ UNCHANGED <<pc, names, listLen, num, array, lastElement, logVars>>

(* The NUL; gpu_device_new then gives a copy of the list to split_list.    *)
EndList ==
  /\ Running("join")
  /\ i = Len(names)
  /\ pc' = "count"
  /\ list' = Append(list, "nul")
  /\ i' = 0
  /\ num' = 0
  /\ UNCHANGED <<names, listLen, array, lastElement, logVars>>

---------------------------------------------------------------------------
(* split_list.  The list is not empty; its last character is the NUL.      *)

(* Mutant: the spaces are left as they are.                                *)
CountKeeps ==
  /\ Running("count")
  /\ i < Len(list)
  /\ num' = IF list[i + 1] \in {" ", "nul"} THEN num + 1 ELSE num
  /\ i' = i + 1
  /\ UNCHANGED <<pc, names, listLen, list, array, lastElement, logVars>>

(* The first loop: spaces become newlines, and an element is counted for   *)
(* each and for the NUL.                                                   *)
Count ==
  /\ Running("count")
  /\ i < Len(list)
  /\ list' = [list EXCEPT ![i + 1] = IF @ = " " THEN "\n" ELSE @]
  /\ num' = IF list[i + 1] \in {" ", "nul"} THEN num + 1 ELSE num
  /\ i' = i + 1
  /\ UNCHANGED <<pc, names, listLen, array, lastElement, logVars>>

(* LOG_INF: the number of elements, a newline, and the list up to its NUL. *)
LogList ==
  /\ Running("count")
  /\ i = Len(list)
  /\ pc' = "log"
  /\ LogAt(<<"#", "\n">> \o SubSeq(list, 1, Len(list) - 1))
  /\ UNCHANGED <<names, listLen, list, i, num, array, lastElement>>

(* More elements than the array has are an error, and none are used.       *)
TestNum ==
  /\ Running("log")
  /\ array' = <<>>
  /\ lastElement' = 0
  /\ i' = 0
  /\ \/ /\ num > MaxExtensions
        /\ pc' = "create"
        /\ num' = 0
     \/ /\ num <= MaxExtensions
        /\ pc' = "cut"
        /\ UNCHANGED num
  /\ UNCHANGED <<names, listLen, list, logVars>>

InElement ==
  /\ Running("cut")
  /\ i < Len(list)
  /\ list[i + 1] \notin {"\n", "nul"}
  /\ i' = i + 1
  /\ UNCHANGED <<pc, names, listLen, list, num, array, lastElement, logVars>>

(* Mutant: the newline stays where it is.                                  *)
CutNot ==
  /\ Running("cut")
  /\ i < Len(list)
  /\ list[i + 1] \in {"\n", "nul"}
  /\ array' = Append(array, lastElement)
  /\ lastElement' = i + 1
  /\ i' = i + 1
  /\ UNCHANGED <<pc, names, listLen, list, num, logVars>>

(* The second loop: an element ends at a newline, too.                     *)
Cut ==
  /\ Running("cut")
  /\ i < Len(list)
  /\ list[i + 1] \in {"\n", "nul"}
  /\ list' = [list EXCEPT ![i + 1] = "nul"]
  /\ array' = Append(array, lastElement)
  /\ lastElement' = i + 1
  /\ i' = i + 1
  /\ UNCHANGED <<pc, names, listLen, num, logVars>>

SplitReturn ==
  /\ Running("cut")
  /\ i = Len(list)
  /\ pc' = "create"
  /\ UNCHANGED <<names, listLen, list, i, num, array, lastElement, logVars>>

(* vkCreateInstance; the copy is freed, and create_instance returns.       *)
CreateInstance ==
  /\ Running("create")
  /\ pc' = "idle"
  /\ names' = <<>>
  /\ listLen' = 0
  /\ list' = <<>>
  /\ array' = <<>>
  /\ i' = 0
  /\ num' = 0
  /\ lastElement' = 0
  /\ UNCHANGED logVars

(* What comes after an access outside of a buffer is undefined.            *)
Lost == (logging = "undefined" \/ pc = "undefined") /\ UNCHANGED vars

Next ==
  \/ \E t \in Texts : Log(t)
  \/ LogStep /\ UNCHANGED <<pc, names, listLen, list, i, num, array, lastElement>>
  \/ \E ns \in NameLists : GetNames(ns)
  \/ GetNoNames
  \/ Measure
  \/ Allocate
  \/ Join
  \/ EndList
  \/ Count
  \/ LogList
  \/ TestNum
  \/ InElement
  \/ Cut
  \/ SplitReturn
  \/ CreateInstance
  \/ Lost

Spec == Init /\ [][Next]_vars

---------------------------------------------------------------------------
(* The string that starts at an offset of the list.                        *)
StringAt(from) ==
  SubSeq(list, from + 1,
         CHOOSE n \in from .. Len(list) : list[n + 1] = "nul"
                                            /\ \A m \in from .. n - 1 : list[m + 1] # "nul")

(* vkCreateInstance is given the names that SDL asked for, in SDL's order, *)
(* although the number of elements comes from one loop and the elements    *)
(* from another that cuts by other rules; if there are too many of them it *)
(* is given none.                                                          *)
ExtensionsArrive ==
  pc = "create" =>
    IF Len(names) > MaxExtensions THEN num = 0
    ELSE num = Len(names) /\ \A k \in 1 .. num : StringAt(array[k]) = names[k]

(* When SDL has named at least one extension, the joined list and its NUL  *)
(* fit what the first loop has measured, and split_list stores no more     *)
(* elements than the array has or it returns.  Without a name they do not  *)
(* fit, and pc is "undefined".                                             *)
StaysInBounds ==
  /\ pc = "join" => Len(list) + 1 <= listLen
  /\ pc = "count" => Len(list) <= listLen
  /\ pc = "cut" => Len(array) <= num /\ num <= MaxExtensions

(* split_list turns the spaces into newlines before it logs the list: each *)
(* name is then a line of its own, unless the buffers are too small.       *)
ListLogged == pc = "log" /\ logging = "done" => printed = <<<<"#">>>> \o names

---------------------------------------------------------------------------
(* The four, with LogPrints, are part of an inductive invariant.  The list *)
(* is at all times the names cut at separators, whatever these are.        *)
Separators == {" ", "\n", "nul"}

Characters(ns, n) == Cardinality(UNION {{<<k, c>> : c \in 1 .. Len(ns[k])} : k \in 1 .. n})

Measuring ==
  pc = "measure" =>
    /\ names \in NameLists
    /\ i <= Len(names)
    /\ listLen = Len(names) + Characters(names, i)

Joining ==
  pc = "join" =>
    /\ names \in NameLists /\ list \in Seq(Letters \cup {" "})
    /\ i <= Len(names)
    /\ listLen = Len(names) + Characters(names, Len(names))
    /\ Len(list) = Characters(names, i) + (IF i < Len(names) THEN i ELSE i - 1)
    /\ LET joined == SubSeq(names, 1, i)
       IN  Fields(list, Separators) = IF i < Len(names) THEN Append(joined, <<>>) ELSE joined

(* The NUL is the last of the separators.                                  *)
Joined == names \in NameLists /\ Fields(list, Separators) = Append(names, <<>>)

EndsInNul == \A n \in DOMAIN list : list[n] = "nul" <=> n = Len(list)

Counting ==
  pc = "count" =>
    /\ Joined
    /\ EndsInNul
    /\ i <= Len(list) /\ Len(list) <= listLen
    /\ \A n \in DOMAIN list : list[n] # (IF n <= i THEN " " ELSE "\n")
    /\ num = Before(list, Separators, i + 1)

Counted ==
  pc = "log" =>
    /\ Joined
    /\ EndsInNul
    /\ " " \notin ToSet(list)
    /\ num = Len(names)
    /\ logging # "none" => text = <<"#", "\n">> \o SubSeq(list, 1, Len(list) - 1)

(* The elements are the starts of the names.                               *)
Elements == \A k \in DOMAIN array : array[k] = Start(list, Separators, k)

Cutting ==
  pc = "cut" =>
    /\ Joined
    /\ i <= Len(list)
    /\ \A n \in DOMAIN list : list[n] # " " /\ (n <= i => list[n] # "\n")
    /\ num = Len(names) /\ num <= MaxExtensions
    /\ Elements
    /\ Len(array) = Before(list, Separators, i + 1)
    /\ lastElement = Start(list, Separators, Len(array) + 1)

Creating ==
  pc = "create" =>
    /\ Joined
    /\ IF Len(names) > MaxExtensions THEN num = 0
       ELSE /\ ToSet(list) \cap {" ", "\n"} = {}
            /\ num = Len(names)
            /\ Elements
            /\ Len(array) = num

TextInv ==
  /\ TypeOK
  /\ Printing
  /\ LogPrints
  /\ Measuring
  /\ Joining
  /\ Counting
  /\ Counted
  /\ Cutting
  /\ Creating
=============================================================================

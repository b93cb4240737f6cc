------------------------------ MODULE LogLines ------------------------------
(***************************************************************************)
(* log_at of log.c: a text is formatted into a buffer on the stack and the *)
(* buffer is cut into lines, each of which is copied to a second buffer    *)
(* and printed.  One step is one turn of the loop.                         *)
(*                                                                         *)
(* Colours, brackets and the heading with file and line are left out.      *)
(***************************************************************************)
EXTENDS Integers, SequencesExt

CONSTANTS
  BufferSize,      \* sizeof (message), 512 in the code
  LineSize         \* sizeof (line), 256

ASSUME SizesAssumption == BufferSize \in Nat \ {0} /\ LineSize \in Nat \ {0}

VARIABLES
  text,            \* what fmt and its arguments stand for
  idx, lineLen,    \* as in log_at
  lastLine,        \* last_line - message
  printed,         \* the lines printed, the heading left out
  logging          \* "none", in the "loop", "done", or "undefined"

logVars == <<text, idx, lineLen, lastLine, printed, logging>>

LogInit ==
  /\ text = <<>>
  /\ idx = 0
  /\ lineLen = 0
  /\ lastLine = 0
  /\ printed = <<>>
  /\ logging = "none"

(* The heading and vsnprintf: as much of the text as fits, and a NUL.  len *)
(* is the length that the whole text has.                                  *)
LogAt(t) ==
  /\ text' = t
  /\ idx' = 0
  /\ lineLen' = 0
  /\ lastLine' = 0
  /\ printed' = <<>>
  /\ logging' = "loop"

Kept == IF Len(text) < BufferSize THEN text ELSE SubSeq(text, 1, BufferSize - 1)

Message(n) == IF n < Len(Kept) THEN Kept[n + 1] ELSE "nul"

Turn == logging = "loop" /\ idx <= Len(text)

Undefined == logging' = "undefined" /\ UNCHANGED <<text, idx, lineLen, lastLine, printed>>

(* The text is longer than the buffer, and the loop reads on behind it.    *)
ReadPastBuffer ==
  /\ Turn
  /\ idx >= BufferSize
  /\ Undefined

InLine ==
  /\ Turn
  /\ idx < BufferSize
  /\ Message(idx) \notin {"\n", "nul"}
  /\ idx' = idx + 1
  /\ lineLen' = lineLen + 1
  /\ UNCHANGED <<text, lastLine, printed, logging>>

AtLineEnd == Turn /\ idx < BufferSize /\ Message(idx) \in {"\n", "nul"}

(* Mutant: the length of a later line is not corrected.                    *)
CopyLenUncorrected == lineLen

(* Mutant: the length of every line that ends in \n is corrected.          *)
CopyLenAlways == IF Message(idx) = "\n" THEN lineLen - 1 ELSE lineLen

(* line_len has counted the \n that ended the line before.                 *)
CopyLen == IF Message(idx) = "\n" /\ lastLine # 0 THEN lineLen - 1 ELSE lineLen

(* What fprintf shows of the CopyLen bytes from last_line.                 *)
Copied ==
  LET end == lastLine + CopyLen
  IN  SubSeq(Kept, lastLine + 1, IF end < Len(Kept) THEN end ELSE Len(Kept))

PrintLine ==
  /\ AtLineEnd
  /\ CopyLen < LineSize
  /\ printed' = Append(printed, Copied)
  /\ lastLine' = IF Message(idx) = "\n" THEN idx + 1 ELSE idx
  /\ idx' = idx + 1
  /\ lineLen' = 1
  /\ UNCHANGED <<text, logging>>

(* The line and its NUL are longer than the second buffer.                 *)
WritePastLine ==
  /\ AtLineEnd
  /\ CopyLen >= LineSize
  /\ Undefined

LogReturn ==
  /\ logging = "loop"
  /\ idx > Len(text)
  /\ logging' = "done"
  /\ UNCHANGED <<text, idx, lineLen, lastLine, printed>>

(* The caller goes on, and the locals of log_at are no more.               *)
LogLeave ==
  /\ logging = "done"
  /\ text' = <<>>
  /\ idx' = 0
  /\ lineLen' = 0
  /\ lastLine' = 0
  /\ printed' = <<>>
  /\ logging' = "none"

LogStep == ReadPastBuffer \/ InLine \/ PrintLine \/ WritePastLine \/ LogReturn \/ LogLeave

---------------------------------------------------------------------------
(* The reference: the pieces of a text between the marks.  How many marks  *)
(* are before a place, and where the k-th piece ends.                      *)
Before(t, marks, n) == Cardinality({m \in 1 .. n - 1 : t[m] \in marks})

IsEnd(t, marks, k, n) ==
  Before(t, marks, n) = k - 1 /\ (n <= Len(t) => t[n] \in marks)

End(t, marks, k) == CHOOSE n \in 1 .. Len(t) + 1 : IsEnd(t, marks, k, n)

Start(t, marks, k) == IF k = 1 THEN 0 ELSE End(t, marks, k - 1)

FieldNum(t, marks) == Before(t, marks, Len(t) + 1) + 1

Field(t, marks, k) == SubSeq(t, Start(t, marks, k) + 1, End(t, marks, k) - 1)

Fields(t, marks) == [k \in 1 .. FieldNum(t, marks) |-> Field(t, marks, k)]

Lines(t) == Fields(t, {"\n"})

(* A last line that is not the first is copied with its NUL.               *)
Fits(t) ==
  LET lines == Lines(t)
  IN  /\ Len(t) < BufferSize
      /\ \A k \in DOMAIN lines :
           Len(lines[k]) < IF k > 1 /\ k = Len(lines) THEN LineSize - 1 ELSE LineSize

(* log_at prints each line of a text as it is, in order, the empty ones    *)
(* and the last one without a \n too; and it stays inside its two buffers  *)
(* for every text that fits them.                                          *)
LogPrints ==
  /\ logging = "undefined" => ~Fits(text)
  /\ logging = "done" => printed = Lines(text)
  /\ logging = "loop" /\ Fits(text) => IsPrefix(printed, Lines(text))

(* LogPrints follows from an invariant of the loop: the lines before idx   *)
(* are printed, last_line is where the next one starts, and line_len       *)
(* counts its characters and, but for the first, the \n before it.         *)
Printing ==
  logging \in {"loop", "done"} =>
    /\ idx <= BufferSize
    /\ IF idx <= Len(text)
       THEN /\ logging = "loop"
            /\ idx < BufferSize =>
                 /\ Len(printed) = Before(text, {"\n"}, idx + 1)
                 /\ \A k \in DOMAIN printed : printed[k] = Field(text, {"\n"}, k)
                 /\ lastLine = Start(text, {"\n"}, Len(printed) + 1)
                 /\ lineLen = idx - lastLine + (IF lastLine = 0 THEN 0 ELSE 1)
       ELSE printed = Lines(text) /\ Len(text) < BufferSize
=============================================================================

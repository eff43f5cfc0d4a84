---------------------------- MODULE LoggerFlush ----------------------------
(***************************************************************************)
(* Logger<true>::flush of lib/Support/Debug.cpp, composed with the shared  *)
(* indentation of LoggerIndent.                                            *)
(*                                                                         *)
(* Each logger has a Buffer that operator<< appends to while the logger   *)
(* is enabled (Debug.h).  flush(LogTerminator{File, Line}) prints the      *)
(* buffer to dbg: an optional "[file:line] " column of MaxLocationLength   *)
(* characters, a "[name] " column padded to MaxLoggerNameLength plus two   *)
(* spaces per indentation level, then the text; every further line of the  *)
(* buffer goes on its own output line behind a pad.  A character is "x"   *)
(* or NL; a file name is a sequence of "c" and "/".  The model keeps the  *)
(* widths of the printed columns and the text of every printed line, and  *)
(* computes each pad in size_t arithmetic, modulo 2^SizeBits.              *)
(***************************************************************************)
EXTENDS LoggerIndent

CONSTANTS
  NameLength,       \* NameLength[l]: Name.size() of logger l
  LocationLengths,  \* values the debug-location-max-length option can take
  Files,            \* __FILE__ values of LogTerminators
  LineNumbers,      \* __LINE__ values of LogTerminators
  MaxBuffer,        \* bound on the characters buffered by one logger
  SizeBits          \* width of size_t

VARIABLES
  MaxLocationLength,  \* the cl::opt, fixed from the command line
  buffer,             \* buffer[l]: l.Buffer
  emitted,            \* the lines dbg received from the last flush
  message,            \* ghost: the buffer contents that flush printed
  status              \* "running", or the assertion that aborted

flushVars == <<MaxLocationLength, buffer, emitted, message, status>>
allVars == <<vars, flushVars>>

NL == "nl"
Chars == {"x", NL}
SizeMod == 2 ^ SizeBits

\* LoggersRegistry (Debug.h) raises MaxLoggerNameLength to the length of
\* every logger it registers.
MaxLoggerNameLength == Max({NameLength[l] : l \in Loggers})

Running == status = "running"

-----------------------------------------------------------------------------
(* The location column, lines 47-62                                        *)

\* Twine(LineInfo.Line) in decimal.
RECURSIVE NumDigits(_)
NumDigits(n) == IF n < 10 THEN 1 ELSE 1 + NumDigits(n \div 10)

\* Suffix = ":" + the line number.
SuffixSize(ln) == 1 + NumDigits(ln)

\* Location.erase(0, Location.rfind("/") + 1), when there is a "/".
Basename(f) == SubSeq(f, SelectLastInSeq(f, LAMBDA c : c = "/") + 1, Len(f))

\* Mutant: the name cut one character longer than the room left.
TruncateOneLong(loc, room) ==
  IF Len(loc) > room THEN SubSeq(loc, 1, room + 1) ELSE loc

\* if (Location.size() > Max - Suffix.size()) Location.erase(Max - Suffix.size())
Truncate(loc, room) == IF Len(loc) > room THEN SubSeq(loc, 1, room) ELSE loc

Location(f, ln) == Truncate(Basename(f), MaxLocationLength - SuffixSize(ln))

\* Printed width of "[" Location Suffix "] " Pad, 0 with the option off.
LocationColumn(f, ln) ==
  IF MaxLocationLength = 0 THEN 0
  ELSE LET pad == (MaxLocationLength - Len(Location(f, ln)) - SuffixSize(ln)) % SizeMod
       IN  1 + Len(Location(f, ln)) + SuffixSize(ln) + 2 + pad

(* The name column and the pad of continuation lines, lines 64 and 77.    *)
(* IndentLevel * 2 is unsigned arithmetic, added to a size_t.              *)
Indent2 == (IndentLevel * 2) % Modulus

NameColumn(l) ==
  1 + NameLength[l] + 2
    + ((((MaxLoggerNameLength - NameLength[l]) % SizeMod) + Indent2) % SizeMod)

\* Mutant: the continuation pad without the indentation.
ContinuationPadNoIndent == (3 + MaxLoggerNameLength) % SizeMod

ContinuationPad == (3 + MaxLoggerNameLength + Indent2) % SizeMod

-----------------------------------------------------------------------------
(* The text, lines 67-83                                                   *)

\* Drop one trailing newline.
StripNL(d) == IF Len(d) > 0 /\ Last(d) = NL THEN Front(d) ELSE d

\* Data.find(Delimiter, Start) for the 1-based position s = Start + 1:
\* the position of the next NL, or 0 for npos.
FindNL(d, s) == SelectInSubSeq(d, s, Len(d), LAMBDA c : c = NL)

\* Mutant: Start = End, without skipping the delimiter, so every further
\* line begins with the newline it was split at.
RECURSIVE RestLinesNoSkip(_, _)
RestLinesNoSkip(d, e) ==
  LET e2 == FindNL(d, e + 1)
  IN  IF e2 = 0 THEN <<SubSeq(d, e, Len(d))>>
      ELSE <<SubSeq(d, e, e2 - 1)>> \o RestLinesNoSkip(d, e2)

\* The do-while loop after a NL at position e: Start = End + 1,
\* End = Data.find(NL, Start), print Data.substr(Start, End - Start).
RECURSIVE RestLines(_, _)
RestLines(d, e) ==
  LET e2 == FindNL(d, e + 1)
  IN  IF e2 = 0 THEN <<SubSeq(d, e + 1, Len(d))>>
      ELSE <<SubSeq(d, e + 1, e2 - 1)>> \o RestLines(d, e2)

\* The texts of the printed lines: Data.substr(0, End), then the loop.
SplitLines(d) ==
  LET e == FindNL(d, 1)
  IN  IF e = 0 THEN <<d>> ELSE <<SubSeq(d, 1, e - 1)>> \o RestLines(d, e)

\* What flush prints for logger l at LogTerminator{f, ln}: the columns in
\* front of each line's text, and the text.
FlushLines(l, f, ln) ==
  LET texts == SplitLines(StripNL(buffer[l]))
  IN  [i \in DOMAIN texts |->
         IF i = 1 THEN [loc |-> LocationColumn(f, ln), name |-> NameColumn(l),
                        text |-> texts[1]]
         ELSE [loc |-> 0, name |-> ContinuationPad, text |-> texts[i]]]

-----------------------------------------------------------------------------
FlushInit ==
  /\ Init
  /\ MaxLocationLength \in LocationLengths
  /\ buffer = [l \in Loggers |-> <<>>]
  /\ emitted = <<>>
  /\ message = <<>>
  /\ status = "running"

\* operator<<(Logger &, T) (Debug.h): append to Buffer if enabled.
Write(l, c) ==
  /\ isEnabled(l)
  /\ Len(buffer[l]) < MaxBuffer
  /\ buffer' = [buffer EXCEPT ![l] = Append(@, c)]
  /\ UNCHANGED <<vars, MaxLocationLength, emitted, message, status>>

\* The body of `if (X && Enabled)`; the suffix check is the revng_assert of
\* line 49, and Buffer.clear() (line 86) ends the branch.
FlushEnabled(l, f, ln) ==
  IF MaxLocationLength # 0 /\ SuffixSize(ln) >= MaxLocationLength
    THEN /\ status' = "assert_location"
         /\ UNCHANGED <<buffer, emitted, message>>
    ELSE /\ emitted' = FlushLines(l, f, ln)
         /\ message' = buffer[l]
         /\ buffer' = [buffer EXCEPT ![l] = <<>>]
         /\ UNCHANGED status

\* Mutant: Buffer.clear() moved after the if, so a disabled logger's
\* buffer is thrown away.
FlushClearsDisabled(l, f, ln) ==
  /\ IF isEnabled(l) THEN FlushEnabled(l, f, ln)
     ELSE /\ buffer' = [buffer EXCEPT ![l] = <<>>]
          /\ UNCHANGED <<emitted, message, status>>
  /\ UNCHANGED <<vars, MaxLocationLength>>

\* Logger<X>::flush(LineInfo).  A disabled logger does nothing, and keeps
\* its Buffer.
Flush(l, f, ln) ==
  /\ isEnabled(l)
  /\ FlushEnabled(l, f, ln)
  /\ UNCHANGED <<vars, MaxLocationLength>>

\* After an abort nothing happens any more.
Stopped == ~Running /\ UNCHANGED allVars

LoggingSteps ==
  \/ \E l \in Loggers, c \in Chars : Write(l, c)
  \/ \E l \in Loggers, f \in Files, ln \in LineNumbers : Flush(l, f, ln)

\* Logging inside the scopes of LoggerIndent, enabled flags fixed.
ScopedFlushNext ==
  \/ Running /\ ScopedNext /\ UNCHANGED flushVars
  \/ Running /\ LoggingSteps
  \/ Stopped

ScopedFlushSpec == FlushInit /\ [][ScopedFlushNext]_allVars

-----------------------------------------------------------------------------
(* Properties                                                              *)

\* The reference: lines joined back with NL between them.
JoinLines(ts) ==
  FlattenSeq([i \in 1..(2 * Len(ts) - 1) |->
                IF i % 2 = 1 THEN ts[(i + 1) \div 2] ELSE <<NL>>])

\* Whatever the buffer holds (empty, only newlines, a newline at either
\* end, several in a row), the lines flush prints contain no newline and,
\* joined by newlines, give back the buffer less one trailing newline: the
\* substr/find loop neither loses, duplicates nor misplaces a character.
FlushReproducesBuffer ==
  emitted # <<>> =>
    /\ \A i \in DOMAIN emitted : NL \notin ToSet(emitted[i].text)
    /\ JoinLines([i \in DOMAIN emitted |-> emitted[i].text]) = StripNL(message)

\* The location column is exactly MaxLocationLength + 3 characters wide for
\* every file name and line number the truncation lets through, so the
\* size_t pad at line 59 never wraps.
LocationColumnWidth ==
  emitted # <<>> /\ MaxLocationLength # 0 =>
    emitted[1].loc = MaxLocationLength + 3

\* Composed with the scopes of LoggerIndent: every line a flush prints
\* starts its text two columns further right per level of the open scopes
\* of enabled loggers, past a name column wide enough for every name.
IndentFollowsScopes ==
  [][emitted' # emitted =>
       \A i \in DOMAIN emitted' :
          emitted'[i].name = 3 + MaxLoggerNameLength + 2 * OpenLevels(isEnabled)]_allVars

\* The continuation pad (3 + MaxLoggerNameLength + 2 * IndentLevel) is the
\* width of the "[name] " column, meant to put every line of a message
\* under the text of its first line.
ContinuationAligned ==
  \A i \in 2..Len(emitted) :
    emitted[i].loc + emitted[i].name = emitted[1].loc + emitted[1].name

=============================================================================

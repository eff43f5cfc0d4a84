---------------------------- MODULE LoggerToggle ----------------------------
(***************************************************************************)
(* Logging with the loggers enabled and disabled at any time, around any  *)
(* write and flush, and setIndentation called in between: the whole of    *)
(* LoggerIndent's Next composed with LoggerFlush.                          *)
(*                                                                         *)
(* A flush on a disabled logger (Debug.cpp 44) neither prints nor clears  *)
(* the Buffer.  Two history variables record, per logger, every character *)
(* operator<< accepted and every buffer a flush printed, in order.         *)
(***************************************************************************)
EXTENDS LoggerFlush

CONSTANT
  MaxWritten  \* bound on the characters one logger accepts in a behaviour

VARIABLES
  written,  \* ghost: written[l], the characters l.Buffer received
  printed   \* ghost: printed[l], the texts of the lines flush printed, concatenated

ghostVars == <<written, printed>>
toggleVars == <<allVars, ghostVars>>

ToggleInit ==
  /\ FlushInit
  /\ written = [l \in Loggers |-> <<>>]
  /\ printed = [l \in Loggers |-> <<>>]

ToggleWrite(l, c) ==
  /\ Len(written[l]) < MaxWritten
  /\ Write(l, c)
  /\ written' = [written EXCEPT ![l] = Append(@, c)]
  /\ UNCHANGED printed

\* The lines the flush emitted, when it ran its enabled branch and did not
\* abort, are appended to what l printed.
ToggleFlush(l, f, ln) ==
  /\ Flush(l, f, ln)
  /\ printed' = IF isEnabled(l) /\ status' = "running"
                  THEN [printed EXCEPT ![l] =
                          @ \o FlattenSeq([i \in DOMAIN emitted' |-> emitted'[i].text])]
                  ELSE printed
  /\ UNCHANGED written

ToggleNext ==
  \/ Running /\ Next /\ UNCHANGED <<flushVars, ghostVars>>
  \/ Running /\ \E l \in Loggers, c \in Chars : ToggleWrite(l, c)
  \/ Running /\ \E l \in Loggers, f \in Files, ln \in LineNumbers : ToggleFlush(l, f, ln)
  \/ Stopped /\ UNCHANGED ghostVars

ToggleSpec == ToggleInit /\ [][ToggleNext]_toggleVars

\* The characters of s other than newlines, in order.
WithoutNL(s) == SelectSeq(s, LAMBDA c : c # NL)

-----------------------------------------------------------------------------
(* Properties                                                              *)

\* However a logger is disabled and enabled between its writes and flushes,
\* no text it accepted is lost, printed twice or printed with a newline
\* inside a line: the texts of the lines its flushes printed, followed by
\* what is still in its Buffer, are exactly the characters it was given,
\* newlines aside (they become line breaks).  This needs a flush while
\* disabled to keep the Buffer, and the split loop to cut every line
\* between two newlines, skipping the delimiter.
NoTextLost ==
  \A l \in Loggers : printed[l] \o WithoutNL(buffer[l]) = WithoutNL(written[l])

\* unindent's assertion (IndentLevel - Level >= 0, Debug.cpp 107) is there
\* to keep the indentation from going below zero.  Then no line a flush
\* prints has a name column wider than the longest name plus two columns
\* per level of everything callers can have indented: MaxScopes open
\* scopes on top of a setIndentation, of at most Max(Levels) each.
FlushPadBounded ==
  \A i \in DOMAIN emitted :
    emitted[i].name <= 3 + MaxLoggerNameLength + 2 * (MaxScopes + 1) * Max(Levels)

=============================================================================

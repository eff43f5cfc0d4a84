---------------------------- MODULE LoggerIndent ----------------------------
(***************************************************************************)
(* The indentation of Logger<true> in lib/Support/Debug.cpp.              *)
(*                                                                         *)
(* IndentLevel is a static `unsigned` of the template, so every logger     *)
(* shares it; indent, unindent and setIndentation change it only when the  *)
(* logger they are called on is enabled.  Callers indent in scopes that    *)
(* unindent by the same amount when they close, last opened first closed  *)
(* (the program is single-threaded); `scopes` is that stack of open       *)
(* scopes.  `unsigned` arithmetic is modulo 2^IndentBits.                  *)
(***************************************************************************)
EXTENDS Naturals, Sequences, SequencesExt

CONSTANTS
  Loggers,     \* the Logger<true> objects
  Levels,      \* amounts passed to indent / unindent / setIndentation
  IndentBits,  \* width of `unsigned`
  MaxScopes    \* bound on the number of scopes open at once

ASSUME Levels \subseteq Nat /\ IndentBits \in Nat /\ MaxScopes \in Nat

VARIABLES
  IndentLevel,  \* Logger<true>::IndentLevel
  enabled,      \* enabled[l]: l.isEnabled()
  scopes        \* open indentation scopes, innermost last

vars == <<IndentLevel, enabled, scopes>>

Modulus == 2 ^ IndentBits

Scope == [logger : Loggers, level : Levels]

\* Logger::isEnabled (Debug.h): the logger's own flag.
isEnabled(l) == enabled[l]

\* Logger<X>::indent(Level)
indent(l, k) == IF isEnabled(l) THEN (IndentLevel + k) % Modulus ELSE IndentLevel

\* Mutant: unindent without the isEnabled() check.
unindentUnconditional(l, k) == (IndentLevel - k) % Modulus

\* Logger<X>::unindent(Level): revng_assert(IndentLevel - Level >= 0) is an
\* unsigned comparison with 0 and always holds, so it never stops the
\* subtraction from wrapping.
unindent(l, k) == IF isEnabled(l) THEN (IndentLevel - k) % Modulus ELSE IndentLevel

-----------------------------------------------------------------------------
Init ==
  /\ IndentLevel = 0
  /\ enabled \in [Loggers -> BOOLEAN]
  /\ scopes = <<>>

\* A caller opens a scope on logger l: l.indent(k).
OpenScope(l, k) ==
  /\ Len(scopes) < MaxScopes
  /\ IndentLevel' = indent(l, k)
  /\ scopes' = Append(scopes, [logger |-> l, level |-> k])
  /\ UNCHANGED enabled

\* The innermost scope closes: l.unindent(k) with its logger and amount.
CloseScope ==
  /\ scopes # <<>>
  /\ IndentLevel' = unindent(Last(scopes).logger, Last(scopes).level)
  /\ scopes' = Front(scopes)
  /\ UNCHANGED enabled

\* Logger<X>::setIndentation(Level)
SetIndentation(l, k) ==
  /\ IndentLevel' = IF isEnabled(l) THEN k ELSE IndentLevel
  /\ UNCHANGED <<enabled, scopes>>

\* Logger::enable / Logger::disable (Debug.h), e.g. from the debug-log option.
SetEnabled(l, b) ==
  /\ enabled' = [enabled EXCEPT ![l] = b]
  /\ UNCHANGED <<IndentLevel, scopes>>

\* The loggers' enabled flags fixed before any logging, as the command line
\* sets them.
ScopedNext ==
  \/ \E l \in Loggers, k \in Levels : OpenScope(l, k)
  \/ CloseScope

\* Any call, at any time.
Next ==
  \/ ScopedNext
  \/ \E l \in Loggers, k \in Levels : SetIndentation(l, k)
  \/ \E l \in Loggers, b \in BOOLEAN : SetEnabled(l, b)

ScopedSpec == Init /\ [][ScopedNext]_vars

Spec == Init /\ [][Next]_vars

-----------------------------------------------------------------------------
(* Properties                                                              *)

\* Sum of the levels of the open scopes whose logger satisfies P.
OpenLevels(P(_)) ==
  FoldLeft(LAMBDA acc, s : acc + (IF P(s.logger) THEN s.level ELSE 0), 0, scopes)

\* With the enabled flags fixed, the shared IndentLevel is exactly the sum
\* of the levels of the open scopes of enabled loggers, however the scopes
\* of different loggers nest: nothing is lost or counted twice.
IndentMatchesOpenScopes == IndentLevel = OpenLevels(isEnabled)

=============================================================================

---------------------------- MODULE MC_LoggerFlush ----------------------------
EXTENDS LoggerFlush, TLC

CONSTANTS lgA, lgB

MCLoggers == {lgA, lgB}

\* Two loggers whose names differ in length.
MCNameLength == lgA :> 3 @@ lgB :> 5

\* "dir/bbb.cpp" and "cc.cpp", abstracted to their shapes: a basename of
\* three characters behind a directory, and one of two without.
MCFiles == {<<"c", "/", "c", "c", "c">>, <<"c", "c">>}

\* A one-digit and a three-digit line number.
MCLineNumbers == {7, 123}

=============================================================================

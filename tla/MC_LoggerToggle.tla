--------------------------- MODULE MC_LoggerToggle ---------------------------
EXTENDS LoggerToggle, MC_LoggerFlush

=============================================================================

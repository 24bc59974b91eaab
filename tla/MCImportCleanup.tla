--------------------------- MODULE MCImportCleanup ---------------------------
EXTENDS ImportCleanup

CONSTANTS f1, f2

MCFiles == {f1, f2}

\* files_to_fix names one of the two files.
MCFixList == {f1}

=============================================================================

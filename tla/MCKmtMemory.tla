---------------------------- MODULE MCKmtMemory ----------------------------
EXTENDS KmtMemoryProps

\* Two sizes, so that an address can come back with another size: a hole of two
\* pages left by a two-page buffer takes a one-page buffer and its guard page.
MCSizes == {1, 2}
MCHandles == 1 .. 2
MCCells == 1 .. 3

=============================================================================

------------------------------- MODULE MCSdma -------------------------------
(* Copies and writes over four cells of memory, for TLC.                   *)
EXTENDS SdmaProps

MCCells == 1 .. 4
MCWriteCells == 1 .. 2
Copy(dst, src, size) == [op |-> "copy", dst |-> dst, src |-> src, size |-> size]
Write(dst, data) == [op |-> "write", dst |-> dst, data |-> data]

\* Two copies of different sizes, and one the assert refuses.
MCCopies == {Copy(3, 1, 2), Copy(2, 4, 1), Copy(1, 2, 3)}
MCMixed == {Write(1, 0), Write(1, 1), Copy(2, 1, 1)}
MCWrites == {Write(1, 0), Write(1, 1), Write(2, 1)}

=============================================================================

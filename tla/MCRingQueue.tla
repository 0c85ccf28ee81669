----------------------------- MODULE MCRingQueue -----------------------------
(* Copies and fills of one to three dwords of packets, for TLC.            *)
EXTENDS RingQueueProps

Copy(src, dst, size) == [op |-> "copy", src |-> src, dst |-> dst, size |-> size]
Fill(data, dst, size) == [op |-> "fill", src |-> data, dst |-> <<dst>>, size |-> size]

MCCopyDw == <<1, 2>>

\* One byte, a whole packet and one byte more, the largest of three packets; two
\* destinations; fills with a tail that is no dword, and at an address that is none.
MCSurfaces == {Copy(0, <<40>>, 1), Copy(3, <<40>>, 9), Copy(40, <<0>>, 24),
               Copy(0, <<30, 60>>, 8),
               Fill(5, 0, 8), Fill(5, 4, 12), Fill(5, 0, 17), Fill(5, 2, 16)}

=============================================================================

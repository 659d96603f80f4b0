------------------------------ MODULE MCSockIo -------------------------------
(* SockIo with 4 values to a byte, a buffer of 2 pages and so 8 bytes, and *)
(* pointers that wrap at 16.  Heads of 1 and 4 bytes, so of one piece and  *)
(* of two or more; files that are empty, of one chunk of 3, and of 4 and   *)
(* 7 bytes: with their heads they take less than a buffer, exactly one,    *)
(* and more.                                                               *)
EXTENDS SockIo

MCByte == 4
MCPages == 2
MCHighs == 4
MCHeads == {1, 4}
MCSizes == {0, 3, 4, 7}
=============================================================================

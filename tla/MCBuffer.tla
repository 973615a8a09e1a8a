------------------------------ MODULE MCBuffer ------------------------------
(* Buffer with a prepend area of two cells, room for three bytes and an       *)
(* overflow area of two, so that every case of MakeSpace and ReadFd occurs.   *)
EXTENDS Buffer
=============================================================================

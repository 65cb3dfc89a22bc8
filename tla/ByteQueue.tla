------------------------------ MODULE ByteQueue ------------------------------
(***************************************************************************)
(* What a Buffer is to its users: a queue of bytes.  Bytes are put in at    *)
(* the end, by write or by a read(2) into the free room followed by         *)
(* hasWritten, and are taken from the front, in any number.                 *)
(***************************************************************************)
EXTENDS Sequences

VARIABLES bytes,  \* the readable bytes, oldest first
          io      \* the last operation: its name and the bytes put or taken

vars == <<bytes, io>>

Init == bytes = <<>> /\ io = [op |-> "none", data |-> <<>>]

Put == io'.op = "put" /\ bytes' = bytes \o io'.data

Take == io'.op = "take" /\ bytes = io'.data \o bytes'

Next == Put \/ Take

Spec == Init /\ [][Next]_vars
=============================================================================

---------------------------- MODULE FileDelivery ----------------------------
(***************************************************************************)
(* What a file transfer promises: the received file is at all times a      *)
(* prefix of the file sent, only grows, and is the whole file when the     *)
(* receiver is done.  ShamTransfer implements it on a network without      *)
(* faults.                                                                 *)
(***************************************************************************)
EXTENDS Integers, Sequences

CONSTANT Total      \* the number of chunks of the file

VARIABLES file, done
vars == <<file, done>>

Prefix(n) == [k \in 1 .. n |-> k]

Init == file = <<>> /\ done = FALSE

Deliver == /\ ~done
           /\ \E n \in Len(file) + 1 .. Total : file' = Prefix(n)
           /\ UNCHANGED done

Complete == /\ ~done /\ file = Prefix(Total)
            /\ done' = TRUE
            /\ UNCHANGED file

Spec == Init /\ [][Deliver \/ Complete]_vars
=============================================================================

--------------------------- MODULE BoundedHistory ---------------------------
(***************************************************************************)
(* What a command history promises: the last Size commands given, oldest   *)
(* first, without immediate repetitions, and on disk a copy of its         *)
(* beginning that becomes the history of the next session.  If the session *)
(* ends while that copy is written, its last line may be cut, and the next *)
(* session takes what is there of it for a command; all lines before it    *)
(* are whole.                                                              *)
(***************************************************************************)
EXTENDS Integers, Sequences

CONSTANTS Size, Lines, Beginnings

VARIABLES hist, saved
vars == <<hist, saved>>

Init == hist = <<>> /\ saved = <<>>

\* A new line; the oldest one makes room for it.
Add(l) == /\ hist # <<>> => hist[Len(hist)] # l
          /\ hist' = Append(IF Len(hist) < Size THEN hist ELSE Tail(hist), l)
          /\ UNCHANGED saved

Purge == hist' = <<>> /\ UNCHANGED saved

\* The file is written line by line.
Save == /\ \E n \in 0 .. Len(hist) : saved' = SubSeq(hist, 1, n)
        /\ UNCHANGED hist

NewSession == hist' = saved /\ UNCHANGED saved

\* The n-th line is cut, and the session over.
Cut == /\ \E n \in 1 .. Len(hist) : \E text \in Beginnings[hist[n]] :
              saved' = Append(SubSeq(hist, 1, n - 1), text)
       /\ hist' = saved'

Next == (\E l \in Lines : Add(l)) \/ Purge \/ Save \/ NewSession \/ Cut
Spec == Init /\ [][Next]_vars
=============================================================================

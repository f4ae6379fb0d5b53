------------------------------ MODULE Filters ------------------------------
(***************************************************************************)
(* The loops that erase elements of a vector: std::remove_if with erase,   *)
(* and the erase loops over the histories and queues.  What is kept is     *)
(* given as a set, and the result is built up element by element.          *)
(***************************************************************************)
EXTENDS Integers, Sequences

\* The elements of s that are in S, in the order of s.
KeepOnly(s, S) ==
  LET kept[i \in 0..Len(s)] ==
        IF i = 0 THEN << >>
        ELSE IF s[i] \in S THEN Append(kept[i - 1], s[i]) ELSE kept[i - 1]
  IN  kept[Len(s)]
=============================================================================

------------------------------ MODULE ListLoop ------------------------------
(***************************************************************************)
(* The loop of the lists on the screen: over the entries of a list, one    *)
(* after the other, appending those it lets through (filterByPrefix in     *)
(* skill/overlay_add_skill_key.go, VisibleIndices in slash/view, the       *)
(* providers of the rows).                                                 *)
(***************************************************************************)
EXTENDS Naturals, Sequences

EntriesAt(s, chosen) ==
  LET past[n \in 0 .. Len(s)] ==
        IF n = 0 THEN <<>> ELSE IF n \in chosen THEN Append(past[n - 1], s[n]) ELSE past[n - 1]
  IN  past[Len(s)]
=============================================================================

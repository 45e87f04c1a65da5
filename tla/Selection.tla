------------------------------ MODULE Selection ------------------------------
(***************************************************************************)
(* What a loop keeps that goes through a sequence and skips some values.   *)
(* (SelectSeq of the standard modules, whose definition a proof cannot     *)
(* expand.)                                                                *)
(***************************************************************************)
EXTENDS Integers, Sequences

(* The elements of s that are not in the set out, in their order.          *)
Without(s, out) ==
  LET upTo[n \in 0..Len(s)] ==
        IF n = 0 THEN <<>>
        ELSE IF s[n] \in out THEN upTo[n - 1]
        ELSE Append(upTo[n - 1], s[n])
  IN  upTo[Len(s)]
=============================================================================

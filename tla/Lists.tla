-------------------------------- MODULE Lists --------------------------------
(* A filter over a list, as QSequence.where takes it for the router and the   *)
(* registry; list.remove is RemoveFirst.                                      *)
EXTENDS Naturals, Sequences, SequencesExt

\* What a list has at some places, in its order.
At(list, places) ==
    LET upto[n \in 0 .. Len(list)] ==
          IF n = 0 THEN <<>>
          ELSE IF n \in places THEN Append(upto[n - 1], list[n]) ELSE upto[n - 1]
    IN  upto[Len(list)]
=============================================================================

-------------------------------- MODULE Picking --------------------------------
(****************************************************************************)
(* What a loop leaves of a list that keeps the elements at some positions,    *)
(* from left to right.                                                        *)
(****************************************************************************)
EXTENDS Integers, Sequences, SequencesExt

Pick(list, positions) ==
    LET kept[i \in 0..Len(list)] ==
            IF i = 0 THEN << >>
            ELSE IF i \in positions THEN Append(kept[i - 1], list[i]) ELSE kept[i - 1]
    IN  kept[Len(list)]
==============================================================================

--------------------------- MODULE MCSequenceDiffer ---------------------------
(***************************************************************************)
(* Instances of SequenceDiffer: every pair of words, compared one after    *)
(* the other by the same object.                                           *)
(***************************************************************************)
EXTENDS SequenceDiffer

CONSTANTS MaxLen   \* the longest word

Words == UNION {[1 .. n -> Value] : n \in 0 .. MaxLen}

Same == {<<x, x>> : x \in Value}

===============================================================================

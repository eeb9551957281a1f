---------------------------- MODULE MCSentencePiece ----------------------------
(* Instances of SentencePiece for TLC.                                       *)
EXTENDS SentencePiece

CONSTANTS short, long, bad

MCText == {short, long, bad}
MCIds == [t \in MCText |-> IF t = long THEN <<1, 2>> ELSE <<1>>]

\* All batches of up to three texts: a bad text first, between and last.
MCBatch == UNION {[1..n -> MCText] : n \in 0..3}
MCFlagWord == {{}, {"ignore_added_tokens"}, {"ignore_special_tokens", "other"}}
==============================================================================

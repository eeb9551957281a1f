---------------------------- MODULE MCHFTokenizer ----------------------------
(* Instances of HFTokenizer for TLC.                                         *)
EXTENDS HFTokenizer, TLC

CONSTANTS special, added, word, not_utf8, c1, c2

\* <special> and <added> of tokenizer.json and one ordinary word.
MCPiece == {special, added, word}
MCAddedToken == {special, added}
MCSpecialToken == {special}
MCPostIds == << <<"added", special>> >>

\* The id of the ordinary word stands for those above INT32_MAX.
MCWideId == {<<"ordinary", word>>}
MCIdSeq == {<< <<"added", special>>, <<"ordinary", word>>, <<"added", word>> >>}
MCLookupId == {<<"added", special>>, <<"added", word>>}

\* Policies: both kinds of added token in one text, and a text with a wide id.
PolicyTexts == {<<added, special>>, <<word>>}
PolicyBatch == {<< >>} \cup {<<t>> : t \in PolicyTexts}
PolicyFlagWords == {{}, {"ignore_special_tokens"}, {"ignore_added_tokens"},
                    {"ignore_special_tokens", "ignore_added_tokens"},
                    {"ignore_added_tokens", "other"}}

\* Memory: batches of two, with a second text that is empty, has a wide
\* id or is malformed.
MemoryTexts == {<<added>>, << >>, <<word>>}
MemoryBatch == {<<<<added>>, << >>>>, <<<<added>>, <<word>>>>, <<<<added>>, not_utf8>>}
MemoryFlagWords == {{}, {"ignore_added_tokens"}}

\* Liveness: a text that is refused and one that is not.
LivenessTexts == {<<word>>}
LivenessBatch == {<<t>> : t \in LivenessTexts \cup {not_utf8}}
LivenessFlagWords == {{}}
NoLookupId == {}

Symmetry == Permutations(Client) \cup Permutations(Addr)
AddrSymmetry == Permutations(Addr)
==============================================================================

------------------------------ MODULE MCRwkvWorld ------------------------------
(* Instances of RwkvWorld for TLC.                                           *)
EXTENDS RwkvWorld

CONSTANTS a, b

MCByte == {a, b}

\* Words inside one another, a word that only continues another, and none.
MCWord == {<< >>, <<a>>, <<a, b>>, <<a, b, b>>, <<b>>}

\* Every map from some of three ids, -1 among them, to these words.
MCVocabulary == UNION {[ids_ -> MCWord] : ids_ \in SUBSET {-1, 0, 1}}
MCToken == {-1, 1}
MCSpelling == {<<a, b>>, <<b, b>>}

MCText == {<< >>, <<a>>, <<a, b, a>>, <<a, b, b>>, <<b, a, b, b>>}
MCBatch == {<< >>, << <<a, b, a>>, <<b, a, b, b>> >>} \cup {<<t>> : t \in MCText}
==============================================================================

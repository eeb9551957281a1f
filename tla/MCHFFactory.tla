----------------------------- MODULE MCHFFactory -----------------------------
(* Instances of HFFactory for TLC: u32 has the values 0..3, int32_t -2..1.   *)
EXTENDS HFFactory, TLC

CONSTANTS a, b, ab, version, empty_string, text

MCToken == {a, b, ab, version}
MCVersionToken == {version}
MCConcat == [p \in MCToken \X MCToken |-> IF p = <<a, b>> THEN ab ELSE empty_string]

Blob(reading_gives) == [is |-> reading_gives]
Object(map) == [is |-> "object", entries |-> map]
Lines(l) == [is |-> "lines", lines |-> l]
Bpe(v, m, t) == [vocab |-> Object(v), merges |-> Lines(m), added |-> t]

\* Three ids, one of them wider than int32_t.
Three == a :> 0 @@ b :> 1 @@ ab :> 2
Merge == << <<a, b>> >>

MCJsonBlob == {Blob("not_json"), Blob("panics"), [is |-> "tokenizer", vocab |-> Three]}

\* Vocabularies that are overridden, share an id, have wide or impossible ids.
GoodInput ==
  {Bpe(Three, << <<version, a>>, <<a, b>> >>, Blob("empty")),
   Bpe(a :> 0 @@ b :> 1, Merge, Object(a :> 1 @@ ab :> 3)),
   Bpe(a :> 0 @@ b :> 0, << >>, Object(ab :> 0))}
BadInput ==
  {Bpe(a :> 0 @@ b :> 1, Merge, Object(b :> 4)),
   Bpe(a :> 0 @@ b :> text, Merge, Object(ab :> 0)),
   Bpe(a :> 0 @@ b :> 1, Merge, Blob("empty")),
   Bpe(a :> 0, << <<a, b>>, <<a>> >>, Blob("not_object")),
   Bpe(a :> 0, << <<version>>, <<a, b, ab>> >>, Object(a :> 2)),
   [vocab |-> Object(a :> 0), merges |-> Blob("not_utf8"), added |-> Blob("null")]}

MCBpeInput == GoodInput \cup BadInput
EmptyInput == {Bpe(<< >>, << >>, Blob("empty"))} \cup GoodInput
==============================================================================

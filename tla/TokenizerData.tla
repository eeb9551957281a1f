---------------------------- MODULE TokenizerData ----------------------------
(***************************************************************************)
(* The data a tokenizer call carries, and what the Hugging Face tokenizers *)
(* library does with it as far as this repository relies on it.            *)
(*                                                                         *)
(* A text is a sequence of pieces.  A piece is a fragment of input such as *)
(* "<special>", "<added>" or ordinary words; a piece that is the content   *)
(* of an entry of tokenizer.json's "added_tokens" is in AddedToken, and in *)
(* SpecialToken when the entry says "special": true.  An added token can   *)
(* be recognised as one id, or spelled out by the model as ordinary text;  *)
(* what the ordinary spelling is does not matter, only that it is another  *)
(* encoding of the same piece.                                             *)
(***************************************************************************)
EXTENDS Naturals, Sequences

CONSTANTS
  Piece,          \* fragments of input text
  AddedToken,     \* the pieces configured as added tokens
  SpecialToken,   \* the added tokens marked "special": true
  Utf8Text,       \* the valid texts callers pass
  MalformedText,  \* a text that is not valid UTF-8
  PostIds,        \* the ids the JSON post-processor puts before a sequence
  WideId,         \* the ids above INT32_MAX
  FlagWord,       \* the EncodeFlags values callers pass
  Batch,          \* the batches callers pass; one text is a batch of length 1
  MaxBatch,       \* the length of the longest of them
  IdSeq,          \* the id sequences callers decode
  LookupId        \* the ids callers look up

\* enum class EncodeFlags: a set of flag bits.  "other" is any undefined bit.
FlagBit == {"ignore_special_tokens", "ignore_added_tokens", "other"}
KnownFlags == {"ignore_special_tokens", "ignore_added_tokens"}

\* A token id, by the vocabulary entry it names.  <<"added", p>> names no token
\* at all when p is not an added token: it stands for every unknown id.
Id == {"added", "ordinary"} \X Piece

Text == Utf8Text \cup {MalformedText}

ASSUME VocabularyAssumption ==
  /\ SpecialToken \subseteq AddedToken
  /\ AddedToken \subseteq Piece
  /\ Utf8Text \subseteq Seq(Piece)
  /\ MalformedText \notin Utf8Text
  /\ PostIds \in Seq(Id)
  /\ WideId \subseteq Id

ASSUME BoundsAssumption ==
  /\ FlagWord \subseteq SUBSET FlagBit
  /\ MaxBatch \in Nat
  /\ Batch \subseteq Seq(Text)
  /\ \A b \in Batch : Len(b) <= MaxBatch
  /\ IdSeq \subseteq Seq(Id)
  /\ LookupId \subseteq Id

------------------------------------------------------------------------------
(* One tokenizers::Tokenizer value: the part of it that the policies differ  *)
(* in.  encode_special_tokens belongs to its AddedVocabulary.                *)

View == [added_vocabulary: SUBSET AddedToken,
         encode_special_tokens: BOOLEAN,
         post_processor: {PostIds, << >>}]

\* The added tokens the library cuts out of the input before the model sees it.
Recognised(view) ==
  IF view.encode_special_tokens
  THEN view.added_vocabulary \ SpecialToken
  ELSE view.added_vocabulary

IdOfPiece(recognised, piece) ==
  <<IF piece \in recognised THEN "added" ELSE "ordinary", piece>>

\* Tokenizer::encode(text, add_special_tokens): post-processing is independent
\* of what is recognised in the input.
EncodeText(view, text, add_special_tokens) ==
  (IF add_special_tokens THEN view.post_processor ELSE << >>)
    \o [i \in 1..Len(text) |-> IdOfPiece(Recognised(view), text[i])]

\* The ids that name a token of the tokenizer.
NamesToken(view, id) == id[1] = "added" => id[2] \in view.added_vocabulary

\* Tokenizer::decode(ids, skip_special_tokens): a string is the sequence of what
\* each id contributes, which is nothing for unknown and for skipped ids.
DecodeIds(view, ids, skip_special_tokens) ==
  LET Skipped(id) == skip_special_tokens /\ id[1] = "added" /\ id[2] \in SpecialToken
  IN [i \in 1..Len(ids) |-> IF NamesToken(view, ids[i]) /\ ~Skipped(ids[i])
                            THEN <<ids[i][2]>> ELSE << >>]

\* Tokenizer::id_to_token(id).unwrap_or_default()
TokenString(view, id) == IF NamesToken(view, id) THEN << <<id[2]>> >> ELSE << >>

------------------------------------------------------------------------------
(* What a caller asks for and what it gets back.                             *)

EncodeRequest == [op: {"encode"}, texts: Batch, add_special_tokens: BOOLEAN,
                  flags: FlagWord]
DecodeRequest == [op: {"decode"}, ids: IdSeq, skip_special_tokens: BOOLEAN]
TokenRequest  == [op: {"id_to_token"}, id: LookupId]
Request == EncodeRequest \cup DecodeRequest \cup TokenRequest
NoRequest == [op |-> "none"]

\* TokenizerErrorCode, and std::bad_alloc from the C++ containers.
ErrorCode == {"InvalidArgument", "Unsupported", "Internal", "bad_alloc"}

String == Seq(Seq(Piece))
Value(v) == [tag |-> "value", value |-> v]
Throw(code) == [tag |-> "throw", code |-> code]
NoOutcome == [tag |-> "none"]
Outcome == [tag: {"value"}, value: Seq(Seq(Id)) \cup String]
           \cup [tag: {"throw"}, code: ErrorCode] \cup {NoOutcome}

\* The two operations that go through a scratch string of the handle.
UsesScratch(r) == r.op \in {"decode", "id_to_token"}
==============================================================================

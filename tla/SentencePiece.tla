----------------------------- MODULE SentencePiece -----------------------------
(***************************************************************************)
(* The SentencePiece backend of src/sentencepiece_tokenizer.cc behind the  *)
(* dispatch of src/tokenizer.cc, and its replacement in a build without    *)
(* SentencePiece.  The processor of the library is not changed by a call,  *)
(* so one caller at a time shows everything; each status that the library  *)
(* returns is ignored.                                                     *)
(***************************************************************************)
EXTENDS Integers, SequencesExt

CONSTANTS
  Text,      \* the texts callers pass, of which
  BadText,   \* the library refuses these
  Batch,     \* the batches they pass; a text alone is a batch of length 1
  FlagWord,  \* the EncodeFlags values they pass, as sets of bits
  Ids        \* the ids the loaded model gives each text

KnownFlags == {"ignore_special_tokens", "ignore_added_tokens"}

ASSUME SentencePieceAssumption ==
  /\ BadText \subseteq Text
  /\ Batch \subseteq Seq(Text)
  /\ Ids \in [Text -> Seq(Nat)]

VARIABLES
  factory,  \* what FromBlobSentencePiece returned
  status,   \* the status of the processor, which the constructor drops
  call,     \* "encode" while a batch is being encoded
  texts,    \* its texts
  results,  \* the ids of the texts that are done
  failed,   \* whether the library reported an error to this call
  answer    \* what the last call returned or threw

vars == <<factory, status, call, texts, results, failed, answer>>

Value(v) == [tag |-> "value", value |-> v]
Throw(code) == [tag |-> "throw", code |-> code]
NoAnswer == [tag |-> "none"]

------------------------------------------------------------------------------
Init ==
  /\ factory = "none"
  /\ status = "NotLoaded"
  /\ call = "idle"
  /\ texts = << >>
  /\ results = << >>
  /\ failed = FALSE
  /\ answer = NoAnswer

\* FromBlobSentencePiece: the result of loading the model is dropped, and a
\* build without SentencePiece returns a null pointer.
FromBlob ==
  /\ factory = "none"
  /\ \/ /\ factory' = "tokenizer"
        /\ status' \in {"Loaded", "NotLoaded"}
     \/ /\ factory' = "nullptr"
        /\ UNCHANGED status
  /\ UNCHANGED <<call, texts, results, failed, answer>>

\* Tokenizer::Encode and EncodeBatch with ValidateEncodeOptions: this backend
\* supports no flag.
StartEncode(batch, word) ==
  /\ factory = "tokenizer"
  /\ call = "idle"
  /\ \/ /\ word = {}
        /\ call' = "encode" /\ texts' = batch
        /\ UNCHANGED answer
     \/ /\ word # {}
        /\ answer' = Throw(IF word \subseteq KnownFlags THEN "Unsupported" ELSE "InvalidArgument")
        /\ UNCHANGED <<call, texts>>
  /\ results' = << >>
  /\ failed' = FALSE
  /\ UNCHANGED <<factory, status>>

\* SentencePieceProcessor::Encode reports an error and gives no ids when no model
\* is loaded or the text is refused.
Refuses(text) == status # "Loaded" \/ text \in BadText

Current == texts[Len(results) + 1]

\* Mutant: an error becomes an id, as it does in TokenToId.
EncodeImplMinusOne ==
  /\ call = "encode"
  /\ Len(results) < Len(texts)
  /\ results' = Append(results, IF Refuses(Current) THEN << -1 >> ELSE Ids[Current])
  /\ failed' = (failed \/ Refuses(Current))
  /\ UNCHANGED <<factory, status, call, texts, answer>>

\* One round of the default EncodeBatchImpl: the error of Encode is ignored, so
\* the tokens stay as empty as they were declared.
EncodeImpl ==
  /\ call = "encode"
  /\ Len(results) < Len(texts)
  /\ results' = Append(results, IF Refuses(Current) THEN << >> ELSE Ids[Current])
  /\ failed' = (failed \/ Refuses(Current))
  /\ UNCHANGED <<factory, status, call, texts, answer>>

EncodeReturns ==
  /\ call = "encode"
  /\ Len(results) = Len(texts)
  /\ call' = "idle"
  /\ answer' = Value(results)
  /\ UNCHANGED <<factory, status, texts, results, failed>>

\* Decode, GetVocabSize, IdToToken and TokenToId answer from the library alone.
Next == FromBlob \/ (\E batch \in Batch, word \in FlagWord : StartEncode(batch, word))
        \/ EncodeImpl \/ EncodeReturns

Spec == Init /\ [][Next]_vars

------------------------------------------------------------------------------
(* Properties                                                                *)

\* Every variable holds a value of its type.
TypeOK ==
  /\ factory \in {"none", "nullptr", "tokenizer"}
  /\ status \in {"Loaded", "NotLoaded"}
  /\ call \in {"idle", "encode"}
  /\ texts \in Seq(Text)
  /\ results \in Seq(Seq(Nat)) /\ Len(results) <= Len(texts)
  /\ failed \in BOOLEAN
  /\ answer \in [tag: {"value"}, value: Seq(Seq(Nat))]
                \cup [tag: {"throw"}, code: {"InvalidArgument", "Unsupported"}] \cup {NoAnswer}

\* "throws TokenizerError for invalid flags, unsupported policies, or backend
\* failures": an Encode that the library reported an error to throws.
EncodeReportsFailures == call = "idle" /\ failed => answer.tag = "throw"
==============================================================================

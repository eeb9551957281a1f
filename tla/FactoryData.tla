------------------------------ MODULE FactoryData ------------------------------
(***************************************************************************)
(* What the Hugging Face factories are given, and what the tokenizers      *)
(* library makes of it as far as this repository relies on it.             *)
(*                                                                         *)
(* A blob is a record whose field "is" says what reading it comes to; only *)
(* a blob that can be read has contents.  The JSON library gives an object *)
(* as a map from token to value.                                           *)
(***************************************************************************)
EXTENDS Integers, Sequences, FiniteSets

CONSTANTS
  Token,         \* the strings that vocabularies and merge lines are made of
  NoToken,       \* the empty string, for a token that does not exist
  VersionToken,  \* the tokens that start with "#version"
  Concat,        \* the concatenation of two tokens, NoToken if no vocabulary has it
  U32Max,        \* u32::MAX, small
  NotUnsigned,   \* a JSON value that is not an unsigned integer
  JsonBlob,      \* the tokenizer.json blobs that callers pass
  BpeInput       \* the three blobs of a byte-level BPE tokenizer that they pass

I32Max == U32Max \div 2
U32 == 0..U32Max
Int32 == (-I32Max - 1)..I32Max

\* Reading stops at these: null with a length, or not UTF-8; not JSON, or JSON
\* of the wrong shape.  "empty" is a blob of length 0, and "panics" a
\* tokenizer.json that the library panics on.
Unreadable == {"null", "not_utf8"}
Malformed == {"not_json", "not_object"}

PartialMap(S, T) == UNION {[D -> T] : D \in SUBSET S}

IsEntries(blob) ==
  IF blob.is = "object"
  THEN /\ DOMAIN blob.entries \subseteq Token
       /\ IsFiniteSet(DOMAIN blob.entries)
       /\ blob.entries \in [DOMAIN blob.entries -> Nat \cup {NotUnsigned}]
  ELSE blob.is \in Unreadable \cup Malformed \cup {"empty"}

ASSUME FactoryAssumption ==
  /\ U32Max \in Nat /\ U32Max % 2 = 1
  /\ NotUnsigned \notin Nat
  /\ NoToken \notin Token
  /\ VersionToken \subseteq Token
  /\ Concat \in [Token \X Token -> Token \cup {NoToken}]
  /\ \A blob \in JsonBlob :
       IF blob.is = "tokenizer"
       THEN blob.vocab \in PartialMap(Token, U32) /\ IsFiniteSet(DOMAIN blob.vocab)
       ELSE blob.is \in Unreadable \cup {"not_json", "panics"}
  /\ \A input \in BpeInput :
       /\ IsEntries(input.vocab)
       /\ IsEntries(input.added)
       /\ IF input.merges.is = "lines" THEN input.merges.lines \in Seq(Seq(Token))
          ELSE input.merges.is \in Unreadable

------------------------------------------------------------------------------
\* map.insert(key, value)
Put(map, key, value) ==
  [k \in DOMAIN map \cup {key} |-> IF k = key THEN value ELSE map[k]]

\* A merge line is its parts between spaces; a comment starts with "#version".
IsComment(line) == line # << >> /\ line[1] \in VersionToken

\* BPE::new panics unless a vocabulary has both parts of every merge and what
\* they make together.
MergesKnown(vocab, merges) ==
  \A i \in 1..Len(merges) :
    LET left == merges[i][1]  right == merges[i][2]
    IN {left, right, Concat[<<left, right>>]} \subseteq DOMAIN vocab

\* vocab_r of the library: where two tokens share an id, the order of a hash map
\* decides which one the id stands for.
Inverses(vocab) ==
  {r \in [{vocab[t] : t \in DOMAIN vocab} -> DOMAIN vocab] :
     \A id \in DOMAIN r : vocab[r[id]] = id}

------------------------------------------------------------------------------
(* The lookups of a loaded tokenizer, with the conversions between 32-bit    *)
(* types on both sides of the C functions.                                   *)

\* static_cast<uint32_t> of an int32_t
AsU32(id) == IF id < 0 THEN id + U32Max + 1 ELSE id

\* ConvertResult lets an id pass; otherwise it throws.
FitsInt32(id) == id <= I32Max

IdToToken(w, id) ==
  IF AsU32(id) \in DOMAIN w.vocab_r THEN w.vocab_r[AsU32(id)] ELSE NoToken

\* Mutant: value as i32.
TokenToIdCast(w, token) ==
  IF token \notin DOMAIN w.vocab THEN -1
  ELSE IF w.vocab[token] <= I32Max THEN w.vocab[token] ELSE w.vocab[token] - (U32Max + 1)

\* i32::try_from(value).ok().unwrap_or(-1)
TokenToId(w, token) ==
  IF token \in DOMAIN w.vocab /\ w.vocab[token] <= I32Max THEN w.vocab[token] ELSE -1

GetVocabSize(w) == Cardinality(DOMAIN w.vocab)

------------------------------------------------------------------------------
\* A call of a factory.  Callers of the C functions may leave an out parameter
\* null: given says which ones they pass.
OutParameter == {"handle", "error"}
JsonRequest == [factory: {"json"}, json: JsonBlob, given: SUBSET OutParameter]
BpeRequest == [factory: {"bpe"}, bpe: BpeInput, given: SUBSET OutParameter]
Request == JsonRequest \cup BpeRequest
NoRequest == [factory |-> "none"]

BlobsOf(r) ==
  IF r.factory = "json" THEN {r.json} ELSE {r.bpe.vocab, r.bpe.merges, r.bpe.added}

\* What the signatures of FromBlobJSON and FromBlobByteLevelBPE leave possible.
IsCppRequest(r) ==
  r.given = OutParameter /\ \A blob \in BlobsOf(r) : blob.is # "null"

Loaded == [tag |-> "loaded"]
Throw(code) == [tag |-> "throw", code |-> code]
NoOutcome == [tag |-> "none"]
Outcome == {Loaded, NoOutcome}
           \cup {Throw(code) : code \in {"InvalidArgument", "Internal", "bad_alloc"}}
==============================================================================

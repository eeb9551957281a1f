------------------------------- MODULE RwkvWorld -------------------------------
(***************************************************************************)
(* The RWKV World tokenizer of src/rwkv_world_tokenizer.cc: loading, which *)
(* fills three tables in the arbitrary order of unordered maps, and        *)
(* encoding, which repeats a longest-prefix search in a trie.              *)
(*                                                                         *)
(* A word and a text are sequences of bytes.  A node of the trie is named  *)
(* by the path that leads to it from the root, which is << >>, so the      *)
(* children of a node are the paths that extend it by one byte.            *)
(***************************************************************************)
EXTENDS Integers, SequencesExt

CONSTANTS
  Byte,        \* the bytes of words and texts
  Vocabulary,  \* the maps from id to word that the model file may hold
  Text,        \* the texts callers pass
  Batch,       \* the batches they pass; a text alone is a batch of length 1
  Token,       \* the ids and
  Spelling,    \* the words they look up
  UNK,         \* "<unk>", as one byte that is in no word
  NoWord       \* std::nullopt: no word ends at a node

ASSUME RwkvAssumption ==
  /\ \A v \in Vocabulary : IsFiniteSet(DOMAIN v) /\ v \in [DOMAIN v -> Seq(Byte)]
  /\ \A v \in Vocabulary : DOMAIN v \subseteq Int
  /\ Batch \subseteq Seq(Text)
  /\ Text \subseteq Seq(Byte)
  /\ Token \subseteq Int
  /\ Spelling \subseteq Seq(Byte)
  /\ UNK \notin Byte
  /\ NoWord \notin Int

VARIABLES
  load,      \* how far the constructor is
  idx2word,  \* _idx2word
  word2idx,  \* _word2idx
  tree,      \* _tree: what each node of the trie says of the word that ends there
  todo,      \* what the loop of the constructor has not visited
  call,      \* "encode" while a batch is being encoded
  texts,     \* the batch
  results,   \* the ids of the texts that are done
  ids,       \* the ids so far of the text after those
  str_idx,   \* how many of its bytes they stand for
  answer     \* what the last call returned or threw

tables == <<idx2word, word2idx, tree>>
encoding == <<texts, results, ids, str_idx>>
vars == <<load, idx2word, word2idx, tree, todo, call, texts, results, ids, str_idx, answer>>

Empty == [x \in {} |-> x]

\* map[key] = value
Put(map, key, value) ==
  [k \in DOMAIN map \cup {key} |-> IF k = key THEN value ELSE map[k]]

Value(v) == [tag |-> "value", value |-> v]
Throw(what) == [tag |-> "throw", what |-> what]
NoAnswer == [to |-> <<"none", 0>>, is |-> [tag |-> "none"]]

Init ==
  /\ load = "opening"
  /\ idx2word = Empty
  /\ word2idx = Empty
  /\ tree = [node \in {<< >>} |-> NoWord]
  /\ todo = {}
  /\ call = "idle"
  /\ texts = << >>
  /\ str_idx = 0
  /\ ids = << >>
  /\ results = << >>
  /\ answer = NoAnswer

------------------------------------------------------------------------------
(* The constructor                                                           *)

\* The file is read and unpacked as a map; a file that is missing or is not
\* such a map makes the constructor throw.
Unpack ==
  /\ load = "opening"
  /\ \/ /\ \E v \in Vocabulary : idx2word' = v /\ todo' = DOMAIN v
        /\ load' = "inverting"
     \/ /\ load' = "failed"
        /\ UNCHANGED <<idx2word, todo>>
  /\ UNCHANGED <<word2idx, tree, call, encoding, answer>>

\* for (auto& pair : _idx2word): of several ids of one word the last one stays.
InvertEntry ==
  /\ load = "inverting"
  /\ \/ \E id \in todo :
          /\ word2idx' = Put(word2idx, idx2word[id], id)
          /\ todo' = todo \ {id}
          /\ UNCHANGED load
     \/ /\ todo = {}
        /\ todo' = DOMAIN word2idx
        /\ load' = "growing"
        /\ UNCHANGED word2idx
  /\ UNCHANGED <<idx2word, tree, call, encoding, answer>>

\* The nodes on the path of a word are made where they are missing.
WithPath(word) ==
  [node \in DOMAIN tree \cup Prefixes(word) |->
     IF node \in DOMAIN tree THEN tree[node] ELSE NoWord]

\* Mutant: the nodes made for a word forget the words that end on its path.
AddWordForgetful ==
  /\ load = "growing"
  /\ \/ \E word \in todo :
          /\ tree' = Put([node \in DOMAIN tree \cup Prefixes(word) |->
                             IF node \in Prefixes(word) THEN NoWord ELSE tree[node]],
                          word, word2idx[word])
          /\ todo' = todo \ {word}
          /\ UNCHANGED load
     \/ /\ todo = {}
        /\ load' = "ready"
        /\ UNCHANGED <<tree, todo>>
  /\ UNCHANGED <<idx2word, word2idx, call, encoding, answer>>

\* for (auto& pair : word2id) add_word(...)
AddWord ==
  /\ load = "growing"
  /\ \/ \E word \in todo :
          /\ tree' = Put(WithPath(word), word, word2idx[word])
          /\ todo' = todo \ {word}
          /\ UNCHANGED load
     \/ /\ todo = {}
        /\ load' = "ready"
        /\ UNCHANGED <<tree, todo>>
  /\ UNCHANGED <<idx2word, word2idx, call, encoding, answer>>

------------------------------------------------------------------------------
(* Encode and EncodeBatch                                                    *)

Answer(to, is) == call' = "idle" /\ answer' = [to |-> to, is |-> is]
AnswerEncode(is) == Answer(<<"encode", 0>>, is)

\* Tokenizer::EncodeBatch with ValidateEncodeOptions: this backend supports no
\* flag.  An empty batch ends in the first round of the loop.
StartEncode(batch, flags) ==
  /\ load = "ready"
  /\ call = "idle"
  /\ \/ /\ flags # "none"
        /\ AnswerEncode(Throw(IF flags = "undefined" THEN "InvalidArgument" ELSE "Unsupported"))
        /\ UNCHANGED encoding
     \/ /\ flags = "none"
        /\ call' = "encode"
        /\ texts' = batch /\ results' = << >> /\ ids' = << >> /\ str_idx' = 0
        /\ answer' = NoAnswer
  /\ UNCHANGED <<load, tables, todo>>

\* str.substr(str_idx) of the text being encoded.
Current == texts[Len(results) + 1]
Rest == SubSeq(Current, str_idx + 1, Len(Current))

\* find_longest_prefix: the walk down the trie ends where a child is missing,
\* and the last node with a word on the way is the match.
Walk(str) == {n \in 1..Len(str) : \A m \in 1..n : SubSeq(str, 1, m) \in DOMAIN tree}
Matches(str) == {n \in Walk(str) : tree[SubSeq(str, 1, n)] # NoWord}
LongestMatch(str) == SubSeq(str, 1, Max(Matches(str)))

\* The RV_CHECKs.  As -1 stands for no match, a word with that id cannot be
\* encoded, not even by shorter words.
Found(str) == Matches(str) # {} /\ tree[LongestMatch(str)] # -1

InText == call = "encode" /\ Len(results) < Len(texts) /\ str_idx < Len(Current)

\* Mutant: the search is over at the first word on the way.
FindLongestPrefixFirst ==
  /\ InText
  /\ Matches(Rest) # {}
  /\ ids' = Append(ids, tree[SubSeq(Rest, 1, Min(Matches(Rest)))])
  /\ str_idx' = str_idx + Min(Matches(Rest))
  /\ UNCHANGED <<load, tables, todo, call, texts, results, answer>>

\* Mutant: the position goes one byte on where the word is longer.
FindLongestPrefixByteStep ==
  /\ InText
  /\ Matches(Rest) # {}
  /\ ids' = Append(ids, tree[LongestMatch(Rest)])
  /\ str_idx' = str_idx + 1
  /\ UNCHANGED <<load, tables, todo, call, texts, results, answer>>

\* Mutant: without the RV_CHECKs the loop takes the id of no match.
FindLongestPrefixUnchecked ==
  /\ InText
  /\ IF Matches(Rest) = {}
     THEN ids' = Append(ids, -1) /\ UNCHANGED str_idx
     ELSE /\ ids' = Append(ids, tree[LongestMatch(Rest)])
          /\ str_idx' = str_idx + Len(LongestMatch(Rest))
  /\ UNCHANGED <<load, tables, todo, call, texts, results, answer>>

\* Mutant: the loop goes on without an id where nothing matches, for ever.
FindLongestPrefixSpins ==
  /\ InText
  /\ Found(Rest)
  /\ ids' = Append(ids, tree[LongestMatch(Rest)])
  /\ str_idx' = str_idx + Len(LongestMatch(Rest))
  /\ UNCHANGED <<load, tables, todo, call, texts, results, answer>>

\* One round of the loop of EncodeImpl.
FindLongestPrefix ==
  /\ InText
  /\ \/ /\ ~Found(Rest)
        /\ AnswerEncode(Throw("FRException"))
        /\ UNCHANGED <<ids, str_idx>>
     \/ /\ Found(Rest)
        /\ ids' = Append(ids, tree[LongestMatch(Rest)])
        /\ str_idx' = str_idx + Len(LongestMatch(Rest))
        /\ UNCHANGED <<call, answer>>
  /\ UNCHANGED <<load, tables, todo, texts, results>>

\* The default EncodeBatchImpl: results.push_back(EncodeImpl(text, options)).
TextDone ==
  /\ call = "encode" /\ Len(results) < Len(texts) /\ str_idx = Len(Current)
  /\ results' = Append(results, ids)
  /\ ids' = << >>
  /\ str_idx' = 0
  /\ UNCHANGED <<load, tables, todo, call, texts, answer>>

BatchDone ==
  /\ call = "encode" /\ Len(results) = Len(texts)
  /\ AnswerEncode(Value(results))
  /\ UNCHANGED <<load, tables, todo, encoding>>

------------------------------------------------------------------------------
(* The other methods                                                         *)

MayCall == load = "ready" /\ call = "idle"
WordOf(id) == IF id \in DOMAIN idx2word THEN idx2word[id] ELSE <<UNK>>

\* Every method but Encode checks that the map is not empty; Decode does so
\* once per id.
Checked(value) == IF DOMAIN idx2word = {} THEN Throw("FRException") ELSE Value(value)

Decode(list) ==
  /\ MayCall
  /\ Answer(<<"decode", list>>,
            IF list = << >> THEN Value(<< >>)
            ELSE Checked(FlattenSeq([j \in 1..Len(list) |-> WordOf(list[j])])))
  /\ UNCHANGED <<load, tables, todo, encoding>>

\* Callers decode what they encoded, or an id of their own choice.
DecodeSome ==
  \E list \in {results[i] : i \in 1..Len(results)} \cup {<<id>> : id \in Token} : Decode(list)

IdToToken(id) ==
  /\ MayCall
  /\ Answer(<<"id_to_token", id>>, Checked(WordOf(id)))
  /\ UNCHANGED <<load, tables, todo, encoding>>

TokenToId(word) ==
  /\ MayCall
  /\ Answer(<<"token_to_id", word>>,
            Checked(IF word \in DOMAIN word2idx THEN word2idx[word] ELSE -1))
  /\ UNCHANGED <<load, tables, todo, encoding>>

GetVocabSize ==
  /\ MayCall
  /\ Answer(<<"get_vocab_size", 0>>, Checked(Cardinality(DOMAIN idx2word)))
  /\ UNCHANGED <<load, tables, todo, encoding>>

------------------------------------------------------------------------------
Construct == Unpack \/ InvertEntry \/ AddWord
EncodeStep == FindLongestPrefix \/ TextDone \/ BatchDone

Next ==
  \/ Construct
  \/ \E batch \in Batch, flags \in {"none", "known", "undefined"} : StartEncode(batch, flags)
  \/ EncodeStep
  \/ DecodeSome
  \/ \E id \in Token : IdToToken(id)
  \/ \E word \in Spelling : TokenToId(word)
  \/ GetVocabSize

Spec == Init /\ [][Next]_vars

\* The thread that encodes runs on: nothing in the loop waits.
FairSpec == Spec /\ WF_vars(EncodeStep)

------------------------------------------------------------------------------
(* Properties                                                                *)

Word == {idx2word[id] : id \in DOMAIN idx2word}

\* Every variable holds a value of its type.
TypeOK ==
  /\ load \in {"opening", "failed", "inverting", "growing", "ready"}
  /\ idx2word \in Vocabulary \cup {Empty}
  /\ DOMAIN word2idx \subseteq Word /\ word2idx \in [DOMAIN word2idx -> DOMAIN idx2word]
  /\ DOMAIN tree \subseteq Seq(Byte)
  /\ tree \in [DOMAIN tree -> DOMAIN idx2word \cup {NoWord}]
  /\ todo \subseteq IF load = "growing" THEN DOMAIN word2idx ELSE DOMAIN idx2word
  /\ call \in {"idle", "encode"}
  /\ texts \in Seq(Text)
  /\ results \in Seq(Seq(DOMAIN idx2word))
  /\ ids \in Seq(DOMAIN idx2word)
  /\ str_idx \in Nat

\* Whatever order the unordered maps are visited in, the loaded trie has exactly
\* the words of the model file at their own nodes, each with an id that leads
\* back to it, also where the file gives one word several ids.
TablesAgree ==
  load = "ready" =>
    /\ DOMAIN word2idx = Word
    /\ \A word \in Word : idx2word[word2idx[word]] = word
    /\ DOMAIN tree = {<< >>} \cup UNION {Prefixes(word) : word \in Word}
    /\ \A node \in DOMAIN tree :
         tree[node] = IF node \in Word THEN word2idx[node] ELSE NoWord

\* The words that ids stand for, put together, and what follows them in str.
Spelled(list) == FlattenSeq([j \in 1..Len(list) |-> idx2word[list[j]]])
After(str, list) == SubSeq(str, Len(Spelled(list)) + 1, Len(str))

\* The ids spell the beginning of the text, each with the longest word of the
\* model file that fits where it stands.
Greedy(str, list) ==
  /\ IsPrefix(Spelled(list), str)
  /\ \A j \in 1..Len(list) : \A word \in Word :
       IsPrefix(word, After(str, SubSeq(list, 1, j - 1)))
         => Len(word) <= Len(idx2word[list[j]])
EncodeIsGreedy ==
  /\ \A i \in 1..Len(results) : Greedy(texts[i], results[i]) /\ Spelled(results[i]) = texts[i]
  /\ ids # << >> => Greedy(Current, ids) /\ Len(Spelled(ids)) = str_idx

\* A round that adds an id moves on by its word, which is the longest word of the
\* model file that fits at the position, and never the empty one.
RoundsAreGreedy ==
  [][Len(ids') = Len(ids) + 1 =>
       LET word == idx2word[ids'[Len(ids')]] IN
         /\ word # << >> /\ IsPrefix(word, Rest)
         /\ str_idx' = str_idx + Len(word)
         /\ \A other \in Word : IsPrefix(other, Rest) => Len(other) <= Len(word)]_vars

\* Encode throws in the middle of a text only where no word of the model file
\* fits, or the longest that fits has the id -1.
ThrowsOnlyWhenStuck ==
  answer = [to |-> <<"encode", 0>>, is |-> Throw("FRException")] /\ str_idx < Len(Current) =>
    LET Fitting == {word \in Word \ {<< >>} : IsPrefix(word, After(Current, ids))} IN
      \A word \in Fitting : \E longer \in Fitting :
        Len(word) <= Len(longer) /\ -1 \in DOMAIN idx2word /\ idx2word[-1] = longer

\* Decoding what Encode returned gives the text that was encoded.
RoundTrip ==
  \A i \in 1..Len(results) :
    answer.to = <<"decode", results[i]>> => answer.is = Value(texts[i])

\* A call of Encode ends: no round of the loop leaves the text as long as it was.
EncodeReturns == call = "encode" ~> call = "idle"

\* "Convert the given id to its corresponding token if it exists. If not, return
\* an empty string": what include/tokenizers_cpp.h says of IdToToken.
UnknownIdIsEmpty ==
  \A id \in Token \ DOMAIN idx2word :
    answer.to = <<"id_to_token", id>> /\ answer.is.tag = "value" => answer.is = Value(<< >>)

\* "throws TokenizerError for invalid flags, unsupported policies, or backend
\* failures": what include/tokenizers_cpp.h says of Encode.
EncodeThrowsTokenizerError ==
  answer.to[1] = "encode" /\ answer.is.tag = "throw" =>
    answer.is.what \in {"InvalidArgument", "Unsupported", "Internal"}
==============================================================================

---------------------------- MODULE RwkvWorldProofs ----------------------------
(***************************************************************************)
(* Proofs about RwkvWorld, for every model file, text and batch: the order *)
(* in which the constructor visits its maps does not matter; a round of    *)
(* the encode loop takes the longest word of the model file that fits; the *)
(* ids of a whole text spell it, decoding gives it back, and encoding      *)
(* fails only where no round is possible.                                  *)
(***************************************************************************)
EXTENDS RwkvWorld, FoldProofs

------------------------------------------------------------------------------
(* The inductive invariant                                                   *)

\* The words that have been visited: all but those only todo stands for.
Inverted == {idx2word[id] : id \in DOMAIN idx2word \ todo}
Root == [node \in {<< >>} |-> NoWord]

\* The trie of a set of words.
TrieOf(words) ==
  /\ tree = [node \in DOMAIN tree |-> tree[node]]
  /\ DOMAIN tree = {<< >>} \cup UNION {Prefixes(word) : word \in words}
  /\ \A node \in DOMAIN tree :
       tree[node] = IF node \in words THEN word2idx[node] ELSE NoWord

\* Every id in _word2idx leads back to its word.
IdsLeadBack ==
  /\ word2idx \in [DOMAIN word2idx -> DOMAIN idx2word]
  /\ \A word \in DOMAIN word2idx : idx2word[word2idx[word]] = word

\* How much of the tables is built, by how far the constructor is.
Built ==
  /\ idx2word \in Vocabulary \cup {Empty}
  /\ load \in {"opening", "inverting", "growing", "ready", "failed"}
  /\ load \notin {"inverting", "growing"} => todo = {}
  /\ load \in {"opening", "inverting", "failed"} => tree = Root
  /\ load \in {"opening", "failed"} => word2idx = Empty
  /\ load = "inverting" => /\ todo \subseteq DOMAIN idx2word
                           /\ DOMAIN word2idx = Inverted
                           /\ IdsLeadBack
  /\ load = "growing" => /\ todo \subseteq Word
                         /\ DOMAIN word2idx = Word
                         /\ IdsLeadBack
                         /\ TrieOf(Word \ todo)
  /\ load = "ready" => /\ DOMAIN word2idx = Word
                       /\ IdsLeadBack
                       /\ TrieOf(Word)

\* What an encode call works on.
Encoding ==
  /\ call \in {"idle", "encode"}
  /\ texts \in Seq(Text)
  /\ results \in Seq(Seq(DOMAIN idx2word))
  /\ ids \in Seq(DOMAIN idx2word)
  /\ str_idx \in Nat
  /\ load # "ready" => call = "idle" /\ ids = << >> /\ results = << >>

IInv == Built /\ Encoding

------------------------------------------------------------------------------
(* Numbers, words and prefixes                                               *)

\* The largest of some numbers, as Max finds it.
LEMMA MaxFacts ==
  ASSUME NEW n \in Nat, NEW S \in SUBSET (1..n), S # {}
  PROVE  Max(S) \in S /\ \A y \in S : Max(S) >= y
<1> DEFINE T == {n - x : x \in S}
<1>1. T \subseteq Nat /\ T # {}
  <2>1. \A x \in S : n - x \in Nat
    OBVIOUS
  <2> QED
    BY <2>1
<1>2. PICK t \in T : \A u \in T : ~ (<<u, t>> \in OpToRel(<, Nat))
  <2> HIDE DEF T
  <2> QED
    BY <1>1, WFMin, NatLessThanWellFounded, Zenon
<1>3. \A u \in T : ~ (u < t)
  BY <1>1, <1>2 DEF OpToRel
<1>4. PICK x \in S : t = n - x
  OBVIOUS
<1>5. \A y \in S : n - y \in T
  OBVIOUS
<1>6. \A y \in S : x >= y
  BY <1>3, <1>4, <1>5
<1> QED
  BY <1>6 DEF Max

\* A word is one of its prefixes, and so is the root.
LEMMA PrefixFacts ==
  ASSUME NEW word \in Seq(Byte)
  PROVE  word \in Prefixes(word) /\ << >> \in Prefixes(word)
<1>1. Len(word) \in 0..Len(word) /\ 0 \in 0..Len(word)
  BY LenProperties
<1>2. SubSeq(word, 1, Len(word)) = word
  BY SubSeqFull
<1>3. SubSeq(word, 1, 0) = << >>
  BY SubSeqEmpty
<1> QED
  BY <1>1, <1>2, <1>3 DEF Prefixes

\* The prefixes of a word are sequences of bytes.
LEMMA PrefixTypes ==
  ASSUME NEW word \in Seq(Byte)
  PROVE  Prefixes(word) \subseteq Seq(Byte)
<1> SUFFICES ASSUME NEW m \in 0..Len(word) PROVE SubSeq(word, 1, m) \in Seq(Byte)
  BY DEF Prefixes
<1>1. Len(word) \in Nat
  BY LenProperties
<1>2. \A i \in 1..m : word[i] \in Byte
  BY <1>1, ElementOfSeq
<1>3. m \in Int
  BY <1>1
<1> QED
  BY <1>2, <1>3, SubSeqProperties

\* The words of a model file are sequences of bytes.
LEMMA WordFacts ==
  ASSUME idx2word \in Vocabulary \cup {Empty}
  PROVE  Word \subseteq Seq(Byte) /\ DOMAIN idx2word \subseteq Int
<1>1. CASE idx2word \in Vocabulary
  BY <1>1, RwkvAssumption DEF Word
<1>2. CASE idx2word = Empty
  <2>1. DOMAIN idx2word = {}
    BY <1>2 DEF Empty
  <2> QED
    BY <2>1 DEF Word
<1> QED
  BY <1>1, <1>2

------------------------------------------------------------------------------
(* The constructor                                                           *)

\* The constructor starts with empty tables.
LEMMA InitBuilt == Init => IInv
BY EmptySeq DEF Init, IInv, Built, Encoding, Root, Empty

\* The file gives the first map, with every entry still to be visited.
LEMMA UnpackBuilds ==
  ASSUME IInv, Unpack
  PROVE  Built'
<1>1. CASE load' = "inverting"
  <2>1. PICK v \in Vocabulary : idx2word' = v /\ todo' = DOMAIN v
    BY <1>1 DEF Unpack
  <2>2. Inverted' = {}
    BY <2>1 DEF Inverted
  <2>3. word2idx' = Empty /\ tree' = Root
    BY DEF Unpack, IInv, Built
  <2>4. DOMAIN word2idx' = {} /\ IdsLeadBack'
    BY <2>3 DEF Empty, IdsLeadBack
  <2> QED
    BY <1>1, <2>1, <2>2, <2>3, <2>4 DEF IInv, Built, Unpack
<1>2. CASE load' = "failed"
  BY <1>2 DEF IInv, Built, Unpack
<1> QED
  BY <1>1, <1>2 DEF Unpack

\* One more entry of the first map is in the second, which may replace the id an
\* earlier one gave to the same word.
LEMMA InvertEntryBuilds ==
  ASSUME IInv, InvertEntry
  PROVE  Built'
<1>1. /\ load = "inverting" /\ tree = Root
      /\ todo \subseteq DOMAIN idx2word
      /\ DOMAIN word2idx = Inverted
      /\ IdsLeadBack
      /\ idx2word' = idx2word /\ tree' = tree /\ call' = call
  BY DEF InvertEntry, IInv, Built
<1>2. ASSUME NEW id \in todo,
             word2idx' = Put(word2idx, idx2word[id], id),
             todo' = todo \ {id}, load' = load
      PROVE  Built'
  <2>1. DOMAIN word2idx' = Inverted \cup {idx2word[id]}
    BY <1>1, <1>2 DEF Put
  <2>2. Inverted' = Inverted \cup {idx2word[id]}
    BY <1>1, <1>2 DEF Inverted
  <2>3. IdsLeadBack'
    <3> SUFFICES ASSUME NEW word \in DOMAIN word2idx'
                 PROVE  /\ word2idx'[word] \in DOMAIN idx2word
                        /\ idx2word[word2idx'[word]] = word
      BY <1>1, <1>2 DEF IdsLeadBack, Put
    <3>1. CASE word = idx2word[id]
      BY <1>1, <1>2, <3>1 DEF Put
    <3>2. CASE word # idx2word[id]
      <4>1. word \in DOMAIN word2idx /\ word2idx'[word] = word2idx[word]
        BY <1>1, <1>2, <2>1, <3>2 DEF Put
      <4> QED
        BY <1>1, <4>1 DEF IdsLeadBack
    <3> QED
      BY <3>1, <3>2
  <2> QED
    BY <1>1, <1>2, <2>1, <2>2, <2>3 DEF IInv, Built
<1>3. ASSUME todo = {}, todo' = DOMAIN word2idx, load' = "growing", word2idx' = word2idx
      PROVE  Built'
  <2>1. DOMAIN word2idx = Word /\ Word' = Word
    BY <1>1, <1>3 DEF Inverted, Word
  <2>2. (Word \ todo)' = {}
    BY <1>3, <2>1
  <2>3. TrieOf({})'
    BY <1>1 DEF TrieOf, Root
  <2>4. TrieOf(Word \ todo)'
    BY <2>2, <2>3 DEF TrieOf
  <2>5. IdsLeadBack'
    BY <1>1, <1>3 DEF IdsLeadBack
  <2> QED
    BY <1>1, <1>3, <2>1, <2>4, <2>5 DEF IInv, Built
<1> QED
  BY <1>2, <1>3 DEF InvertEntry

\* One more word is in the trie, and no word that was there before is lost.
LEMMA AddWordBuilds ==
  ASSUME IInv, AddWord
  PROVE  Built'
<1>1. /\ load = "growing"
      /\ todo \subseteq Word
      /\ DOMAIN word2idx = Word
      /\ IdsLeadBack
      /\ TrieOf(Word \ todo)
      /\ idx2word' = idx2word /\ word2idx' = word2idx /\ call' = call
  BY DEF AddWord, IInv, Built
<1>2. Word' = Word /\ IdsLeadBack'
  BY <1>1 DEF Word, IdsLeadBack
<1>3. ASSUME NEW word \in todo,
             tree' = Put(WithPath(word), word, word2idx[word]),
             todo' = todo \ {word}, load' = load
      PROVE  Built'
  <2> DEFINE before == Word \ todo
             after == Word \ todo'
  <2>1. word \in Seq(Byte)
    BY <1>1, WordFacts DEF IInv, Built
  <2>2. after = before \cup {word} /\ word \in Word
    BY <1>1, <1>3
  <2>3. DOMAIN tree' = {word} \cup DOMAIN tree \cup Prefixes(word)
    BY <1>3 DEF Put, WithPath
  <2>4. DOMAIN tree = {<< >>} \cup UNION {Prefixes(w) : w \in before}
    BY <1>1 DEF TrieOf
  <2>5. DOMAIN tree' = {<< >>} \cup UNION {Prefixes(w) : w \in after}
    <3>1. UNION {Prefixes(w) : w \in after}
            = Prefixes(word) \cup UNION {Prefixes(w) : w \in before}
      BY <2>2
    <3> QED
      BY <2>1, <2>3, <2>4, <3>1, PrefixFacts
  <2>6. ASSUME NEW node \in DOMAIN tree'
        PROVE  tree'[node] = IF node \in after THEN word2idx[node] ELSE NoWord
    <3>1. CASE node = word
      BY <1>3, <2>2, <3>1 DEF Put
    <3>2. CASE node # word /\ node \in DOMAIN tree
      <4>1. tree'[node] = tree[node]
        BY <1>3, <3>2 DEF Put, WithPath
      <4>2. tree[node] = IF node \in before THEN word2idx[node] ELSE NoWord
        BY <1>1, <3>2 DEF TrieOf
      <4> QED
        BY <2>2, <3>2, <4>1, <4>2
    <3>3. CASE node # word /\ node \notin DOMAIN tree
      <4>1. tree'[node] = NoWord
        BY <1>3, <2>3, <3>3 DEF Put, WithPath
      <4>2. node \notin before
        <5> SUFFICES ASSUME node \in before PROVE FALSE
          OBVIOUS
        <5>1. node \in Seq(Byte)
          BY WordFacts DEF IInv, Built
        <5> QED
          BY <2>4, <3>3, <5>1, PrefixFacts
      <4> QED
        BY <2>2, <3>3, <4>1, <4>2
    <3> QED
      BY <3>1, <3>2, <3>3
  <2>7. tree' = [node \in DOMAIN tree' |-> tree'[node]]
    BY <1>3 DEF Put
  <2>8. TrieOf(Word \ todo)'
    BY <1>1, <1>2, <2>5, <2>6, <2>7 DEF TrieOf
  <2> QED
    BY <1>1, <1>2, <1>3, <2>8 DEF IInv, Built
<1>4. ASSUME todo = {}, load' = "ready", tree' = tree, todo' = todo
      PROVE  Built'
  <2>1. TrieOf(Word)'
    <3>1. Word \ todo = Word
      BY <1>4
    <3> QED
      BY <1>1, <1>2, <1>4, <3>1 DEF TrieOf
  <2> QED
    BY <1>1, <1>2, <1>4, <2>1 DEF IInv, Built
<1> QED
  BY <1>3, <1>4 DEF AddWord

\* The constructor encodes nothing.
LEMMA ConstructSafe ==
  ASSUME IInv, Construct
  PROVE  IInv'
<1>1. load # "ready" /\ UNCHANGED <<call, encoding>>
  BY DEF Construct, Unpack, InvertEntry, AddWord
<1>2. call = "idle" /\ ids = << >> /\ results = << >>
  BY <1>1 DEF IInv, Encoding
<1>3. << >> \in Seq(Seq(DOMAIN idx2word')) /\ << >> \in Seq(DOMAIN idx2word')
  BY EmptySeq
<1>4. Encoding'
  BY <1>1, <1>2, <1>3 DEF IInv, Encoding, encoding
<1> QED
  BY <1>4, UnpackBuilds, InvertEntryBuilds, AddWordBuilds DEF Construct, IInv

------------------------------------------------------------------------------
(* The methods                                                               *)

\* A word that fits is found by the walk down the trie.
LEMMA FittingMatches ==
  ASSUME IInv, load = "ready", NEW str \in Seq(Byte),
         NEW other \in Word \ {<< >>}, IsPrefix(other, str)
  PROVE  Len(other) \in Matches(str)
<1> DEFINE k == Len(other)
<1>1. /\ DOMAIN word2idx = Word
      /\ IdsLeadBack
      /\ TrieOf(Word)
      /\ Word \subseteq Seq(Byte)
      /\ DOMAIN idx2word \subseteq Int
  BY WordFacts DEF IInv, Built
<1>2. Len(str) \in Nat
  BY LenProperties
<1>3. other \in Seq(Byte) /\ k \in Nat /\ k <= Len(str) /\ k > 0
  BY <1>1, LenProperties, EmptySeq DEF IsPrefix
<1>4. SubSeq(str, 1, k) = other
  BY <1>3, SubSeqFull DEF IsPrefix
<1>5. ASSUME NEW m \in 1..k PROVE SubSeq(str, 1, m) \in DOMAIN tree
  <2>1. SubSeq(str, 1, m) = SubSeq(other, 1, m)
    <3>1. SubSeq(SubSeq(str, 1, k), 1, m) = SubSeq(str, 1, m)
      BY <1>2, <1>3, SubSeqOfSubSeq
    <3> QED
      BY <1>4, <3>1
  <2>2. SubSeq(other, 1, m) \in Prefixes(other)
    BY DEF Prefixes
  <2> QED
    BY <1>1, <2>1, <2>2 DEF TrieOf
<1>6. k \in Walk(str)
  BY <1>2, <1>3, <1>5 DEF Walk
<1>7. other \in DOMAIN tree /\ tree[other] = word2idx[other]
  BY <1>1, <1>3, PrefixFacts DEF TrieOf
<1>8. tree[other] # NoWord
  BY <1>1, <1>7, RwkvAssumption DEF IdsLeadBack
<1> QED
  BY <1>4, <1>6, <1>8 DEF Matches

\* What a longest match is: its node has an id, it is a word of the model file
\* that fits, and no word that fits is longer.
LEMMA LongestMatchFacts ==
  ASSUME IInv, load = "ready", NEW str \in Seq(Byte), Matches(str) # {}
  PROVE  LET word == LongestMatch(str) IN
           /\ word \in Word \ {<< >>}
           /\ IsPrefix(word, str)
           /\ \A other \in Word : IsPrefix(other, str) => Len(other) <= Len(word)
           /\ tree[word] = word2idx[word]
           /\ tree[word] \in DOMAIN idx2word
           /\ idx2word[tree[word]] = word
<1> DEFINE n == Max(Matches(str))
           word == LongestMatch(str)
<1>1. /\ DOMAIN word2idx = Word
      /\ IdsLeadBack
      /\ TrieOf(Word)
      /\ Word \subseteq Seq(Byte)
      /\ DOMAIN idx2word \subseteq Int
  BY WordFacts DEF IInv, Built
<1>2. Len(str) \in Nat /\ \A i \in 1..Len(str) : str[i] \in Byte
  BY LenProperties, ElementOfSeq
<1>3. n \in Matches(str) /\ \A m \in Matches(str) : n >= m
  <2>1. Matches(str) \in SUBSET (1..Len(str))
    BY DEF Matches, Walk
  <2> QED
    BY <1>2, <2>1, MaxFacts
<1>4. n \in 1..Len(str) /\ word = SubSeq(str, 1, n) /\ word \in DOMAIN tree /\ tree[word] # NoWord
  <2>1. word = SubSeq(str, 1, n)
    BY DEF LongestMatch
  <2> HIDE DEF n, word
  <2>2. n \in Walk(str) /\ tree[SubSeq(str, 1, n)] # NoWord
    BY <1>3 DEF Matches
  <2>3. n \in 1..Len(str) /\ n \in 1..n
    BY <1>2, <2>2 DEF Walk
  <2>4. SubSeq(str, 1, n) \in DOMAIN tree
    BY <2>2, <2>3 DEF Walk
  <2> QED
    BY <2>1, <2>2, <2>3, <2>4
<1>5. Len(word) = n
  BY <1>2, <1>4, SubSeqProperties
<1>6. word \in Word /\ tree[word] = word2idx[word]
  BY <1>1, <1>4 DEF TrieOf
<1>7. IsPrefix(word, str)
  <2>1. SubSeq(word, 1, Len(word)) = word
    BY <1>1, <1>6, SubSeqFull
  <2> QED
    BY <1>2, <1>4, <1>5, <2>1 DEF IsPrefix
<1>8. ASSUME NEW other \in Word, IsPrefix(other, str)
      PROVE  Len(other) <= n
  <2>1. other \in Seq(Byte) /\ Len(other) \in Nat /\ Len(other) <= Len(str)
    BY <1>1, <1>8, LenProperties DEF IsPrefix
  <2>2. CASE other = << >>
    BY <1>4, <2>2, EmptySeq
  <2>3. CASE other # << >>
    BY <1>3, <1>8, <2>3, FittingMatches
  <2> QED
    BY <2>2, <2>3
<1>9. word # << >>
  BY <1>4, <1>5
<1>10. tree[word] \in DOMAIN idx2word /\ idx2word[tree[word]] = word
  BY <1>1, <1>6 DEF IdsLeadBack
<1> QED
  BY <1>5, <1>6, <1>7, <1>8, <1>9, <1>10

\* The rest of the text that is being encoded is a sequence of bytes.
LEMMA RestFacts ==
  ASSUME IInv, InText
  PROVE  load = "ready" /\ Rest \in Seq(Byte)
<1>1. load = "ready" /\ Len(results) \in Nat /\ Len(texts) \in Nat
  BY LenProperties DEF IInv, Encoding, InText
<1>2. Current \in Seq(Byte)
  <2>1. Len(results) + 1 \in 1..Len(texts)
    BY <1>1 DEF InText
  <2>2. Current \in Text
    BY <2>1, ElementOfSeq DEF Current, IInv, Encoding
  <2> QED
    BY <2>2, RwkvAssumption
<1>3. str_idx + 1 \in Int /\ Len(Current) \in Int
      /\ \A i \in str_idx + 1 .. Len(Current) : Current[i] \in Byte
  BY <1>2, LenProperties, ElementOfSeq DEF IInv, Encoding
<1> QED
  BY <1>1, <1>3, SubSeqProperties DEF Rest

\* A step that leaves the constructor's work alone keeps it as it is.
LEMMA BuiltUnchanged ==
  ASSUME Built, UNCHANGED <<load, tables, todo>>
  PROVE  Built'
BY DEF Built, tables, TrieOf, IdsLeadBack, Inverted, Word

\* A step that leaves the tables and the batch alone keeps the invariant.
LEMMA LookupSafe ==
  ASSUME IInv, UNCHANGED <<load, tables, todo, encoding>>,
         call' \in {"idle", call}
  PROVE  IInv'
<1>1. Built'
  BY BuiltUnchanged DEF IInv
<1>2. Encoding'
  BY DEF IInv, Encoding, tables, encoding
<1> QED
  BY <1>1, <1>2 DEF IInv

\* A call of EncodeBatch is refused, or starts with its batch.
LEMMA StartEncodeSafe ==
  ASSUME IInv, NEW batch \in Batch, NEW flags, StartEncode(batch, flags)
  PROVE  IInv'
<1>1. load = "ready" /\ UNCHANGED <<load, tables, todo>>
  BY DEF StartEncode
<1>2. CASE flags # "none"
  BY <1>1, <1>2, LookupSafe DEF StartEncode, AnswerEncode, Answer
<1>3. CASE flags = "none"
  <2>1. /\ call' = "encode" /\ texts' = batch
        /\ results' = << >> /\ ids' = << >> /\ str_idx' = 0
    BY <1>3 DEF StartEncode
  <2>2. << >> \in Seq(Seq(DOMAIN idx2word')) /\ << >> \in Seq(DOMAIN idx2word')
    BY EmptySeq
  <2>3. batch \in Seq(Text)
    BY RwkvAssumption
  <2>4. Encoding'
    BY <1>1, <2>1, <2>2, <2>3 DEF Encoding
  <2> QED
    BY <1>1, <2>4, BuiltUnchanged DEF IInv
<1> QED
  BY <1>2, <1>3

\* What a round of the loop does when it finds a word: the id is one of the model
\* file, and the position moves on by its word, the longest that fits.
LEMMA RoundFacts ==
  ASSUME IInv, InText, Found(Rest)
  PROVE  LET id == tree[LongestMatch(Rest)]
             word == LongestMatch(Rest)
         IN  /\ load = "ready"
             /\ id \in DOMAIN idx2word /\ idx2word[id] = word
             /\ word \in Seq(Byte) /\ word # << >> /\ IsPrefix(word, Rest)
             /\ \A other \in Word : IsPrefix(other, Rest) => Len(other) <= Len(word)
<1>1. load = "ready" /\ Rest \in Seq(Byte)
  BY RestFacts
<1>2. Matches(Rest) # {}
  BY DEF Found
<1>3. Word \subseteq Seq(Byte)
  BY WordFacts DEF IInv, Built
<1> HIDE DEF Rest
<1> QED
  BY <1>1, <1>2, <1>3, LongestMatchFacts

\* A round of the loop of EncodeImpl adds an id of the model file, or throws.
LEMMA RoundSafe ==
  ASSUME IInv, FindLongestPrefix
  PROVE  IInv'
<1>1. InText /\ UNCHANGED <<load, tables, todo, texts, results>>
  BY DEF FindLongestPrefix
<1>2. CASE ~Found(Rest)
  BY <1>1, <1>2, LookupSafe DEF FindLongestPrefix, AnswerEncode, Answer, encoding
<1>3. CASE Found(Rest)
  <2> DEFINE id == tree[LongestMatch(Rest)]
             word == LongestMatch(Rest)
  <2>1. ids' = Append(ids, id) /\ str_idx' = str_idx + Len(word) /\ UNCHANGED call
    BY <1>3 DEF FindLongestPrefix
  <2>2. load = "ready" /\ id \in DOMAIN idx2word /\ word \in Seq(Byte)
    BY <1>1, <1>3, RoundFacts
  <2>3. str_idx' \in Nat
    <3>1. Len(word) \in Nat
      BY <2>2, LenProperties
    <3> QED
      BY <2>1, <3>1 DEF IInv, Encoding
  <2>4. ids' \in Seq(DOMAIN idx2word)
    BY <2>1, <2>2, AppendProperties DEF IInv, Encoding
  <2>5. Encoding'
    BY <1>1, <2>1, <2>2, <2>3, <2>4 DEF IInv, Encoding, tables
  <2> QED
    BY <1>1, <2>5, BuiltUnchanged DEF IInv
<1> QED
  BY <1>2, <1>3

\* The ids of a text that is done join the results.
LEMMA TextDoneSafe ==
  ASSUME IInv, TextDone
  PROVE  IInv'
<1>1. /\ UNCHANGED <<load, tables, todo, call, texts>>
      /\ results' = Append(results, ids) /\ ids' = << >> /\ str_idx' = 0
      /\ call = "encode"
  BY DEF TextDone
<1>2. results' \in Seq(Seq(DOMAIN idx2word))
  BY <1>1, AppendProperties DEF IInv, Encoding
<1>3. ids' \in Seq(DOMAIN idx2word)
  BY <1>1, EmptySeq
<1>4. Encoding'
  BY <1>1, <1>2, <1>3 DEF IInv, Encoding, tables
<1> QED
  BY <1>1, <1>4, BuiltUnchanged DEF IInv

\* Every step keeps the invariant.
LEMMA StepSafe == IInv /\ [Next]_vars => IInv'
<1> SUFFICES ASSUME IInv, [Next]_vars PROVE IInv'
  OBVIOUS
<1>1. CASE Construct
  BY <1>1, ConstructSafe
<1>2. CASE \E batch \in Batch, flags \in {"none", "known", "undefined"} :
             StartEncode(batch, flags)
  BY <1>2, StartEncodeSafe
<1>3. CASE FindLongestPrefix
  BY <1>3, RoundSafe
<1>4. CASE TextDone
  BY <1>4, TextDoneSafe
<1>5. CASE BatchDone
  BY <1>5, LookupSafe DEF BatchDone, AnswerEncode, Answer
<1>6. CASE DecodeSome
  BY <1>6, LookupSafe DEF DecodeSome, Decode, Answer
<1>7. CASE \E id \in Token : IdToToken(id)
  BY <1>7, LookupSafe DEF IdToToken, Answer
<1>8. CASE \E word \in Spelling : TokenToId(word)
  BY <1>8, LookupSafe DEF TokenToId, Answer
<1>9. CASE GetVocabSize
  BY <1>9, LookupSafe DEF GetVocabSize, Answer
<1>10. CASE UNCHANGED vars
  BY <1>10, LookupSafe DEF vars, tables, encoding
<1> QED
  BY <1>1, <1>2, <1>3, <1>4, <1>5, <1>6, <1>7, <1>8, <1>9, <1>10 DEF Next, EncodeStep

------------------------------------------------------------------------------
(* The theorems                                                              *)

\* The invariant: the tables are as far built as the constructor is, and the ids
\* an encode call has found are ids of the model file.
THEOREM InvariantHolds == Spec => []IInv
<1>1. Init => IInv
  BY InitBuilt
<1>2. IInv /\ [Next]_vars => IInv'
  BY StepSafe
<1> QED
  BY <1>1, <1>2, PTL DEF Spec

\* The order in which the constructor visits its unordered maps does not matter to
\* which words the trie has and where: what TablesAgree says holds however they
\* are visited, also where the model file gives one word several ids.
THEOREM LoadOrderIrrelevant == Spec => []TablesAgree
<1>1. IInv => TablesAgree
  BY DEF IInv, Built, TablesAgree, TrieOf, IdsLeadBack
<1> QED
  BY <1>1, InvariantHolds, PTL

\* Every variable holds a value of its type.
THEOREM TypeCorrect == Spec => []TypeOK
<1>1. IInv => TypeOK
  <2> SUFFICES ASSUME IInv PROVE TypeOK
    OBVIOUS
  <2>1. Word \subseteq Seq(Byte)
    BY WordFacts DEF IInv, Built
  <2>2. \A word \in Word : Prefixes(word) \subseteq Seq(Byte)
    BY <2>1, PrefixTypes
  <2>3. << >> \in Seq(Byte)
    BY EmptySeq
  <2>4. DOMAIN word2idx \subseteq Word /\ word2idx \in [DOMAIN word2idx -> DOMAIN idx2word]
    BY DEF IInv, Built, Empty, IdsLeadBack, Inverted, Word
  <2>5. ASSUME NEW words \in SUBSET Word, TrieOf(words), DOMAIN word2idx = Word, IdsLeadBack
        PROVE  /\ DOMAIN tree \subseteq Seq(Byte)
               /\ tree \in [DOMAIN tree -> DOMAIN idx2word \cup {NoWord}]
    <3>1. DOMAIN tree \subseteq Seq(Byte)
      BY <2>2, <2>3, <2>5 DEF TrieOf
    <3>2. \A node \in DOMAIN tree : tree[node] \in DOMAIN idx2word \cup {NoWord}
      BY <2>5 DEF TrieOf, IdsLeadBack
    <3> QED
      BY <2>5, <3>1, <3>2 DEF TrieOf
  <2>6. /\ DOMAIN tree \subseteq Seq(Byte)
        /\ tree \in [DOMAIN tree -> DOMAIN idx2word \cup {NoWord}]
    <3>1. CASE tree = Root
      BY <2>3, <3>1 DEF Root
    <3>2. CASE load = "growing"
      <4>1. Word \ todo \in SUBSET Word
        OBVIOUS
      <4> QED
        BY <2>5, <3>2, <4>1 DEF IInv, Built
    <3>3. CASE load = "ready"
      BY <2>5, <3>3 DEF IInv, Built
    <3> QED
      BY <3>1, <3>2, <3>3 DEF IInv, Built
  <2>7. todo \subseteq IF load = "growing" THEN DOMAIN word2idx ELSE DOMAIN idx2word
    BY DEF IInv, Built
  <2> QED
    BY <2>4, <2>6, <2>7 DEF IInv, Built, Encoding, TypeOK
<1> QED
  BY <1>1, InvariantHolds, PTL

\* One step adds an id only in a round of the loop that finds a word.
LEMMA OnlyRoundsAdd ==
  ASSUME IInv, [Next]_vars, Len(ids') = Len(ids) + 1
  PROVE  FindLongestPrefix /\ Found(Rest)
<1>1. Len(ids) \in Nat
  BY LenProperties DEF IInv, Encoding
<1>2. ids' # ids /\ ids' # << >>
  BY <1>1, EmptySeq
<1> QED
  BY <1>2
     DEF Next, Construct, Unpack, InvertEntry, AddWord, StartEncode, EncodeStep,
         FindLongestPrefix, TextDone, BatchDone, DecodeSome, Decode, IdToToken,
         TokenToId, GetVocabSize, vars, encoding

\* A step of any kind that adds an id adds that of the longest word that fits,
\* and moves the position on by that word.
LEMMA RoundGreedy ==
  ASSUME IInv, [Next]_vars, Len(ids') = Len(ids) + 1
  PROVE  LET word == idx2word[ids'[Len(ids')]] IN
           /\ word # << >> /\ IsPrefix(word, Rest)
           /\ str_idx' = str_idx + Len(word)
           /\ \A other \in Word : IsPrefix(other, Rest) => Len(other) <= Len(word)
<1> DEFINE id == tree[LongestMatch(Rest)]
<1>1. FindLongestPrefix /\ Found(Rest)
  BY OnlyRoundsAdd
<1>2. InText /\ ids' = Append(ids, id) /\ str_idx' = str_idx + Len(LongestMatch(Rest))
  BY <1>1 DEF FindLongestPrefix
<1>3. /\ id \in DOMAIN idx2word /\ idx2word[id] = LongestMatch(Rest)
      /\ LongestMatch(Rest) # << >> /\ IsPrefix(LongestMatch(Rest), Rest)
      /\ \A other \in Word :
           IsPrefix(other, Rest) => Len(other) <= Len(LongestMatch(Rest))
  BY <1>1, <1>2, RoundFacts
<1>4. ids'[Len(ids')] = id
  BY <1>2, <1>3, AppendProperties DEF IInv, Encoding
<1> QED
  BY <1>2, <1>3, <1>4

\* A round of the encode loop is greedy and moves on, for every model file and
\* every text: so a text of n bytes takes at most n rounds.
THEOREM EveryRoundIsGreedy == Spec => RoundsAreGreedy
<1>1. IInv /\ [Next]_vars =>
        [Len(ids') = Len(ids) + 1 =>
           LET word == idx2word[ids'[Len(ids')]] IN
             /\ word # << >> /\ IsPrefix(word, Rest)
             /\ str_idx' = str_idx + Len(word)
             /\ \A other \in Word : IsPrefix(other, Rest) => Len(other) <= Len(word)]_vars
  BY RoundGreedy
<1> QED
  BY <1>1, InvariantHolds, PTL DEF Spec, RoundsAreGreedy

------------------------------------------------------------------------------
(* The operators of the properties, of a model file instead of the variable  *)

WordsIn(map) == {map[id] : id \in DOMAIN map}
SpelledIn(map, list) == FlattenSeq([j \in 1..Len(list) |-> map[list[j]]])
AfterIn(map, str, list) == SubSeq(str, Len(SpelledIn(map, list)) + 1, Len(str))
GreedyIn(map, str, list) ==
  /\ IsPrefix(SpelledIn(map, list), str)
  /\ \A j \in 1..Len(list) : \A word \in WordsIn(map) :
       IsPrefix(word, AfterIn(map, str, SubSeq(list, 1, j - 1)))
         => Len(word) <= Len(map[list[j]])

\* No word fits what follows list in str, or only words up to one with the id -1.
StuckIn(map, str, list) ==
  LET Fitting == {word \in WordsIn(map) \ {<< >>} : IsPrefix(word, AfterIn(map, str, list))} IN
    \A word \in Fitting : \E longer \in Fitting :
      Len(word) <= Len(longer) /\ -1 \in DOMAIN map /\ map[-1] = longer

IsModelFile(map) == map \in [DOMAIN map -> Seq(Byte)]

------------------------------------------------------------------------------
(* The inductive invariant for whole texts                                   *)

\* How far an encode call is.
Progress ==
  /\ Len(results) <= Len(texts)
  /\ ids # << >> => Len(results) < Len(texts)
  /\ Len(results) < Len(texts) =>
       /\ GreedyIn(idx2word, Current, ids)
       /\ Len(SpelledIn(idx2word, ids)) = str_idx
       /\ str_idx <= Len(Current)
  /\ \A i \in 1..Len(results) : GreedyIn(idx2word, texts[i], results[i])
                               /\ SpelledIn(idx2word, results[i]) = texts[i]

\* What has been answered, and when nothing has.
Answered ==
  /\ load # "ready" => texts = << >> /\ answer = NoAnswer
  /\ call = "encode" => answer = NoAnswer
  /\ answer = [to |-> <<"encode", 0>>, is |-> Throw("FRException")] /\ str_idx < Len(Current)
       => StuckIn(idx2word, Current, ids)

TInv == IInv /\ Progress /\ Answered /\ RoundTrip

------------------------------------------------------------------------------
(* What ids spell                                                            *)

\* What was unpacked is a map from ids to words.
LEMMA ModelFile == IInv => IsModelFile(idx2word)
<1> SUFFICES ASSUME IInv PROVE IsModelFile(idx2word)
  OBVIOUS
<1>1. CASE idx2word \in Vocabulary
  BY <1>1, RwkvAssumption DEF IsModelFile
<1>2. CASE idx2word = Empty
  BY <1>2 DEF IsModelFile, Empty
<1> QED BY <1>1, <1>2 DEF IInv, Built

\* No ids spell nothing.
LEMMA SpelledNothing == ASSUME NEW map PROVE SpelledIn(map, << >>) = << >>
<1>1. Len(<< >>) = 0 /\ [j \in 1..Len(<< >>) |-> map[<< >>[j]]] = << >>
  BY EmptySeq
<1> QED BY <1>1, FlattenEmpty DEF SpelledIn

\* An id that is added adds its word.
LEMMA SpelledAppend ==
  ASSUME NEW map, IsModelFile(map), NEW list \in Seq(DOMAIN map), NEW id \in DOMAIN map
  PROVE  /\ SpelledIn(map, list) \in Seq(Byte)
         /\ SpelledIn(map, Append(list, id)) = SpelledIn(map, list) \o map[id]
<1> DEFINE words == [j \in 1..Len(list) |-> map[list[j]]]
           longer == Append(list, id)
<1>1. Len(list) \in Nat /\ \A j \in 1..Len(list) : list[j] \in DOMAIN map
  BY LenProperties, ElementOfSeq
<1>2. \A i \in DOMAIN map : map[i] \in Seq(Byte)
  BY DEF IsModelFile
<1>3. words \in Seq(Seq(Byte)) /\ Len(words) = Len(list)
  BY <1>1, <1>2
<1>4. SpelledIn(map, list) \in Seq(Byte)
  BY <1>3, FlattenType DEF SpelledIn
<1>5. /\ Len(longer) = Len(list) + 1 /\ longer[Len(list) + 1] = id
      /\ \A j \in 1..Len(list) : longer[j] = list[j]
  BY AppendProperties
<1>6. [j \in 1..Len(longer) |-> map[longer[j]]] = Append(words, map[id])
  BY <1>1, <1>2, <1>3, <1>5
<1>7. SpelledIn(map, longer) = FlattenSeq(Append(words, map[id]))
  BY <1>6 DEF SpelledIn
<1>8. FlattenSeq(Append(words, map[id])) = FlattenSeq(words) \o map[id]
  <2> HIDE DEF words
  <2> QED BY <1>2, <1>3, FlattenAppend
<1> QED BY <1>4, <1>7, <1>8 DEF SpelledIn

\* A prefix, element by element.
LEMMA PrefixElements ==
  ASSUME NEW s \in Seq(Byte), NEW t \in Seq(Byte)
  PROVE  IsPrefix(s, t) <=> Len(s) <= Len(t) /\ \A i \in 1..Len(s) : s[i] = t[i]
<1>1. Len(s) \in Nat /\ Len(t) \in Nat
  BY LenProperties
<1>2. SubSeq(s, 1, Len(s)) = s
  BY SubSeqFull
<1>3. ASSUME Len(s) <= Len(t)
      PROVE  /\ SubSeq(t, 1, Len(s)) \in Seq(Byte) /\ Len(SubSeq(t, 1, Len(s))) = Len(s)
             /\ \A i \in 1..Len(s) : SubSeq(t, 1, Len(s))[i] = t[i]
  <2>1. \A i \in 1..Len(s) : t[i] \in Byte
    BY <1>1, <1>3, ElementOfSeq
  <2>2. Len(s) - 1 + 1 = Len(s) /\ \A i \in 1..Len(s) : 1 + i - 1 = i
    BY <1>1
  <2>3. 1 \in Int /\ Len(s) \in Int
    BY <1>1
  <2> QED BY <1>1, <2>1, <2>2, <2>3, SubSeqProperties
<1>4. ASSUME Len(s) <= Len(t), \A i \in 1..Len(s) : s[i] = t[i]
      PROVE  SubSeq(t, 1, Len(s)) = s
  BY <1>3, <1>4, SeqEqual
<1> QED BY <1>1, <1>2, <1>3, <1>4 DEF IsPrefix

\* A prefix and a prefix of what follows it are a prefix.
LEMMA PrefixConcat ==
  ASSUME NEW s \in Seq(Byte), NEW w \in Seq(Byte), NEW t \in Seq(Byte),
         IsPrefix(s, t), IsPrefix(w, SubSeq(t, Len(s) + 1, Len(t)))
  PROVE  IsPrefix(s \o w, t)
<1> DEFINE u == SubSeq(t, Len(s) + 1, Len(t))
<1>1. Len(s) \in Nat /\ Len(t) \in Nat /\ Len(w) \in Nat
  BY LenProperties
<1>2. Len(s) <= Len(t) /\ \A i \in 1..Len(s) : s[i] = t[i]
  BY PrefixElements
<1>3. /\ u \in Seq(Byte) /\ Len(u) = Len(t) - Len(s)
      /\ \A i \in 1..Len(u) : u[i] = t[Len(s) + i]
  <2>1. Len(s) + 1 \in Int /\ Len(t) \in Int /\ \A i \in Len(s) + 1..Len(t) : t[i] \in Byte
    BY <1>1, ElementOfSeq
  <2>2. /\ u \in Seq(Byte)
        /\ Len(u) = IF Len(s) + 1 <= Len(t) THEN Len(t) - (Len(s) + 1) + 1 ELSE 0
        /\ \A i \in 1..Len(t) - (Len(s) + 1) + 1 : u[i] = t[Len(s) + 1 + i - 1]
    BY <2>1, SubSeqProperties
  <2> QED BY <1>1, <1>2, <2>2
<1>4. Len(w) <= Len(u) /\ \A i \in 1..Len(w) : w[i] = u[i]
  <2>1. IsPrefix(w, u)
    OBVIOUS
  <2> HIDE DEF u
  <2> QED BY <1>3, <2>1, PrefixElements
<1>5. /\ s \o w \in Seq(Byte) /\ Len(s \o w) = Len(s) + Len(w)
      /\ \A i \in 1..Len(s) + Len(w) :
           (s \o w)[i] = IF i <= Len(s) THEN s[i] ELSE w[i - Len(s)]
  BY ConcatProperties
<1>6. ASSUME NEW i \in 1..Len(s) + Len(w) PROVE (s \o w)[i] = t[i]
  <2>1. CASE i <= Len(s)
    BY <1>1, <1>2, <1>5, <2>1
  <2>2. CASE i > Len(s)
    <3>1. i - Len(s) \in 1..Len(w) /\ i - Len(s) \in 1..Len(u) /\ Len(s) + (i - Len(s)) = i
      BY <1>1, <1>3, <1>4, <2>2
    <3>2. w[i - Len(s)] = t[i]
      BY <1>3, <1>4, <3>1
    <3>3. ~(i <= Len(s))
      BY <1>1, <2>2
    <3> QED BY <1>5, <3>2, <3>3
  <2> QED BY <1>1, <2>1, <2>2
<1>7. Len(s \o w) <= Len(t)
  BY <1>1, <1>2, <1>3, <1>4, <1>5
<1> QED
  <2>1. \A i \in 1..Len(s \o w) : (s \o w)[i] = t[i]
    BY <1>5, <1>6
  <2> QED BY <1>5, <1>7, <2>1, PrefixElements

------------------------------------------------------------------------------
(* Greedy encodings                                                          *)

\* An encoding that has just started is greedy.
LEMMA GreedyStarts ==
  ASSUME NEW map, NEW str \in Seq(Byte)
  PROVE  GreedyIn(map, str, << >>) /\ Len(SpelledIn(map, << >>)) = 0
<1>1. SpelledIn(map, << >>) = << >> /\ Len(<< >>) = 0 /\ << >> \in Seq(Byte)
  BY SpelledNothing, EmptySeq
<1>2. IsPrefix(<< >>, str)
  <2>1. Len(str) \in Nat
    BY LenProperties
  <2>2. SubSeq(<< >>, 1, 0) = << >> /\ SubSeq(str, 1, 0) = << >>
    BY SubSeqEmpty
  <2> QED BY <1>1, <2>1, <2>2 DEF IsPrefix
<1> QED BY <1>1, <1>2 DEF GreedyIn

\* A round with the longest word that fits keeps the ids greedy.
LEMMA GreedyGrows ==
  ASSUME NEW map, IsModelFile(map), NEW str \in Seq(Byte),
         NEW list \in Seq(DOMAIN map), NEW id \in DOMAIN map,
         GreedyIn(map, str, list), IsPrefix(map[id], AfterIn(map, str, list)),
         \A other \in WordsIn(map) :
           IsPrefix(other, AfterIn(map, str, list)) => Len(other) <= Len(map[id])
  PROVE  /\ GreedyIn(map, str, Append(list, id))
         /\ Len(SpelledIn(map, Append(list, id))) = Len(SpelledIn(map, list)) + Len(map[id])
         /\ Len(SpelledIn(map, Append(list, id))) <= Len(str)
<1> DEFINE longer == Append(list, id)
           s == SpelledIn(map, list)
<1>1. map[id] \in Seq(Byte)
  BY DEF IsModelFile
<1>2. s \in Seq(Byte) /\ SpelledIn(map, longer) = s \o map[id]
  BY SpelledAppend
<1>3. IsPrefix(s \o map[id], str)
  BY <1>1, <1>2, PrefixConcat DEF GreedyIn, AfterIn
<1>4. Len(s \o map[id]) = Len(s) + Len(map[id])
  <2> HIDE DEF s
  <2> QED BY <1>1, <1>2, ConcatProperties
<1>5. /\ Len(list) \in Nat /\ Len(longer) = Len(list) + 1 /\ longer[Len(list) + 1] = id
      /\ \A j \in 1..Len(list) : longer[j] = list[j]
      /\ longer \in Seq(DOMAIN map)
  BY LenProperties, AppendProperties
<1>6. ASSUME NEW j \in 1..Len(longer) PROVE SubSeq(longer, 1, j - 1) = SubSeq(list, 1, j - 1)
  <2>1. j - 1 \in 0..Len(list) /\ j - 1 <= Len(longer)
    BY <1>5
  <2>2. CASE j - 1 = 0
    BY <2>2, SubSeqEmpty
  <2>3. CASE j - 1 # 0
    <3>1. 1 \in 1..Len(list) /\ j - 1 \in 1..Len(list)
      BY <1>5, <2>1, <2>3
    <3>2. longer = list \o <<id>> /\ <<id>> \in Seq(DOMAIN map)
      BY AppendIsConcat
    <3> HIDE DEF longer
    <3> QED BY <3>1, <3>2, SubSeqOfConcat1
  <2> QED BY <2>2, <2>3
<1>7. ASSUME NEW j \in 1..Len(longer), NEW word \in WordsIn(map),
             IsPrefix(word, AfterIn(map, str, SubSeq(longer, 1, j - 1)))
      PROVE  Len(word) <= Len(map[longer[j]])
  <2>1. IsPrefix(word, AfterIn(map, str, SubSeq(list, 1, j - 1)))
    BY <1>6, <1>7
  <2>2. CASE j \in 1..Len(list)
    BY <1>5, <2>1, <2>2 DEF GreedyIn
  <2>3. CASE j = Len(list) + 1
    <3>1. SubSeq(list, 1, j - 1) = list
      BY <1>5, <2>3, SubSeqFull
    <3> QED BY <1>5, <2>1, <2>3, <3>1
  <2> QED BY <1>5, <2>2, <2>3
<1>8. Len(s \o map[id]) <= Len(str)
  BY <1>3 DEF IsPrefix
<1> QED BY <1>2, <1>3, <1>4, <1>7, <1>8 DEF GreedyIn

\* Ids that spell as many bytes as the text has spell the text.
LEMMA GreedyEnds ==
  ASSUME NEW map, IsModelFile(map), NEW str \in Seq(Byte), NEW list \in Seq(DOMAIN map),
         GreedyIn(map, str, list), Len(SpelledIn(map, list)) = Len(str)
  PROVE  SpelledIn(map, list) = str
<1> DEFINE s == SpelledIn(map, list)
<1>1. s \in Seq(Byte)
  <2>1. CASE list = << >>
    BY <2>1, SpelledNothing, EmptySeq
  <2>2. CASE list # << >>
    <3>1. list[1] \in DOMAIN map
      BY <2>2, EmptySeq, LenProperties, ElementOfSeq
    <3> QED BY <3>1, SpelledAppend
  <2> QED BY <2>1, <2>2
<1>2. SubSeq(s, 1, Len(s)) = SubSeq(str, 1, Len(s))
  BY DEF GreedyIn, IsPrefix
<1> HIDE DEF s
<1>3. SubSeq(s, 1, Len(s)) = s /\ SubSeq(str, 1, Len(str)) = str
  BY <1>1, SubSeqFull
<1> QED BY <1>2, <1>3 DEF s

------------------------------------------------------------------------------
(* The rounds of the loop                                                    *)

\* What is encoded is a text, and its ids are ids of the model file.
LEMMA CurrentFacts ==
  ASSUME IInv, Len(results) < Len(texts)
  PROVE  Current \in Seq(Byte) /\ Len(Current) \in Nat
<1>1. Len(results) + 1 \in 1..Len(texts)
  BY LenProperties DEF IInv, Encoding
<1>2. Current \in Text
  BY <1>1, ElementOfSeq DEF Current, IInv, Encoding
<1> QED BY <1>2, RwkvAssumption, LenProperties

\* The words of the tables are those of the model file.
LEMMA WordsAreWords == Word = WordsIn(idx2word)
BY DEF Word, WordsIn

\* What is searched next is what follows the ids so far.
LEMMA RestIsAfter ==
  ASSUME IInv, Progress, InText
  PROVE  Rest = AfterIn(idx2word, Current, ids)
BY DEF Progress, InText, Rest, AfterIn

\* The RV_CHECKs fail only where encoding is stuck.
LEMMA NotFoundIsStuck ==
  ASSUME IInv, Progress, InText, ~Found(Rest)
  PROVE  StuckIn(idx2word, Current, ids)
<1> DEFINE Fitting == {word \in WordsIn(idx2word) \ {<< >>} :
                         IsPrefix(word, AfterIn(idx2word, Current, ids))}
<1>1. load = "ready" /\ Rest \in Seq(Byte)
  BY RestFacts
<1>2. \A word \in Fitting : word \in Word \ {<< >>} /\ IsPrefix(word, Rest)
  BY RestIsAfter, WordsAreWords
<1>3. CASE Matches(Rest) = {}
  <2>1. Fitting = {}
    <3> HIDE DEF Fitting
    <3>1. \A word \in Fitting : Len(word) \in Matches(Rest)
      BY <1>1, <1>2, FittingMatches
    <3> QED BY <1>3, <3>1
  <2> QED BY <2>1 DEF StuckIn
<1>4. CASE Matches(Rest) # {}
  <2> DEFINE longest == LongestMatch(Rest)
  <2>1. tree[longest] = -1
    BY <1>4 DEF Found
  <2>2. /\ longest \in Word \ {<< >>} /\ IsPrefix(longest, Rest)
        /\ \A other \in Word : IsPrefix(other, Rest) => Len(other) <= Len(longest)
        /\ tree[longest] \in DOMAIN idx2word /\ idx2word[tree[longest]] = longest
    BY <1>1, <1>4, LongestMatchFacts
  <2> HIDE DEF longest
  <2>3. longest \in Fitting
    BY <2>2, RestIsAfter, WordsAreWords
  <2>4. \A word \in Fitting : Len(word) <= Len(longest)
    BY <1>2, <2>2
  <2>5. -1 \in DOMAIN idx2word /\ idx2word[-1] = longest
    BY <2>1, <2>2
  <2> QED BY <2>3, <2>4, <2>5 DEF StuckIn
<1> QED BY <1>3, <1>4

\* A round that finds a word keeps the ids greedy.
LEMMA RoundProgress ==
  ASSUME IInv, Progress, FindLongestPrefix, Found(Rest)
  PROVE  Progress'
<1> DEFINE id == tree[LongestMatch(Rest)]
           word == LongestMatch(Rest)
<1>1. /\ InText /\ UNCHANGED <<load, tables, todo, texts, results>>
      /\ ids' = Append(ids, id) /\ str_idx' = str_idx + Len(word)
  BY DEF FindLongestPrefix
<1>2. /\ id \in DOMAIN idx2word /\ idx2word[id] = word /\ IsPrefix(word, Rest)
      /\ \A other \in Word : IsPrefix(other, Rest) => Len(other) <= Len(word)
  BY <1>1, RoundFacts
<1>3. /\ Len(results) < Len(texts) /\ GreedyIn(idx2word, Current, ids)
      /\ Len(SpelledIn(idx2word, ids)) = str_idx
  BY <1>1 DEF InText, Progress
<1>4. Current \in Seq(Byte) /\ IsModelFile(idx2word) /\ ids \in Seq(DOMAIN idx2word)
  BY <1>3, CurrentFacts, ModelFile DEF IInv, Encoding
<1>5. /\ GreedyIn(idx2word, Current, Append(ids, id))
      /\ Len(SpelledIn(idx2word, Append(ids, id))) = str_idx + Len(word)
      /\ Len(SpelledIn(idx2word, Append(ids, id))) <= Len(Current)
  <2>1. Rest = AfterIn(idx2word, Current, ids)
    BY <1>1, RestIsAfter
  <2> HIDE DEF id, word
  <2> QED BY <1>2, <1>3, <1>4, <2>1, WordsAreWords, GreedyGrows
<1>6. idx2word' = idx2word /\ Current' = Current
  BY <1>1 DEF tables, Current
<1> HIDE DEF id, word
<1> QED BY <1>1, <1>3, <1>5, <1>6 DEF Progress

\* The ids of a text that is done spell it.
LEMMA TextDoneProgress ==
  ASSUME IInv, Progress, TextDone
  PROVE  Progress'
<1>1. /\ UNCHANGED <<load, tables, todo, texts>> /\ idx2word' = idx2word
      /\ results' = Append(results, ids) /\ ids' = << >> /\ str_idx' = 0
      /\ Len(results) < Len(texts) /\ str_idx = Len(Current)
  BY DEF TextDone, tables
<1>2. /\ GreedyIn(idx2word, Current, ids) /\ Len(SpelledIn(idx2word, ids)) = Len(Current)
  BY <1>1 DEF Progress
<1>3. Current \in Seq(Byte) /\ IsModelFile(idx2word) /\ ids \in Seq(DOMAIN idx2word)
  BY <1>1, CurrentFacts, ModelFile DEF IInv, Encoding
<1>4. SpelledIn(idx2word, ids) = Current
  BY <1>2, <1>3, GreedyEnds
<1>5. /\ Len(results) \in Nat /\ Len(texts) \in Nat /\ Len(results') = Len(results) + 1
      /\ results'[Len(results) + 1] = ids
      /\ \A i \in 1..Len(results) : results'[i] = results[i]
  BY <1>1, LenProperties, AppendProperties DEF IInv, Encoding
<1>6. ASSUME NEW i \in 1..Len(results')
      PROVE  /\ GreedyIn(idx2word, texts[i], results'[i])
             /\ SpelledIn(idx2word, results'[i]) = texts[i]
  <2>1. CASE i \in 1..Len(results)
    BY <1>5, <2>1 DEF Progress
  <2>2. CASE i = Len(results) + 1
    BY <1>2, <1>4, <1>5, <2>2 DEF Current
  <2> QED BY <1>5, <2>1, <2>2
<1>7. ASSUME Len(results') < Len(texts)
      PROVE  /\ GreedyIn(idx2word, Current', << >>)
             /\ Len(SpelledIn(idx2word, << >>)) = 0 /\ 0 <= Len(Current')
  <2>1. IInv'
    BY TextDoneSafe
  <2>2. texts[Len(results') + 1] \in Seq(Byte)
    <3>1. Len(results') + 1 \in 1..Len(texts)
      BY <1>5, <1>7
    <3>2. texts[Len(results') + 1] \in Text
      BY <3>1, ElementOfSeq DEF IInv, Encoding
    <3> QED BY <3>2, RwkvAssumption
  <2>3. Current' \in Seq(Byte)
    BY <1>1, <2>2 DEF Current
  <2> QED BY <2>3, GreedyStarts, LenProperties
<1> QED BY <1>1, <1>5, <1>6, <1>7 DEF Progress

\* A call that starts has nothing behind it.
LEMMA StartProgress ==
  ASSUME IInv, Progress, NEW batch \in Batch, NEW flags, StartEncode(batch, flags)
  PROVE  Progress'
<1>1. idx2word' = idx2word
  BY DEF StartEncode, tables
<1>2. CASE flags # "none"
  <2>1. UNCHANGED <<texts, results, ids, str_idx>>
    BY <1>2 DEF StartEncode, encoding
  <2> QED BY <1>1, <2>1 DEF Progress, Current
<1>3. CASE flags = "none"
  <2>1. texts' = batch /\ results' = << >> /\ ids' = << >> /\ str_idx' = 0
    BY <1>3 DEF StartEncode
  <2>2. batch \in Seq(Text) /\ Len(batch) \in Nat /\ Len(<< >>) = 0
    BY RwkvAssumption, LenProperties, EmptySeq
  <2>3. ASSUME 0 < Len(batch)
        PROVE  batch[1] \in Seq(Byte)
    <3>1. 1 \in 1..Len(batch)
      BY <2>2, <2>3
    <3>2. batch[1] \in Text
      BY <2>2, <3>1, ElementOfSeq
    <3> QED BY <3>2, RwkvAssumption
  <2>4. Current' = batch[1]
    BY <2>1, <2>2 DEF Current
  <2>5. ASSUME 0 < Len(batch)
        PROVE  /\ GreedyIn(idx2word, batch[1], << >>)
               /\ Len(SpelledIn(idx2word, << >>)) = 0 /\ 0 <= Len(batch[1])
    BY <2>3, <2>5, GreedyStarts, LenProperties
  <2> QED BY <1>1, <2>1, <2>2, <2>4, <2>5 DEF Progress
<1> QED BY <1>2, <1>3

\* Every step keeps what is known of the texts.
LEMMA StepProgress == IInv /\ Progress /\ Answered /\ [Next]_vars => Progress'
<1> SUFFICES ASSUME IInv, Progress, Answered, [Next]_vars PROVE Progress'
  OBVIOUS
<1>1. ASSUME UNCHANGED <<idx2word, encoding>> PROVE Progress'
  BY <1>1 DEF Progress, Current, encoding
<1>2. CASE Construct
  <2>1. load # "ready" /\ UNCHANGED <<texts, results, ids, str_idx>>
    BY <1>2 DEF Construct, Unpack, InvertEntry, AddWord, encoding
  <2>2. texts = << >> /\ results = << >> /\ ids = << >>
    BY <2>1 DEF Answered, IInv, Encoding
  <2>3. Len(<< >>) = 0
    BY EmptySeq
  <2> QED BY <2>1, <2>2, <2>3 DEF Progress
<1>3. CASE \E batch \in Batch, flags \in {"none", "known", "undefined"} :
             StartEncode(batch, flags)
  BY <1>3, StartProgress
<1>4. CASE FindLongestPrefix
  <2>1. CASE Found(Rest)
    BY <1>4, <2>1, RoundProgress
  <2>2. CASE ~Found(Rest)
    BY <1>1, <1>4, <2>2 DEF FindLongestPrefix, encoding, tables
  <2> QED BY <2>1, <2>2
<1>5. CASE TextDone
  BY <1>5, TextDoneProgress
<1>6. CASE BatchDone
  BY <1>1, <1>6 DEF BatchDone, tables
<1>7. CASE DecodeSome
  BY <1>1, <1>7 DEF DecodeSome, Decode, tables
<1>8. CASE \E id \in Token : IdToToken(id)
  BY <1>1, <1>8 DEF IdToToken, tables
<1>9. CASE \E word \in Spelling : TokenToId(word)
  BY <1>1, <1>9 DEF TokenToId, tables
<1>10. CASE GetVocabSize
  BY <1>1, <1>10 DEF GetVocabSize, tables
<1>11. CASE UNCHANGED vars
  BY <1>1, <1>11 DEF vars, encoding
<1> QED
  BY <1>2, <1>3, <1>4, <1>5, <1>6, <1>7, <1>8, <1>9, <1>10, <1>11 DEF Next, EncodeStep

------------------------------------------------------------------------------
(* The answers                                                               *)

EncodeThrew == [to |-> <<"encode", 0>>, is |-> Throw("FRException")]

\* Answers of other kinds are not that of an encode call that threw FRException.
LEMMA OtherAnswers ==
  /\ NoAnswer # EncodeThrew
  /\ \A v : [to |-> <<"encode", 0>>, is |-> Value(v)] # EncodeThrew
  /\ \A code \in {"InvalidArgument", "Unsupported"} :
       [to |-> <<"encode", 0>>, is |-> Throw(code)] # EncodeThrew
  /\ \A op \in {"decode", "id_to_token", "token_to_id", "get_vocab_size"} : \A x, v :
       [to |-> <<op, x>>, is |-> v] # EncodeThrew
<1>1. NoAnswer.to # EncodeThrew.to
  BY DEF NoAnswer, EncodeThrew
<1>2. \A v : Value(v).tag # Throw("FRException").tag
  BY DEF Value, Throw
<1>3. \A code \in {"InvalidArgument", "Unsupported"} : Throw(code).what # "FRException"
  BY DEF Throw
<1>4. EncodeThrew.is = Throw("FRException") /\ EncodeThrew.is.what = "FRException"
      /\ EncodeThrew.to = <<"encode", 0>> /\ EncodeThrew.to[1] = "encode"
  BY DEF EncodeThrew, Throw
<1>5. \A v : [to |-> <<"encode", 0>>, is |-> Value(v)] # EncodeThrew
  BY <1>2, <1>4
<1>6. \A code \in {"InvalidArgument", "Unsupported"} :
        [to |-> <<"encode", 0>>, is |-> Throw(code)] # EncodeThrew
  BY <1>3, <1>4
<1>7. ASSUME NEW op \in {"decode", "id_to_token", "token_to_id", "get_vocab_size"}, NEW x, NEW v
      PROVE  [to |-> <<op, x>>, is |-> v] # EncodeThrew
  <2>1. [to |-> <<op, x>>, is |-> v].to[1] = op /\ op # "encode"
    OBVIOUS
  <2> QED BY <1>4, <2>1
<1> QED BY <1>1, <1>5, <1>6, <1>7

\* Every step keeps what is known of the answers.
LEMMA StepAnswered == IInv /\ Progress /\ Answered /\ [Next]_vars => Answered'
<1> SUFFICES ASSUME IInv, Progress, Answered, [Next]_vars PROVE Answered'
  OBVIOUS
<1>1. ASSUME load = "ready", UNCHANGED <<load, idx2word, encoding>>, call' = "idle",
             answer' = EncodeThrew => answer = EncodeThrew
      PROVE  Answered'
  BY <1>1 DEF Answered, Current, encoding, EncodeThrew
<1>2. call = "encode" => load = "ready" /\ answer = NoAnswer
  BY DEF IInv, Encoding, Answered
<1>3. CASE Construct
  <2>1. load # "ready" /\ UNCHANGED <<texts, results, ids, str_idx, call, answer>>
    BY <1>3 DEF Construct, Unpack, InvertEntry, AddWord, encoding
  <2>2. texts = << >> /\ answer = NoAnswer
    BY <2>1 DEF Answered
  <2> QED BY <2>1, <2>2, OtherAnswers DEF Answered, EncodeThrew
<1>4. CASE \E batch \in Batch, flags \in {"none", "known", "undefined"} :
             StartEncode(batch, flags)
  <2>1. PICK batch \in Batch, flags \in {"none", "known", "undefined"} :
          StartEncode(batch, flags)
    BY <1>4
  <2>2. load = "ready" /\ load' = load
    BY <2>1 DEF StartEncode
  <2>3. CASE flags # "none"
    <3>1. UNCHANGED <<load, idx2word, encoding>> /\ call' = "idle"
      BY <2>1, <2>3 DEF StartEncode, AnswerEncode, Answer, tables
    <3>2. PICK code \in {"InvalidArgument", "Unsupported"} :
            answer' = [to |-> <<"encode", 0>>, is |-> Throw(code)]
      BY <2>1, <2>3 DEF StartEncode, AnswerEncode, Answer
    <3> QED BY <1>1, <2>2, <3>1, <3>2, OtherAnswers
  <2>4. CASE flags = "none"
    <3>1. answer' = NoAnswer
      BY <2>1, <2>4 DEF StartEncode
    <3> QED BY <2>2, <3>1, OtherAnswers DEF Answered, EncodeThrew
  <2> QED BY <2>3, <2>4
<1>5. CASE FindLongestPrefix
  <2>1. InText /\ call = "encode" /\ UNCHANGED <<load, idx2word, texts, results>>
    BY <1>5 DEF FindLongestPrefix, InText, tables
  <2>2. CASE Found(Rest)
    <3>1. call' = call /\ answer' = NoAnswer
      BY <1>2, <1>5, <2>1, <2>2 DEF FindLongestPrefix
    <3> QED BY <1>2, <2>1, <3>1, OtherAnswers DEF Answered, EncodeThrew
  <2>3. CASE ~Found(Rest)
    <3>1. UNCHANGED <<ids, str_idx>> /\ call' = "idle"
      BY <1>5, <2>3 DEF FindLongestPrefix, AnswerEncode, Answer
    <3>2. StuckIn(idx2word, Current, ids)
      BY <2>1, <2>3, NotFoundIsStuck
    <3>3. Current' = Current
      BY <2>1 DEF Current
    <3> QED BY <1>2, <2>1, <3>1, <3>2, <3>3 DEF Answered
  <2> QED BY <2>2, <2>3
<1>6. CASE TextDone
  <2>1. call = "encode" /\ UNCHANGED <<load, call, answer>>
    BY <1>6 DEF TextDone
  <2> QED BY <1>2, <2>1, OtherAnswers DEF Answered, EncodeThrew
<1>7. CASE BatchDone
  <2>1. /\ UNCHANGED <<load, idx2word, encoding>> /\ call' = "idle" /\ call = "encode"
        /\ answer' = [to |-> <<"encode", 0>>, is |-> Value(results)]
    BY <1>7 DEF BatchDone, AnswerEncode, Answer, tables
  <2> QED BY <1>1, <1>2, <2>1, OtherAnswers
<1>8. ASSUME NEW op \in {"decode", "id_to_token", "token_to_id", "get_vocab_size"}, NEW x, NEW v,
             MayCall, Answer(<<op, x>>, v), UNCHANGED <<load, tables, todo, encoding>>
      PROVE  Answered'
  <2>1. load = "ready" /\ UNCHANGED <<load, idx2word, encoding>> /\ call' = "idle"
        /\ answer' = [to |-> <<op, x>>, is |-> v]
    BY <1>8 DEF MayCall, Answer, tables
  <2> QED BY <1>1, <2>1, OtherAnswers
<1>9. CASE DecodeSome
  <2>1. PICK list : Decode(list)
    BY <1>9 DEF DecodeSome
  <2> QED BY <1>8, <2>1 DEF Decode
<1>10. CASE \E id \in Token : IdToToken(id)
  BY <1>8, <1>10 DEF IdToToken
<1>11. CASE \E word \in Spelling : TokenToId(word)
  BY <1>8, <1>11 DEF TokenToId
<1>12. CASE GetVocabSize
  BY <1>8, <1>12 DEF GetVocabSize
<1>13. CASE UNCHANGED vars
  BY <1>13 DEF Answered, Current, vars
<1> QED
  BY <1>3, <1>4, <1>5, <1>6, <1>7, <1>9, <1>10, <1>11, <1>12, <1>13 DEF Next, EncodeStep

------------------------------------------------------------------------------
(* Decoding                                                                  *)

\* Decoding ids that spell a text gives that text.
LEMMA DecodeAnswer ==
  ASSUME IInv, Progress, NEW list, Decode(list)
  PROVE  RoundTrip'
<1>1. /\ UNCHANGED <<texts, results>>
      /\ answer'.to = <<"decode", list>>
      /\ answer'.is = IF list = << >> THEN Value(<< >>)
                      ELSE Checked(FlattenSeq([j \in 1..Len(list) |-> WordOf(list[j])]))
  BY DEF Decode, Answer, encoding
<1>2. SUFFICES ASSUME NEW i \in 1..Len(results), list = results[i]
               PROVE  answer'.is = Value(texts[i])
  BY <1>1 DEF RoundTrip
<1>3. list \in Seq(DOMAIN idx2word) /\ SpelledIn(idx2word, list) = texts[i]
  <2>1. results[i] \in Seq(DOMAIN idx2word)
    BY ElementOfSeq DEF IInv, Encoding
  <2> QED BY <1>2, <2>1 DEF Progress
<1>4. CASE list = << >>
  BY <1>1, <1>3, <1>4, SpelledNothing
<1>5. CASE list # << >>
  <2>1. /\ Len(list) \in Nat /\ 1 \in 1..Len(list)
        /\ \A j \in 1..Len(list) : list[j] \in DOMAIN idx2word
    BY <1>3, <1>5, EmptySeq, LenProperties, ElementOfSeq
  <2>2. DOMAIN idx2word # {}
    BY <2>1
  <2>3. [j \in 1..Len(list) |-> WordOf(list[j])] = [j \in 1..Len(list) |-> idx2word[list[j]]]
    BY <2>1 DEF WordOf
  <2>4. FlattenSeq([j \in 1..Len(list) |-> WordOf(list[j])]) = texts[i]
    BY <1>3, <2>3 DEF SpelledIn
  <2> QED BY <1>1, <1>5, <2>2, <2>4 DEF Checked
<1> QED BY <1>4, <1>5

\* Every step keeps the round trip: only Decode answers for ids.
LEMMA StepRoundTrip == IInv /\ Progress /\ Answered /\ RoundTrip /\ [Next]_vars => RoundTrip'
<1> SUFFICES ASSUME IInv, Progress, Answered, RoundTrip, [Next]_vars PROVE RoundTrip'
  OBVIOUS
<1>1. ASSUME NEW op \in {"none", "encode", "id_to_token", "token_to_id", "get_vocab_size"}, NEW x,
             answer'.to = <<op, x>>
      PROVE  RoundTrip'
  <2>1. \A y : <<op, x>> # <<"decode", y>>
    OBVIOUS
  <2> QED BY <1>1, <2>1 DEF RoundTrip
<1>2. answer' = NoAnswer => RoundTrip'
  <2>1. NoAnswer.to = <<"none", 0>>
    BY DEF NoAnswer
  <2> QED BY <1>1, <2>1
<1>3. UNCHANGED <<texts, results, answer>> => RoundTrip'
  BY DEF RoundTrip
<1>4. CASE Construct
  BY <1>3, <1>4 DEF Construct, Unpack, InvertEntry, AddWord, encoding
<1>5. CASE \E batch \in Batch, flags \in {"none", "known", "undefined"} :
             StartEncode(batch, flags)
  <2>1. PICK batch \in Batch, flags \in {"none", "known", "undefined"} :
          StartEncode(batch, flags)
    BY <1>5
  <2>2. answer' = NoAnswer \/ answer'.to = <<"encode", 0>>
    BY <2>1 DEF StartEncode, AnswerEncode, Answer
  <2> QED BY <1>1, <1>2, <2>2
<1>6. CASE FindLongestPrefix
  <2>1. UNCHANGED <<texts, results>> /\ (answer' = answer \/ answer'.to = <<"encode", 0>>)
    BY <1>6 DEF FindLongestPrefix, AnswerEncode, Answer
  <2> QED BY <1>1, <1>3, <2>1
<1>7. CASE TextDone
  <2>1. answer' = NoAnswer
    BY <1>7 DEF TextDone, Answered
  <2> QED BY <1>2, <2>1
<1>8. CASE BatchDone
  <2>1. answer'.to = <<"encode", 0>>
    BY <1>8 DEF BatchDone, AnswerEncode, Answer
  <2> QED BY <1>1, <2>1
<1>9. CASE DecodeSome
  <2>1. PICK list : Decode(list)
    BY <1>9 DEF DecodeSome
  <2> QED BY <2>1, DecodeAnswer
<1>10. CASE \E id \in Token : IdToToken(id)
  <2>1. PICK id : answer'.to = <<"id_to_token", id>>
    BY <1>10 DEF IdToToken, Answer
  <2> QED BY <1>1, <2>1
<1>11. CASE \E word \in Spelling : TokenToId(word)
  <2>1. PICK word : answer'.to = <<"token_to_id", word>>
    BY <1>11 DEF TokenToId, Answer
  <2> QED BY <1>1, <2>1
<1>12. CASE GetVocabSize
  <2>1. answer'.to = <<"get_vocab_size", 0>>
    BY <1>12 DEF GetVocabSize, Answer
  <2> QED BY <1>1, <2>1
<1>13. CASE UNCHANGED vars
  BY <1>3, <1>13 DEF vars
<1> QED
  BY <1>4, <1>5, <1>6, <1>7, <1>8, <1>9, <1>10, <1>11, <1>12, <1>13 DEF Next, EncodeStep

------------------------------------------------------------------------------
(* The theorems                                                              *)

\* Before the constructor runs there are no texts.
LEMMA InitTexts == Init => TInv
<1> SUFFICES ASSUME Init PROVE TInv
  OBVIOUS
<1>1. /\ texts = << >> /\ results = << >> /\ ids = << >> /\ answer = NoAnswer /\ call = "idle"
      /\ Len(<< >>) = 0
  BY EmptySeq DEF Init
<1>2. Progress /\ RoundTrip
  BY <1>1 DEF Progress, RoundTrip
<1>3. Answered
  BY <1>1, OtherAnswers DEF Answered, EncodeThrew
<1> QED BY <1>2, <1>3, InitBuilt DEF TInv

\* The invariant behind the theorems below: the finished texts are spelled by their
\* ids, and the text that is being encoded up to the position.
THEOREM TextsHold == Spec => []TInv
<1>1. TInv /\ [Next]_vars => TInv'
  BY StepSafe, StepProgress, StepAnswered, StepRoundTrip DEF TInv
<1> QED BY InitTexts, <1>1, PTL DEF Spec

\* The operators of the properties are those of this module.
LEMMA SpelledSame == \A list : Spelled(list) = SpelledIn(idx2word, list)
BY DEF Spelled, SpelledIn

\* The same for what follows a list of ids.
LEMMA AfterSame == \A str, list : After(str, list) = AfterIn(idx2word, str, list)
BY SpelledSame DEF After, AfterIn

\* For every model file and text, the ids that EncodeImpl returns spell the text,
\* each with the longest word of the file that fits where it stands.
THEOREM EncodingIsGreedy == Spec => []EncodeIsGreedy
<1>1. ASSUME NEW str, NEW list PROVE GreedyIn(idx2word, str, list) => Greedy(str, list)
  BY SpelledSame, AfterSame, WordsAreWords DEF Greedy, GreedyIn
<1>2. TInv => EncodeIsGreedy
  BY <1>1, SpelledSame DEF TInv, Progress, EncodeIsGreedy
<1> QED BY <1>2, TextsHold, PTL

\* Encode fails in the middle of a text only where no word of the file fits, or
\* where the longest that fits has the id that stands for no match.
THEOREM ThrowsWhenStuck == Spec => []ThrowsOnlyWhenStuck
<1>1. ASSUME NEW str, NEW list, StuckIn(idx2word, str, list)
      PROVE  LET Fitting == {word \in Word \ {<< >>} : IsPrefix(word, After(str, list))} IN
               \A word \in Fitting : \E longer \in Fitting :
                 Len(word) <= Len(longer) /\ -1 \in DOMAIN idx2word /\ idx2word[-1] = longer
  BY <1>1, AfterSame, WordsAreWords DEF StuckIn
<1>2. TInv => ThrowsOnlyWhenStuck
  BY <1>1 DEF TInv, Answered, ThrowsOnlyWhenStuck
<1> QED BY <1>2, TextsHold, PTL

\* For every model file and text, Decode gives back the text that was encoded.
THEOREM DecodeInvertsEncode == Spec => []RoundTrip
<1>1. TInv => RoundTrip
  BY DEF TInv
<1> QED BY <1>1, TextsHold, PTL

------------------------------------------------------------------------------
(* Vocabularies that every text can be written in                            *)

\* Every byte is a word, and no id stands for no match.
Complete(v) == -1 \notin DOMAIN v /\ \A byte \in Byte : <<byte>> \in WordsIn(v)

\* Past the unpacking there is a model file.
Unpacked == load \in {"inverting", "growing", "ready"} => idx2word \in Vocabulary

\* With such a vocabulary the RV_CHECKs pass wherever a text goes on.
LEMMA CompleteFinds ==
  ASSUME IInv, Unpacked, InText, \A v \in Vocabulary : Complete(v)
  PROVE  Found(Rest)
<1> DEFINE byte == Rest[1]
<1>1. load = "ready" /\ Rest \in Seq(Byte) /\ Complete(idx2word)
  BY RestFacts DEF Unpacked
<1>2. Len(Rest) \in Nat /\ 1 <= Len(Rest)
  <2>1. Current \in Seq(Byte) /\ Len(Current) \in Nat /\ str_idx \in Nat /\ str_idx < Len(Current)
    BY CurrentFacts DEF InText, IInv, Encoding
  <2>2. \A i \in str_idx + 1..Len(Current) : Current[i] \in Byte
    BY <2>1, ElementOfSeq
  <2>3. Len(Rest) = Len(Current) - (str_idx + 1) + 1
    <3>1. str_idx + 1 \in Int /\ Len(Current) \in Int /\ str_idx + 1 <= Len(Current)
      BY <2>1
    <3> HIDE DEF Current
    <3> QED BY <2>2, <3>1, SubSeqProperties DEF Rest
  <2> HIDE DEF Rest
  <2> QED BY <2>1, <2>3
<1> HIDE DEF Rest
<1>3. byte \in Byte
  BY <1>1, <1>2, ElementOfSeq
<1> HIDE DEF byte
<1>4. <<byte>> \in Word \ {<< >>} /\ Len(<<byte>>) = 1
  BY <1>1, <1>3, WordsAreWords DEF Complete
<1>5. IsPrefix(<<byte>>, Rest)
  <2>1. <<byte>> \in Seq(Byte) /\ \A i \in 1..1 : <<byte>>[i] = Rest[i]
    BY <1>3 DEF byte
  <2> QED BY <1>1, <1>2, <1>4, <2>1, PrefixElements
<1>6. Matches(Rest) # {}
  BY <1>1, <1>4, <1>5, FittingMatches
<1>7. tree[LongestMatch(Rest)] \in DOMAIN idx2word
  BY <1>1, <1>6, LongestMatchFacts DEF IInv, Built, IdsLeadBack
<1> QED BY <1>1, <1>6, <1>7 DEF Found, Complete

\* What the header says of the errors of Encode holds for a model file in which
\* every byte is a word and no word has the id -1: Encode then throws for its
\* flags only.
THEOREM CompleteVocabularyNeverThrows ==
  ASSUME \A v \in Vocabulary : Complete(v)
  PROVE  Spec => []EncodeThrowsTokenizerError
<1>1. Init => Unpacked /\ EncodeThrowsTokenizerError
  BY DEF Init, Unpacked, EncodeThrowsTokenizerError, NoAnswer
<1>2. IInv /\ Unpacked /\ [Next]_vars => Unpacked'
  <2> SUFFICES ASSUME IInv, Unpacked, [Next]_vars PROVE Unpacked'
    OBVIOUS
  <2>1. CASE UNCHANGED <<load, idx2word>>
    BY <2>1 DEF Unpacked
  <2>2. CASE Construct
    BY <2>2 DEF Construct, Unpack, InvertEntry, AddWord, Unpacked
  <2> QED BY <2>1, <2>2 DEF Next, vars, tables, StartEncode, EncodeStep, FindLongestPrefix, TextDone,
        BatchDone, DecodeSome, Decode, IdToToken, TokenToId, GetVocabSize
<1>3. IInv /\ Unpacked /\ EncodeThrowsTokenizerError /\ [Next]_vars => EncodeThrowsTokenizerError'
  <2> SUFFICES ASSUME IInv, Unpacked, EncodeThrowsTokenizerError, [Next]_vars
               PROVE  EncodeThrowsTokenizerError'
    OBVIOUS
  <2>1. ASSUME answer' = answer PROVE EncodeThrowsTokenizerError'
    BY <2>1 DEF EncodeThrowsTokenizerError
  <2>2. ASSUME NEW op \in {"decode", "id_to_token", "token_to_id", "get_vocab_size"}, NEW x, NEW v,
               Answer(<<op, x>>, v)
        PROVE  EncodeThrowsTokenizerError'
    BY <2>2 DEF Answer, EncodeThrowsTokenizerError
  <2>3. ASSUME NEW batch, NEW flags, StartEncode(batch, flags)
        PROVE  EncodeThrowsTokenizerError'
    BY <2>3 DEF StartEncode, AnswerEncode, Answer, Throw, NoAnswer, EncodeThrowsTokenizerError
  <2>4. CASE FindLongestPrefix
    <3>1. Found(Rest)
      BY <2>4, CompleteFinds DEF FindLongestPrefix
    <3> QED BY <2>1, <2>4, <3>1 DEF FindLongestPrefix
  <2>5. CASE BatchDone
    BY <2>5 DEF BatchDone, AnswerEncode, Answer, Value, EncodeThrowsTokenizerError
  <2>6. CASE DecodeSome \/ (\E id \in Token : IdToToken(id))
             \/ (\E word \in Spelling : TokenToId(word)) \/ GetVocabSize
    BY <2>2, <2>6 DEF DecodeSome, Decode, IdToToken, TokenToId, GetVocabSize
  <2>7. CASE Construct \/ TextDone \/ UNCHANGED vars
    BY <2>1, <2>7 DEF Construct, Unpack, InvertEntry, AddWord, TextDone, vars
  <2> QED BY <2>3, <2>4, <2>5, <2>6, <2>7 DEF Next, EncodeStep
<1> QED BY <1>1, <1>2, <1>3, InvariantHolds, PTL DEF Spec
==============================================================================

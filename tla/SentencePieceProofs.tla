-------------------------- MODULE SentencePieceProofs --------------------------
(***************************************************************************)
(* Proofs about SentencePiece, for every model, batch and set of texts     *)
(* that the library refuses.                                               *)
(***************************************************************************)
EXTENDS SentencePiece, SequenceTheorems, TLAPS

\* A call that is refused has an error for an answer, any other a batch to encode.
LEMMA StartEncodeTyped ==
  ASSUME TypeOK, NEW batch \in Batch, NEW word, StartEncode(batch, word)
  PROVE  TypeOK'
<1>1. /\ factory = "tokenizer" /\ results' = << >> /\ failed' = FALSE
      /\ UNCHANGED <<factory, status>>
  BY DEF StartEncode
<1>2. batch \in Seq(Text)
  BY SentencePieceAssumption
<1>3. texts' \in Seq(Text) => results' \in Seq(Seq(Nat)) /\ Len(results') <= Len(texts')
  BY <1>1, EmptySeq, LenProperties
<1>4. CASE call' = "encode" /\ texts' = batch /\ UNCHANGED answer
  BY <1>1, <1>2, <1>3, <1>4 DEF TypeOK
<1>5. CASE /\ answer' = Throw(IF word \subseteq KnownFlags THEN "Unsupported" ELSE "InvalidArgument")
           /\ UNCHANGED <<call, texts>>
  <2>1. PICK code \in {"InvalidArgument", "Unsupported"} : answer' = Throw(code)
    BY <1>5
  <2>2. answer' \in [tag: {"throw"}, code: {"InvalidArgument", "Unsupported"}]
    BY <2>1 DEF Throw
  <2> QED BY <1>1, <1>3, <1>5, <2>2 DEF TypeOK
<1> QED BY <1>4, <1>5 DEF StartEncode

\* A round adds the ids of one text of the batch.
LEMMA EncodeImplTyped == TypeOK /\ EncodeImpl => TypeOK'
<1> SUFFICES ASSUME TypeOK, EncodeImpl PROVE TypeOK'
  OBVIOUS
<1> DEFINE n == Len(results)
           more == IF Refuses(Current) THEN << >> ELSE Ids[Current]
<1>1. /\ n < Len(texts) /\ results' = Append(results, more) /\ failed' \in BOOLEAN
      /\ UNCHANGED <<factory, status, call, texts, answer>>
  BY DEF EncodeImpl
<1>2. /\ results \in Seq(Seq(Nat)) /\ texts \in Seq(Text) /\ n \in Nat /\ Len(texts) \in Nat
      /\ n + 1 \in 1..Len(texts)
  BY <1>1, LenProperties DEF TypeOK
<1>3. Current \in Text
  BY <1>2, ElementOfSeq DEF Current
<1>4. more \in Seq(Nat)
  BY <1>3, EmptySeq, SentencePieceAssumption
<1>5. results' \in Seq(Seq(Nat)) /\ Len(results') = n + 1
  <2> HIDE DEF more
  <2> QED BY <1>1, <1>2, <1>4, AppendProperties
<1> QED BY <1>1, <1>2, <1>5 DEF TypeOK

\* Every variable of the SentencePiece backend keeps its type, also where a model
\* did not load and its status was dropped: an Encode that failed still answers
\* with sequences of ids.
THEOREM TypeCorrect == Spec => []TypeOK
<1>1. Init => TypeOK
  <2>1. << >> \in Seq(Text) /\ << >> \in Seq(Seq(Nat)) /\ Len(<< >>) = 0
    BY EmptySeq
  <2> SUFFICES ASSUME Init PROVE TypeOK
    OBVIOUS
  <2>2. results \in Seq(Seq(Nat)) /\ Len(results) <= Len(texts) /\ texts \in Seq(Text)
    BY <2>1 DEF Init
  <2> QED BY <2>2 DEF Init, TypeOK
<1>2. TypeOK /\ [Next]_vars => TypeOK'
  <2> SUFFICES ASSUME TypeOK, [Next]_vars PROVE TypeOK'
    OBVIOUS
  <2>1. CASE FromBlob
    BY <2>1 DEF FromBlob, TypeOK
  <2>2. CASE EncodeReturns
    BY <2>2 DEF EncodeReturns, Value, TypeOK
  <2>3. CASE UNCHANGED vars
    BY <2>3 DEF vars, TypeOK
  <2> QED BY <2>1, <2>2, <2>3, StartEncodeTyped, EncodeImplTyped DEF Next
<1> QED BY <1>1, <1>2, PTL DEF Spec
==============================================================================

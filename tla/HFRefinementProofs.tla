-------------------------- MODULE HFRefinementProofs --------------------------
(***************************************************************************)
(* HFTokenizer implements TokenizerApi, for any number of threads: between *)
(* the choice of a view and the end of a call, what a thread has found out *)
(* so far is an answer the headers promise to its own request.             *)
(***************************************************************************)
EXTENDS HFTokenizerProofs

------------------------------------------------------------------------------
(* What a thread in the middle of an encode call knows                       *)

\* One of the two factories made the views, and nothing has changed them.
Policies == FromJson \/ FromByteLevelBpe

\* The buffers a call was handed are the ids promised to its request.
HoldsPromise(c) ==
  \A i \in 1..Len(request[c].texts) :
    heap[cell[ResultCell(c, i)]] = Ids(Api!PromisedIds(request[c])[i])

Promises(c) ==
  /\ pc[c] = "tokenize" => view[c] = tokenizer_for_encode(request[c].flags)
  /\ pc[c] = "returned" =>
       IF status[c] = "Ok"
       THEN Api!Refusals(request[c]) = {} /\ HoldsPromise(c)
       ELSE Throw(status[c]) \in Api!Answers(c, request[c])
  /\ pc[c] = "release" => outcome[c] \in Api!Answers(c, request[c])

RInv == IInv /\ Policies /\ \A c \in Client : Promises(c)

------------------------------------------------------------------------------
(* The views are the policies that the flags ask for                         *)

\* The view chosen for flags recognises what EncodeFlags leave recognised.
LEMMA ViewIsPolicy ==
  ASSUME Policies, NEW flags, NEW name \in ViewName, tokenizer_for_encode(flags) = name
  PROVE  /\ flags \subseteq KnownFlags
         /\ ~supports_encode_flags => flags = {}
         /\ Recognised(wrapper[name]) = Api!LeftRecognised(flags)
         /\ wrapper[name].post_processor = IF supports_encode_flags THEN PostIds ELSE << >>
<1>1. flags \subseteq KnownFlags
  BY DEF tokenizer_for_encode, ViewName
<1>2. CASE FromJson
  <2>1. /\ wrapper.tokenizer = JsonView
        /\ wrapper.ignore_special_tokens = [JsonView EXCEPT !.encode_special_tokens = TRUE]
        /\ wrapper.ignore_added_tokens = [JsonView EXCEPT !.added_vocabulary = {}]
        /\ supports_encode_flags = TRUE
    BY <1>2 DEF FromJson
  <2>2. wrapper.ignore_added_tokens \in View
    BY <2>1 DEF JsonView, View
  <2>3. name = IF flags = {} THEN "tokenizer"
               ELSE IF "ignore_added_tokens" \in flags THEN "ignore_added_tokens"
               ELSE "ignore_special_tokens"
    BY <1>1, <2>2, OptionAssumption DEF tokenizer_for_encode
  <2>4. CASE flags = {}
    <3>1. wrapper[name] = JsonView
      BY <2>1, <2>3, <2>4
    <3> QED BY <1>1, <2>1, <2>4, <3>1 DEF JsonView, Recognised, Api!LeftRecognised
  <2>5. CASE "ignore_added_tokens" \in flags
    <3>1. wrapper[name] = [JsonView EXCEPT !.added_vocabulary = {}]
      BY <2>1, <2>3, <2>5
    <3> QED BY <1>1, <2>1, <2>5, <3>1 DEF JsonView, Recognised, Api!LeftRecognised
  <2>6. CASE flags # {} /\ "ignore_added_tokens" \notin flags
    <3>1. wrapper[name] = [JsonView EXCEPT !.encode_special_tokens = TRUE]
      BY <2>1, <2>3, <2>6
    <3>2. "ignore_special_tokens" \in flags
      BY <1>1, <2>6 DEF KnownFlags
    <3> QED BY <1>1, <2>1, <2>6, <3>1, <3>2 DEF JsonView, Recognised, Api!LeftRecognised
  <2> QED BY <2>4, <2>5, <2>6
<1>3. CASE FromByteLevelBpe
  <2>1. /\ wrapper.tokenizer = [added_vocabulary |-> {}, encode_special_tokens |-> FALSE,
                                post_processor |-> << >>]
        /\ wrapper.ignore_added_tokens = None
        /\ supports_encode_flags = FALSE
    BY <1>3 DEF FromByteLevelBpe
  <2>2. flags = {} /\ name = "tokenizer"
    BY <1>1, <2>1 DEF tokenizer_for_encode, ViewName
  <2> QED BY <1>1, <2>1, <2>2 DEF Recognised, Api!LeftRecognised
<1> QED BY <1>2, <1>3 DEF Policies

\* What the chosen view yields for a text is what is promised for it.
LEMMA EncodeIsPromise ==
  ASSUME Policies, NEW r \in EncodeRequest, NEW name \in ViewName,
         tokenizer_for_encode(r.flags) = name, NEW i \in 1..Len(r.texts)
  PROVE  EncodeText(wrapper[name], r.texts[i], r.add_special_tokens) = Api!PromisedIds(r)[i]
<1>1. /\ Recognised(wrapper[name]) = Api!LeftRecognised(r.flags)
      /\ wrapper[name].post_processor = IF supports_encode_flags THEN PostIds ELSE << >>
  BY ViewIsPolicy
<1>2. \A rec, p : Api!IdOfPiece(rec, p) = IdOfPiece(rec, p)
  BY DEF Api!IdOfPiece, IdOfPiece
<1>3. (IF r.add_special_tokens THEN wrapper[name].post_processor ELSE << >>)
        = IF supports_encode_flags /\ r.add_special_tokens THEN PostIds ELSE << >>
  BY <1>1
<1> QED BY <1>1, <1>2, <1>3 DEF EncodeText, Api!PromisedIds

\* A request that is refused by ValidateEncodeOptions or tokenizers_encode is one
\* that the headers let refuse, with the same code.
LEMMA RefusalFacts ==
  ASSUME Policies, NEW r \in EncodeRequest
  PROVE  /\ ~(r.flags \subseteq KnownFlags) => "InvalidArgument" \in Api!Refusals(r)
         /\ (\E i \in 1..Len(r.texts) : r.texts[i] = MalformedText)
              => "InvalidArgument" \in Api!Refusals(r)
         /\ r.flags # {} /\ r.flags \subseteq KnownFlags /\ ~supports_encode_flags
              => "Unsupported" \in Api!Refusals(r)
         /\ r.flags \subseteq KnownFlags /\ (supports_encode_flags \/ r.flags = {})
              /\ (\A i \in 1..Len(r.texts) : r.texts[i] # MalformedText)
              => Api!Refusals(r) = {}
BY DEF Api!Refusals, Api!KnownFlags, KnownFlags

\* The answers to an encode request, without the cases.
LEMMA EncodeAnswerFacts ==
  ASSUME NEW c \in Client, NEW r \in EncodeRequest
  PROVE  /\ \A code \in Api!Refusals(r) : Throw(code) \in Api!Answers(c, r)
         /\ Api!Refusals(r) = {} => Throw("Internal") \in Api!Answers(c, r)
         /\ Api!Refusals(r) = {} /\ (c \in CppClient => Api!FitsInt32(Api!PromisedIds(r)))
              => Value(Api!PromisedIds(r)) \in Api!Answers(c, r)
         /\ c \in CppClient => Throw("bad_alloc") \in Api!Answers(c, r)
<1>1. r.op = "encode"
  BY RequestFacts
<1>2. Api!Answers(c, r) = {Api!Throw("bad_alloc") : cpp \in CppClient \cap {c}}
                          \cup Api!EncodeAnswers(c, r)
  BY <1>1 DEF Api!Answers
<1>3. \A code : Api!Throw(code) = Throw(code)
  BY DEF Api!Throw, Throw
<1>4. \A v : Api!Value(v) = Value(v)
  BY DEF Api!Value, Value
<1>5. c \in CppClient => Throw("bad_alloc") \in Api!Answers(c, r)
  BY <1>2, <1>3
<1>6. CASE Api!Refusals(r) # {}
  <2>1. Api!EncodeAnswers(c, r) = {Api!Throw(code) : code \in Api!Refusals(r)}
    BY <1>6 DEF Api!EncodeAnswers
  <2> QED BY <1>2, <1>3, <1>5, <1>6, <2>1
<1>7. CASE Api!Refusals(r) = {}
  <2>1. Api!EncodeAnswers(c, r) =
          {Api!Throw("Internal")}
          \cup {Api!Value(a) : a \in {b \in {Api!PromisedIds(r)} : c \in CppClient => Api!FitsInt32(b)}}
    BY <1>7 DEF Api!EncodeAnswers
  <2>2. (c \in CppClient => Api!FitsInt32(Api!PromisedIds(r)))
          => Api!Value(Api!PromisedIds(r)) \in Api!EncodeAnswers(c, r)
    BY <2>1
  <2> QED BY <1>2, <1>3, <1>4, <1>5, <1>7, <2>1, <2>2
<1> QED BY <1>6, <1>7

\* The strings that Decode and IdToToken read are answers to their requests.
LEMMA StringAnswerFacts ==
  ASSUME Policies, NEW c \in Client, NEW r \in DecodeRequest \cup TokenRequest
  PROVE  /\ \A string \in StringAnswers(r) : Value(string) \in Api!Answers(c, r)
         /\ c \in CppClient => Throw("bad_alloc") \in Api!Answers(c, r)
<1>1. Api!Decoder = wrapper.tokenizer
  <2>1. CASE FromJson
    <3>1. supports_encode_flags = TRUE /\ wrapper.tokenizer = JsonView
      BY <2>1 DEF FromJson
    <3> QED BY <3>1 DEF Api!Decoder, JsonView
  <2>2. CASE FromByteLevelBpe
    <3>1. /\ supports_encode_flags = FALSE
          /\ wrapper.tokenizer = [added_vocabulary |-> {}, encode_special_tokens |-> FALSE,
                                  post_processor |-> << >>]
      BY <2>2 DEF FromByteLevelBpe
    <3> QED BY <3>1 DEF Api!Decoder
  <2> QED BY <2>1, <2>2 DEF Policies
<1>2. /\ \A v : Api!Value(v) = Value(v)
      /\ \A code : Api!Throw(code) = Throw(code)
  BY DEF Api!Value, Value, Api!Throw, Throw
<1>3. Api!DecodeIds(Api!Decoder, r.ids, r.skip_special_tokens)
        = DecodeIds(wrapper.tokenizer, r.ids, r.skip_special_tokens)
  BY <1>1 DEF Api!DecodeIds, DecodeIds, Api!NamesToken, NamesToken
<1>4. Api!TokenString(Api!Decoder, r.id) = TokenString(wrapper.tokenizer, r.id)
  BY <1>1 DEF Api!TokenString, TokenString, Api!NamesToken, NamesToken
<1>5. CASE r \in DecodeRequest
  <2>1. r.op = "decode"
    BY <1>5, RequestFacts
  <2>2. Api!Answers(c, r) = {Throw("bad_alloc") : cpp \in CppClient \cap {c}}
          \cup {Value(DecodeIds(wrapper.tokenizer, r.ids, r.skip_special_tokens)), Value(<< >>)}
    BY <2>1, <1>2, <1>3 DEF Api!Answers
  <2> QED BY <2>1, <2>2 DEF StringAnswers
<1>6. CASE r \in TokenRequest
  <2>1. r.op = "id_to_token"
    BY <1>6, RequestFacts
  <2>2. Api!Answers(c, r) = {Throw("bad_alloc") : cpp \in CppClient \cap {c}}
          \cup {Value(TokenString(wrapper.tokenizer, r.id))}
    BY <2>1, <1>2, <1>4 DEF Api!Answers
  <2> QED BY <2>1, <2>2 DEF StringAnswers
<1> QED BY <1>5, <1>6

------------------------------------------------------------------------------
(* How steps map                                                             *)

\* A step in the middle of a call, or of a caller that frees once more.
LEMMA Stutters ==
  ASSUME UNCHANGED <<loaded, open, request>>,
         \A d \in Client : /\ Phase(d)' = Phase(d)
                           /\ pc[d] = "done" => outcome'[d] = outcome[d]
  PROVE  UNCHANGED Api!vars
<1>1. \A d \in Client : pc'[d] = "done" <=> pc[d] = "done"
  BY DEF Phase
<1>2. supports_encode_flags' = supports_encode_flags /\ open' = open /\ request' = request
  BY DEF loaded
<1>3. [d \in Client |-> Phase(d)]' = [d \in Client |-> Phase(d)]
  OBVIOUS
<1>4. [d \in Client |-> IF pc[d] = "done" THEN outcome[d] ELSE NoOutcome]'
        = [d \in Client |-> IF pc[d] = "done" THEN outcome[d] ELSE NoOutcome]
  BY <1>1
<1> QED BY <1>2, <1>3, <1>4 DEF Api!vars

\* The step that ends a call.
LEMMA Responds ==
  ASSUME UNCHANGED <<loaded, open, request>>, LocalsInv,
         NEW c \in Client, pc[c] \notin {"idle", "done"},
         pc' = [pc EXCEPT ![c] = "done"],
         \A d \in Client \ {c} : outcome'[d] = outcome[d],
         outcome'[c] \in Api!Answers(c, request[c])
  PROVE  Api!Respond(c)
<1>1. supports_encode_flags' = supports_encode_flags /\ open' = open /\ request' = request
  BY DEF loaded
<1>2. pc'[c] = "done" /\ \A d \in Client \ {c} : pc'[d] = pc[d]
  BY DEF LocalsInv
<1> DEFINE phase == [d \in Client |-> Phase(d)]
           answer == [d \in Client |-> IF pc[d] = "done" THEN outcome[d] ELSE NoOutcome]
<1>3. phase[c] = "pending"
  BY DEF Phase
<1>4. phase' = [phase EXCEPT ![c] = "done"]
  BY <1>2 DEF Phase
<1>5. answer' = [answer EXCEPT ![c] = outcome'[c]]
  BY <1>2
<1> QED BY <1>1, <1>3, <1>4, <1>5 DEF Api!Respond

\* The promises to the other threads survive a step of c.
LEMMA OthersPromise ==
  ASSUME RInv, NEW c \in Client, Footprint(c), NEW d \in Client \ {c},
         outcome'[d] = outcome[d]
  PROVE  Promises(d)'
<1>1. PICK K \in SUBSET Cell : Frame(c, K) /\ OwnCells(c, K)
  BY DEF Footprint
<1>2. /\ supports_encode_flags' = supports_encode_flags /\ wrapper' = wrapper
      /\ pc'[d] = pc[d] /\ request'[d] = request[d] /\ view'[d] = view[d]
      /\ status'[d] = status[d]
  BY <1>1 DEF Frame
<1>3. Promises(d) /\ Thread(d)
  BY DEF RInv, IInv
<1>4. Api!Answers(d, request[d])' = Api!Answers(d, request[d])
  BY <1>2 DEF Api!Answers, Api!EncodeAnswers, Api!Refusals, Api!PromisedIds, Api!LeftRecognised, Api!Decoder
<1>5. Api!Refusals(request[d])' = Api!Refusals(request[d])
  BY <1>2 DEF Api!Refusals
<1>6. Api!PromisedIds(request[d])' = Api!PromisedIds(request[d])
  BY <1>2 DEF Api!PromisedIds, Api!LeftRecognised
<1>7. tokenizer_for_encode(request[d].flags)' = tokenizer_for_encode(request[d].flags)
  BY <1>2 DEF tokenizer_for_encode
<1>8. ASSUME pc[d] = "returned", status[d] = "Ok" PROVE HoldsPromise(d)'
  <2>1. request[d] \in EncodeRequest /\ HoldsPromise(d)
    BY <1>3, <1>8 DEF Thread, AtPC, Promises
  <2>2. ASSUME NEW i \in 1..Len(request[d].texts)
        PROVE  LET k == ResultCell(d, i) IN cell'[k] = cell[k] /\ heap'[cell[k]] = heap[cell[k]]
    <3> DEFINE k == ResultCell(d, i)
    <3>1. k \in CallCells(d) /\ k \in Cell
      BY <2>1, TextFacts, CellFacts
    <3>2. k \notin K
      BY <1>1, <3>1, CellFacts DEF OwnCells, ScratchOf
    <3>3. cell[k] # NULL
      BY <1>3, <1>8 DEF Thread, TellsWhatToFree
    <3> QED BY <1>1, <3>1, <3>2, <3>3 DEF Frame, Kept
  <2> QED BY <1>2, <1>6, <2>1, <2>2 DEF HoldsPromise, Ids, ResultCell
<1> QED BY <1>2, <1>3, <1>4, <1>5, <1>7, <1>8 DEF Promises, Throw

\* So a step has to be looked at for the thread that takes it only.
LEMMA StepOfOne ==
  ASSUME RInv, NEW c \in Client, Step(c) \/ \E r \in Request : Invoke(c, r),
         \A d \in Client \ {c} : outcome'[d] = outcome[d],
         Promises(c)'
  PROVE  RInv'
<1>1. IInv' /\ Footprint(c)
  BY ThreadSafe DEF RInv
<1>2. \A d \in Client : Promises(d)'
  BY <1>1, OthersPromise
<1>3. wrapper' = wrapper /\ supports_encode_flags' = supports_encode_flags
  BY <1>1 DEF Footprint, Frame
<1>4. Policies'
  BY <1>3 DEF RInv, Policies, FromJson, FromByteLevelBpe
<1> QED BY <1>1, <1>2, <1>4 DEF RInv

------------------------------------------------------------------------------
(* Each action maps to a step of TokenizerApi or to none                     *)

Maps == RInv' /\ (Api!Next \/ UNCHANGED Api!vars)

\* What is promised depends on the request and the factory alone.
LEMMA AnswersKept ==
  ASSUME NEW c \in Client, UNCHANGED <<loaded, request>>
  PROVE  /\ Api!Answers(c, request[c])' = Api!Answers(c, request[c])
         /\ Api!Refusals(request[c])' = Api!Refusals(request[c])
         /\ Api!PromisedIds(request[c])' = Api!PromisedIds(request[c])
         /\ tokenizer_for_encode(request[c].flags)' = tokenizer_for_encode(request[c].flags)
<1>1. supports_encode_flags' = supports_encode_flags /\ wrapper' = wrapper /\ request' = request
  BY DEF loaded
<1> QED
  BY <1>1 DEF Api!Answers, Api!EncodeAnswers, Api!Refusals, Api!PromisedIds,
              Api!LeftRecognised, Api!Decoder, tokenizer_for_encode

\* A step of c from one place in the middle of a call to another.
LEMMA OnTheWay ==
  ASSUME RInv, NEW c \in Client, Step(c),
         UNCHANGED <<loaded, open, request>>,
         NEW p, p \notin {"idle", "done"}, pc[c] \notin {"idle", "done"},
         pc' = [pc EXCEPT ![c] = p],
         \A d \in Client \ {c} : outcome'[d] = outcome[d],
         Promises(c)'
  PROVE  Maps
<1>1. pc'[c] = p /\ \A d \in Client \ {c} : pc'[d] = pc[d]
  BY DEF RInv, IInv, LocalsInv
<1>2. \A d \in Client : Phase(d)' = Phase(d) /\ (pc[d] = "done" => outcome'[d] = outcome[d])
  BY <1>1 DEF Phase
<1> QED BY <1>2, Stutters, StepOfOne DEF Maps

\* A step of c that ends its call with an answer that is promised.
LEMMA AtTheEnd ==
  ASSUME RInv, NEW c \in Client, Step(c),
         UNCHANGED <<loaded, open, request>>, pc[c] \notin {"idle", "done"},
         pc' = [pc EXCEPT ![c] = "done"],
         \A d \in Client \ {c} : outcome'[d] = outcome[d],
         outcome'[c] \in Api!Answers(c, request[c])
  PROVE  Maps
<1>1. LocalsInv /\ pc'[c] = "done"
  BY DEF RInv, IInv, LocalsInv
<1>2. Promises(c)'
  BY <1>1 DEF Promises
<1>3. Api!Respond(c)
  BY <1>1, Responds
<1> QED BY <1>2, <1>3, StepOfOne DEF Maps, Api!Next

LEMMA InvokeMaps ==
  ASSUME RInv, NEW c \in Client, NEW r \in Request, Invoke(c, r)
  PROVE  Maps
<1>1. /\ open /\ pc[c] = "idle" /\ (UsesScratch(r) => \A d \in Client : request[d].op # r.op)
      /\ request' = [request EXCEPT ![c] = r]
      /\ pc' = [pc EXCEPT ![c] = FirstStep(c, r)]
      /\ UNCHANGED <<loaded, open, memory, locals, outcome>>
  BY DEF Invoke
<1>2. FirstStep(c, r) \in {"validate", "enter", "decode", "lookup"}
  BY RequestFacts DEF FirstStep, Request
<1>3. LocalsInv
  BY DEF RInv, IInv
<1>4. /\ pc'[c] \in {"validate", "enter", "decode", "lookup"}
      /\ \A d \in Client \ {c} : pc'[d] = pc[d]
  BY <1>1, <1>2, <1>3 DEF LocalsInv
<1>5. Promises(c)'
  BY <1>4 DEF Promises
<1>6. RInv'
  BY <1>1, <1>5, StepOfOne
<1> DEFINE phase == [d \in Client |-> Phase(d)]
           answer == [d \in Client |-> IF pc[d] = "done" THEN outcome[d] ELSE NoOutcome]
<1>7. phase[c] = "idle" /\ phase' = [phase EXCEPT ![c] = "pending"]
  BY <1>1, <1>4 DEF Phase
<1>8. answer' = answer
  BY <1>1, <1>4
<1>9. supports_encode_flags' = supports_encode_flags /\ open' = open
  BY <1>1 DEF loaded
<1>10. r \in Api!Request /\ (Api!UsesScratch(r) <=> UsesScratch(r))
  BY DEF Api!Request, Request, Api!EncodeRequest, EncodeRequest, Api!DecodeRequest,
         DecodeRequest, Api!TokenRequest, TokenRequest, Api!UsesScratch, UsesScratch
<1>11. Api!Invoke(c, r)
  BY <1>1, <1>7, <1>8, <1>9, <1>10 DEF Api!Invoke, Api!MayStart
<1> QED BY <1>6, <1>10, <1>11 DEF Maps, Api!Next

\* What is refused before the call into Rust is promised to be refused.
LEMMA ValidateMaps ==
  ASSUME RInv, NEW c \in Client, Validate(c)
  PROVE  Maps
<1> DEFINE r == request[c]
           code == ValidateEncodeOptions(r.flags)
<1>1. /\ Step(c) /\ pc[c] = "validate" /\ UNCHANGED <<loaded, open, memory, request, locals>>
      /\ Policies /\ LocalsInv /\ r \in EncodeRequest
  BY DEF Validate, Step, RInv, IInv, Thread, AtPC
<1>2. CASE code # "Ok" /\ Finish(c, Throw(code))
  <2>1. code \in Api!Refusals(r)
    BY <1>1, <1>2, RefusalFacts DEF ValidateEncodeOptions
  <2>2. Throw(code) \in Api!Answers(c, r)
    BY <1>1, <2>1, EncodeAnswerFacts
  <2> HIDE DEF code
  <2> QED BY <1>1, <1>2, <2>2, AtTheEnd DEF Finish, LocalsInv
<1>3. CASE code = "Ok" /\ r.texts = << >> /\ Finish(c, Value(<< >>))
  <2>1. r.flags \subseteq KnownFlags /\ (supports_encode_flags \/ r.flags = {})
    BY <1>1, <1>3 DEF ValidateEncodeOptions, LocalsInv
  <2>2. Api!Refusals(r) = {}
    BY <1>1, <1>3, <2>1, RefusalFacts
  <2>3. Api!PromisedIds(r) = << >>
    BY <1>3 DEF Api!PromisedIds
  <2>4. Api!FitsInt32(<< >>)
    BY DEF Api!FitsInt32
  <2>5. Value(<< >>) \in Api!Answers(c, r)
    BY <1>1, <2>2, <2>3, <2>4, EncodeAnswerFacts
  <2> QED BY <1>1, <1>3, <2>5, AtTheEnd DEF Finish, LocalsInv
<1>4. CASE pc' = [pc EXCEPT ![c] = "enter"] /\ UNCHANGED outcome
  <2>1. Promises(c)'
    BY <1>1, <1>4 DEF Promises, LocalsInv
  <2> QED BY <1>1, <1>4, <2>1, OnTheWay
<1> QED BY <1>2, <1>3, <1>4 DEF Validate

\* A call that fails inside Rust with a code that is promised.
LEMMA FailWithMaps ==
  ASSUME RInv, NEW c \in Client, Step(c), pc[c] \in {"enter", "tokenize"},
         NEW code \in ErrorCode, FailWith(c, code), Throw(code) \in Api!Answers(c, request[c]),
         UNCHANGED <<loaded, open, request, view, data, outcome>>
  PROVE  Maps
<1>1. LocalsInv /\ pc' = [pc EXCEPT ![c] = "returned"] /\ status' = [status EXCEPT ![c] = code]
  BY DEF FailWith, RInv, IInv
<1>2. pc'[c] = "returned" /\ status'[c] = code /\ code # "Ok"
  BY <1>1 DEF LocalsInv, ErrorCode
<1>3. Throw(status[c])' \in Api!Answers(c, request[c])'
  BY <1>2, AnswersKept DEF Throw
<1>4. Promises(c)'
  BY <1>2, <1>3 DEF Promises
<1> QED BY <1>1, <1>4, OnTheWay

\* The texts and the flags are checked in another order than the headers list
\* them, but for reasons that they list.
LEMMA EnterMaps ==
  ASSUME RInv, NEW c \in Client, Enter(c)
  PROVE  Maps
<1> DEFINE r == request[c]
           malformed == \E i \in 1..Len(r.texts) : r.texts[i] = MalformedText
           choice == IF malformed THEN "InvalidArgument" ELSE tokenizer_for_encode(r.flags)
<1>1. /\ Step(c) /\ pc[c] = "enter" /\ UNCHANGED <<loaded, open, request, data, outcome>>
      /\ Policies /\ LocalsInv /\ r \in EncodeRequest
  BY DEF Enter, Step, RInv, IInv, Thread, AtPC
<1>2. CASE choice \in ErrorCode /\ FailWith(c, choice) /\ UNCHANGED view
  <2>1. CASE malformed
    BY <1>1, <1>2, <2>1, RefusalFacts, EncodeAnswerFacts, FailWithMaps
  <2>2. CASE ~malformed
    <3>1. choice = tokenizer_for_encode(r.flags)
      BY <2>2
    <3>2. CASE ~(r.flags \subseteq KnownFlags)
      <4>1. choice = "InvalidArgument"
        BY <3>1, <3>2 DEF tokenizer_for_encode
      <4> QED BY <1>1, <1>2, <3>2, <4>1, RefusalFacts, EncodeAnswerFacts, FailWithMaps
    <3>3. CASE r.flags \subseteq KnownFlags
      <4>1. choice = "Unsupported" /\ r.flags # {} /\ wrapper.ignore_added_tokens = None
        BY <1>2, <3>1, <3>3 DEF tokenizer_for_encode, ErrorCode
      <4>2. ~supports_encode_flags
        <5>1. [JsonView EXCEPT !.added_vocabulary = {}] \in View
          BY DEF JsonView, View
        <5>2. FromJson => wrapper.ignore_added_tokens = [JsonView EXCEPT !.added_vocabulary = {}]
          BY DEF FromJson
        <5> QED BY <1>1, <4>1, <5>1, <5>2, OptionAssumption DEF Policies, FromByteLevelBpe
      <4>3. Throw(choice) \in Api!Answers(c, r)
        BY <1>1, <3>3, <4>1, <4>2, RefusalFacts, EncodeAnswerFacts
      <4> QED BY <1>1, <1>2, <4>3, FailWithMaps
    <3> QED BY <3>2, <3>3
  <2> QED BY <2>1, <2>2
<1>3. CASE choice \in ViewName /\ view' = [view EXCEPT ![c] = choice]
           /\ pc' = [pc EXCEPT ![c] = "tokenize"]
  <2>1. choice = tokenizer_for_encode(r.flags)
    BY <1>3 DEF ViewName
  <2> HIDE DEF choice
  <2>2. pc'[c] = "tokenize" /\ view'[c] = tokenizer_for_encode(r.flags)
    BY <1>1, <1>3, <2>1 DEF LocalsInv
  <2>3. Promises(c)'
    BY <1>1, <2>2, AnswersKept DEF Promises
  <2> QED BY <1>1, <1>3, <2>3, OnTheWay
<1> QED BY <1>2, <1>3 DEF Enter

\* A call that got as far as the library is one that is not refused.
LEMMA NotRefused ==
  ASSUME RInv, NEW c \in Client, pc[c] = "tokenize"
  PROVE  /\ request[c] \in EncodeRequest /\ view[c] \in ViewName
         /\ tokenizer_for_encode(request[c].flags) = view[c]
         /\ Api!Refusals(request[c]) = {}
<1>1. /\ request[c] \in EncodeRequest /\ view[c] \in ViewName /\ Policies
      /\ supports_encode_flags \in BOOLEAN
      /\ \A i \in 1..Len(request[c].texts) : request[c].texts[i] # MalformedText
      /\ tokenizer_for_encode(request[c].flags) = view[c]
  BY DEF RInv, IInv, LocalsInv, WrapperInv, Thread, AtPC, Promises
<1>2. /\ request[c].flags \subseteq KnownFlags
      /\ supports_encode_flags \/ request[c].flags = {}
  BY <1>1, ViewIsPolicy
<1> QED BY <1>1, <1>2, RefusalFacts

LEMMA TokenizeFailsMaps ==
  ASSUME RInv, NEW c \in Client, TokenizeFails(c)
  PROVE  Maps
<1>1. /\ Step(c) /\ pc[c] = "tokenize" /\ FailWith(c, "Internal")
      /\ UNCHANGED <<loaded, open, request, view, data, outcome>>
  BY DEF TokenizeFails, Step
<1>2. Throw("Internal") \in Api!Answers(c, request[c])
  BY <1>1, NotRefused, EncodeAnswerFacts
<1> QED BY <1>1, <1>2, FailWithMaps DEF ErrorCode

\* What a box handed out holds.
LEMMA HandOutContent ==
  ASSUME NEW c \in Client, NEW content, DOMAIN content \subseteq CallCells(c),
         HandOut(c, content), NEW k \in DOMAIN content
  PROVE  heap'[cell'[k]] = content[k]
<1> DEFINE D == DOMAIN content
<1>1. PICK at \in Injection(D, FreeAddr) :
        /\ heap' = [a \in Addr |-> IF \E l \in D : at[l] = a
                                   THEN content[CHOOSE l \in D : at[l] = a]
                                   ELSE heap[a]]
        /\ cell' = [l \in Cell |-> IF l \in D THEN at[l]
                                   ELSE IF l \in CallCells(c) THEN NULL ELSE cell[l]]
  BY DEF HandOut
<1>2. at \in [D -> FreeAddr] /\ \A l, m \in D : at[l] = at[m] => l = m
  BY DEF Injection, IsInjective
<1>3. k \in Cell /\ cell'[k] = at[k] /\ at[k] \in Addr
  BY <1>1, <1>2, CellFacts DEF FreeAddr
<1>4. (CHOOSE l \in D : at[l] = at[k]) = k
  BY <1>2
<1> QED BY <1>1, <1>3, <1>4

\* The buffers of a batch hold what is promised for its texts.
LEMMA TokenizeMaps ==
  ASSUME RInv, NEW c \in Client, Tokenize(c)
  PROVE  Maps
<1> DEFINE r == request[c]
           cells == {ResultCell(c, i) : i \in 1..Len(r.texts)}
           content == [k \in cells |->
                         Ids(EncodeText(wrapper[view[c]], r.texts[k[2]], r.add_special_tokens))]
<1>1. /\ Step(c) /\ pc[c] = "tokenize" /\ HandOut(c, content)
      /\ status' = [status EXCEPT ![c] = "Ok"]
      /\ pc' = [pc EXCEPT ![c] = "returned"]
      /\ UNCHANGED <<loaded, open, request, view, data, outcome>>
      /\ Policies /\ LocalsInv
  BY DEF Tokenize, Step, RInv, IInv
<1>2. /\ r \in EncodeRequest /\ view[c] \in ViewName
      /\ tokenizer_for_encode(r.flags) = view[c] /\ Api!Refusals(r) = {}
  BY <1>1, NotRefused
<1>3. cells \subseteq CallCells(c)
  BY <1>2, TextFacts, CellFacts
<1>4. ASSUME NEW i \in 1..Len(r.texts)
      PROVE  heap'[cell'[ResultCell(c, i)]] = Ids(Api!PromisedIds(r)[i])
  <2>1. ResultCell(c, i) \in cells /\ ResultCell(c, i)[2] = i
    BY DEF ResultCell
  <2>2. content[ResultCell(c, i)] = Ids(EncodeText(wrapper[view[c]], r.texts[i], r.add_special_tokens))
    BY <2>1
  <2>3. ResultCell(c, i) \in DOMAIN content /\ DOMAIN content = cells
    BY <2>1
  <2> HIDE DEF content
  <2>4. heap'[cell'[ResultCell(c, i)]] = content[ResultCell(c, i)]
    BY <1>1, <1>3, <2>3, HandOutContent
  <2> QED BY <1>1, <1>2, <2>2, <2>4, EncodeIsPromise
<1> HIDE DEF content
<1>5. pc'[c] = "returned" /\ status'[c] = "Ok"
  BY <1>1 DEF LocalsInv
<1>6. /\ Api!Refusals(r)' = Api!Refusals(r) /\ Api!PromisedIds(r)' = Api!PromisedIds(r)
      /\ request' = request
  BY <1>1, AnswersKept
<1>7. HoldsPromise(c)'
  BY <1>4, <1>6 DEF HoldsPromise, Ids, ResultCell
<1>8. Promises(c)'
  BY <1>2, <1>5, <1>6, <1>7 DEF Promises
<1> QED BY <1>1, <1>8, OnTheWay

\* CheckStatus and ConvertResult pass on what is promised, or refuse ids that are
\* too wide.
LEMMA ReadResultMaps ==
  ASSUME RInv, NEW c \in Client, ReadResult(c)
  PROVE  Maps
<1> DEFINE r == request[c]
           wide == \E i \in 1..Len(r.texts) : TooWide(c, Results(c)[i])
           answer == IF status[c] # "Ok" THEN Throw(status[c])
                     ELSE IF wide THEN Throw("Internal") ELSE Value(Results(c))
<1>1. /\ Step(c) /\ pc[c] = "returned"
      /\ outcome' = [outcome EXCEPT ![c] = answer]
      /\ pc' = [pc EXCEPT ![c] = "release"]
      /\ UNCHANGED <<loaded, open, memory, request, locals>>
      /\ LocalsInv /\ MemoryInv /\ r \in EncodeRequest /\ Promises(c) /\ TellsWhatToFree(c)
  BY DEF ReadResult, Step, RInv, IInv, Thread, AtPC
<1>2. answer \in Api!Answers(c, r)
  <2>1. CASE status[c] # "Ok"
    BY <1>1, <2>1 DEF Promises
  <2>2. CASE status[c] = "Ok"
    <3>1. Api!Refusals(r) = {} /\ HoldsPromise(c)
      BY <1>1, <2>2 DEF Promises
    <3>2. ASSUME NEW i \in 1..Len(r.texts)
          PROVE  IdsAt(cell[ResultCell(c, i)]) = Api!PromisedIds(r)[i]
      <4>1. cell[ResultCell(c, i)] # NULL
        BY <1>1, <2>2 DEF TellsWhatToFree
      <4>2. heap[cell[ResultCell(c, i)]] = Ids(Api!PromisedIds(r)[i])
        BY <3>1 DEF HoldsPromise
      <4>3. \A ids : Ids(ids)[2] = ids
        BY DEF Ids
      <4> QED BY <4>1, <4>2, <4>3 DEF IdsAt
    <3>3. Results(c) = Api!PromisedIds(r)
      BY <3>2 DEF Results, Api!PromisedIds
    <3>4. Len(r.texts) \in Nat /\ Len(Api!PromisedIds(r)) = Len(r.texts)
      <4>1. Len(r.texts) \in Nat
        BY <1>1, TextFacts
      <4> QED BY <4>1 DEF Api!PromisedIds
    <3>5. CASE wide
      BY <1>1, <2>2, <3>1, <3>5, EncodeAnswerFacts
    <3>6. CASE ~wide
      <4>1. c \in CppClient => Api!FitsInt32(Api!PromisedIds(r))
        BY <3>3, <3>4, <3>6 DEF Api!FitsInt32, TooWide
      <4> HIDE DEF wide
      <4> QED BY <1>1, <2>2, <3>1, <3>3, <3>6, <4>1, EncodeAnswerFacts
    <3> QED BY <3>5, <3>6
  <2> QED BY <2>1, <2>2
<1> HIDE DEF answer
<1>3. pc'[c] = "release" /\ outcome'[c] = answer /\ \A d \in Client \ {c} : outcome'[d] = outcome[d]
  BY <1>1 DEF LocalsInv
<1>4. Promises(c)'
  BY <1>1, <1>2, <1>3, AnswersKept DEF Promises
<1> QED BY <1>1, <1>3, <1>4, OnTheWay

LEMMA ReleaseMaps ==
  ASSUME RInv, NEW c \in Client, Release(c)
  PROVE  Maps
<1>1. /\ Step(c) /\ pc[c] \in {"release", "done"} /\ pc' = [pc EXCEPT ![c] = "done"]
      /\ UNCHANGED <<loaded, open, request, data, outcome>>
      /\ LocalsInv /\ Promises(c)
  BY DEF Release, Step, RInv, IInv
<1>2. CASE pc[c] = "release"
  BY <1>1, <1>2, AtTheEnd DEF Promises
<1>3. CASE pc[c] = "done"
  <2>1. pc' = pc
    BY <1>1, <1>3 DEF LocalsInv
  <2>2. Promises(c)'
    BY <1>3, <2>1 DEF Promises
  <2>3. \A d \in Client : Phase(d)' = Phase(d) /\ outcome'[d] = outcome[d]
    BY <1>1, <2>1 DEF Phase
  <2> QED BY <1>1, <2>2, <2>3, Stutters, StepOfOne DEF Maps
<1> QED BY <1>1, <1>2, <1>3

\* The calls that go through a scratch string, up to the copy.
LEMMA StringStepMaps ==
  ASSUME RInv, NEW c \in Client, Decode(c) \/ GetDecodeStr(c) \/ LookupToken(c)
  PROVE  Maps
<1>1. Step(c) /\ LocalsInv /\ UNCHANGED <<loaded, open, request, outcome>>
  BY DEF Decode, GetDecodeStr, LookupToken, Step, RInv, IInv
<1>2. /\ pc[c] \in {"decode", "get_decode_str", "lookup"}
      /\ \E p \in {"get_decode_str", "copy"} : pc' = [pc EXCEPT ![c] = p]
  BY DEF Decode, GetDecodeStr, LookupToken
<1>3. Promises(c)'
  BY <1>1, <1>2 DEF LocalsInv, Promises
<1> QED BY <1>1, <1>2, <1>3, OnTheWay

LEMMA CopyStringMaps ==
  ASSUME RInv, NEW c \in Client, CopyString(c)
  PROVE  Maps
<1>1. /\ Step(c) /\ pc[c] = "copy" /\ Finish(c, Value(heap[data[c]][2]))
      /\ UNCHANGED <<loaded, open, memory, request, view, status>>
      /\ LocalsInv /\ Policies /\ HoldsAnswer(c) /\ request[c] \in DecodeRequest \cup TokenRequest
  BY DEF CopyString, Step, RInv, IInv, Thread, AtPC
<1>2. PICK string \in StringAnswers(request[c]) : heap[data[c]] = Str(string)
  BY <1>1 DEF HoldsAnswer
<1>3. Value(heap[data[c]][2]) \in Api!Answers(c, request[c])
  BY <1>1, <1>2, StringAnswerFacts DEF Str
<1>4. /\ pc' = [pc EXCEPT ![c] = "done"]
      /\ outcome'[c] = Value(heap[data[c]][2]) /\ \A d \in Client \ {c} : outcome'[d] = outcome[d]
  BY <1>1 DEF Finish, LocalsInv
<1> QED BY <1>1, <1>3, <1>4, AtTheEnd

LEMMA OutOfMemoryMaps ==
  ASSUME RInv, NEW c \in Client, OutOfMemory(c)
  PROVE  Maps
<1>1. /\ Step(c) /\ c \in CppClient /\ pc[c] \in {"validate", "enter", "returned", "copy"}
      /\ pc' = [pc EXCEPT ![c] = IF pc[c] = "returned" THEN "release" ELSE "done"]
      /\ outcome' = [outcome EXCEPT ![c] = Throw("bad_alloc")]
      /\ UNCHANGED <<loaded, open, memory, request, view, status>>
      /\ LocalsInv /\ Policies
  BY DEF OutOfMemory, Step, RInv, IInv
<1>2. request[c] \in EncodeRequest \cup DecodeRequest \cup TokenRequest
  BY <1>1 DEF RInv, IInv, Thread, AtPC
<1>3. Throw("bad_alloc") \in Api!Answers(c, request[c])
  BY <1>1, <1>2, EncodeAnswerFacts, StringAnswerFacts
<1>4. outcome'[c] = Throw("bad_alloc") /\ \A d \in Client \ {c} : outcome'[d] = outcome[d]
  BY <1>1 DEF LocalsInv
<1>5. CASE pc[c] = "returned"
  <2>1. pc' = [pc EXCEPT ![c] = "release"] /\ pc'[c] = "release"
    BY <1>1, <1>5 DEF LocalsInv
  <2>2. Promises(c)'
    BY <1>1, <1>3, <1>4, <2>1, AnswersKept DEF Promises
  <2> QED BY <1>1, <1>4, <1>5, <2>1, <2>2, OnTheWay
<1>6. CASE pc[c] # "returned"
  BY <1>1, <1>3, <1>4, <1>6, AtTheEnd
<1> QED BY <1>5, <1>6

LEMMA ReturnMaps ==
  ASSUME RInv, NEW c \in Client, Return(c)
  PROVE  Maps
<1>1. /\ Step(c) /\ pc[c] = "done" /\ pc' = [pc EXCEPT ![c] = "idle"]
      /\ request' = [request EXCEPT ![c] = NoRequest]
      /\ outcome' = [outcome EXCEPT ![c] = NoOutcome]
      /\ UNCHANGED <<loaded, open, memory, locals>> /\ LocalsInv
  BY DEF Return, Step, RInv, IInv
<1>2. pc'[c] = "idle" /\ \A d \in Client \ {c} : pc'[d] = pc[d] /\ outcome'[d] = outcome[d]
  BY <1>1 DEF LocalsInv
<1>3. RInv'
  <2>1. Promises(c)'
    BY <1>2 DEF Promises
  <2> QED BY <1>1, <1>2, <2>1, StepOfOne
<1> DEFINE phase == [d \in Client |-> Phase(d)]
           answer == [d \in Client |-> IF pc[d] = "done" THEN outcome[d] ELSE NoOutcome]
<1>4. phase[c] = "done" /\ phase' = [phase EXCEPT ![c] = "idle"]
  BY <1>1, <1>2 DEF Phase
<1>5. answer' = [answer EXCEPT ![c] = NoOutcome]
  BY <1>2
<1>6. supports_encode_flags' = supports_encode_flags /\ open' = open
  BY <1>1 DEF loaded
<1>7. Api!Return(c)
  BY <1>1, <1>4, <1>5, <1>6 DEF Api!Return, Api!NoRequest, NoRequest, Api!NoOutcome, NoOutcome
<1> QED BY <1>3, <1>7 DEF Maps, Api!Next

LEMMA CloseMaps ==
  ASSUME RInv, Close
  PROVE  Maps
<1>1. /\ open /\ open' = FALSE /\ \A c \in Client : pc[c] = "idle"
      /\ UNCHANGED <<loaded, pc, request, locals, outcome>>
  BY DEF Close
<1>2. supports_encode_flags' = supports_encode_flags /\ wrapper' = wrapper
  BY <1>1 DEF loaded
<1>3. IInv'
  BY CloseSafe DEF RInv
<1>4. \A c \in Client : Promises(c)'
  BY <1>1 DEF Promises
<1>5. Policies'
  BY <1>2 DEF RInv, Policies, FromJson, FromByteLevelBpe
<1>6. Api!Close
  BY <1>1, <1>2 DEF Api!Close, Phase
<1> QED BY <1>3, <1>4, <1>5, <1>6 DEF Maps, RInv, Api!Next

------------------------------------------------------------------------------
(* The theorem                                                               *)

LEMMA InitMaps == Init => RInv /\ Api!Init
<1> SUFFICES ASSUME Init PROVE RInv /\ Api!Init
  OBVIOUS
<1>1. IInv
  BY InitSafe
<1>2. Policies /\ \A c \in Client : Promises(c)
  BY DEF Init, Policies, Promises
<1>3. Api!Init
  BY DEF Init, Api!Init, Phase, FromJson, FromByteLevelBpe, Api!NoRequest, NoRequest,
         Api!NoOutcome, NoOutcome
<1> QED BY <1>1, <1>2, <1>3 DEF RInv

LEMMA StepMaps == RInv /\ [Next]_vars => RInv' /\ [Api!Next]_(Api!vars)
<1> SUFFICES ASSUME RInv, [Next]_vars PROVE Maps
  BY DEF Maps
<1>1. ASSUME NEW c \in Client, NEW r \in Request, Invoke(c, r) PROVE Maps
  BY <1>1, InvokeMaps
<1>2. ASSUME NEW c \in Client, Step(c) PROVE Maps
  BY <1>2, ValidateMaps, EnterMaps, TokenizeMaps, TokenizeFailsMaps, ReadResultMaps, ReleaseMaps,
     StringStepMaps, CopyStringMaps, OutOfMemoryMaps, ReturnMaps DEF Step
<1>3. CASE Close
  BY <1>3, CloseMaps
<1>4. CASE UNCHANGED vars
  <2>1. /\ wrapper' = wrapper /\ supports_encode_flags' = supports_encode_flags
        /\ open' = open /\ heap' = heap /\ cell' = cell /\ pc' = pc /\ request' = request
        /\ view' = view /\ status' = status /\ outcome' = outcome
    BY <1>4 DEF vars
  <2>2. IInv' /\ Policies'
    BY <1>4, <2>1, StepSafe DEF RInv, Policies, FromJson, FromByteLevelBpe
  <2>3. UNCHANGED Api!vars
    BY <2>1, Stutters DEF Phase, loaded
  <2>4. ASSUME NEW c \in Client PROVE Promises(c)'
    <3>1. Promises(c)
      BY DEF RInv
    <3>2. HoldsPromise(c) => HoldsPromise(c)'
      BY <2>1, AnswersKept DEF HoldsPromise, loaded, Ids, ResultCell
    <3> QED BY <2>1, <3>1, <3>2, AnswersKept DEF Promises, loaded, Throw
  <2> QED BY <2>2, <2>3, <2>4 DEF Maps, RInv
<1> QED BY <1>1, <1>2, <1>3, <1>4 DEF Next

\* The threads that share a Hugging Face tokenizer get what the headers promise,
\* each from its own arguments: src/tokenizer.cc, src/huggingface_tokenizer.cc and
\* rust/src/lib.rs together implement TokenizerApi.
THEOREM Implements == Spec => ImplementsApi
<1>1. Spec => Api!Init /\ [][Api!Next]_(Api!vars)
  BY InitMaps, StepMaps, PTL DEF Spec
<1> QED BY <1>1 DEF ImplementsApi, Api!Spec
==============================================================================

----------------------------- MODULE HFTokenizer -----------------------------
(***************************************************************************)
(* One Hugging Face tokenizer shared by several threads: the C++ class of  *)
(* src/huggingface_tokenizer.cc, the checks of src/tokenizer.cc in front   *)
(* of it, and the C functions of rust/src/lib.rs behind it.                *)
(*                                                                         *)
(* A thread is in CppClient when it calls the C++ methods; the others call *)
(* the C functions themselves and free what they get.  A step of a thread  *)
(* ends where another thread could see, change or reuse what it left: a    *)
(* chosen view, a buffer handed out, a scratch string, a pointer into one. *)
(*                                                                         *)
(* Memory that crosses the ABI is explicit.  An address holds what was put *)
(* there or Free; a cell is a place that stores a pointer the code must    *)
(* free: the out_error and out_results of each call, and the two scratch   *)
(* strings of the TokenizerWrapper.  Rust aborts when it cannot allocate,  *)
(* so an allocation here waits for free addresses.                         *)
(***************************************************************************)
EXTENDS TokenizerData, Functions

CONSTANTS
  Client,      \* the threads that share the tokenizer
  CppClient,   \* those that use the C++ class
  Addr,        \* the addresses the Rust allocator hands out
  NULL,        \* the null pointer
  Wrapper,     \* the TokenizerWrapper, as an owner of memory
  None         \* Option::None, for a wrapper without variants

ASSUME OwnersAssumption ==
  /\ CppClient \subseteq Client
  /\ NULL \notin Addr
  /\ Wrapper \notin Client

ASSUME OptionAssumption == None \notin View

VARIABLES
  wrapper,                \* the three views of TokenizerWrapper, None if absent
  supports_encode_flags,  \* HFTokenizer::supports_encode_flags_
  open,                   \* FALSE once tokenizers_free ran
  heap,                   \* what each address holds
  cell,                   \* the pointer in each owning cell
  pc,                     \* where each thread is
  request,                \* the arguments of its call
  view,                   \* the view tokenizer_for_encode chose for it
  status,                 \* the TokenizerStatus its call returned
  data,                   \* the pointer it copies a string from
  outcome                 \* what its call returned or threw

loaded == <<wrapper, supports_encode_flags>>
memory == <<heap, cell>>
locals == <<view, status, data>>
vars == <<wrapper, supports_encode_flags, open, heap, cell, pc, request, view,
          status, data, outcome>>

------------------------------------------------------------------------------
(* Memory that crosses the ABI                                               *)

ErrorCell(c) == <<c, 0>>
ResultCell(c, i) == <<c, i>>
CallCells(c) == {c} \X (0..MaxBatch)
Scratch(name) == <<Wrapper, name>>
Cell == (Client \X (0..MaxBatch)) \cup ({Wrapper} \X {"decode_str", "id_to_token_result"})

\* What an address holds is tagged with what it was allocated for.
Free == <<"free", << >>>>
Message(code) == <<"message", code>>
Ids(ids) == <<"ids", ids>>
Str(string) == <<"string", string>>

FreeAddr == {a \in Addr : heap[a] = Free}

\* The out parameters are set to null; nothing they pointed to is freed.
NullOut(c) ==
  /\ cell' = [k \in Cell |-> IF k \in CallCells(c) THEN NULL ELSE cell[k]]
  /\ UNCHANGED heap

\* Box::into_raw of a new box for each cell in the domain of content, by a call
\* of c that nulled its out parameters first.
HandOut(c, content) ==
  \E at \in Injection(DOMAIN content, FreeAddr) :
    /\ heap' = [a \in Addr |->
                  IF \E k \in DOMAIN content : at[k] = a
                  THEN content[CHOOSE k \in DOMAIN content : at[k] = a]
                  ELSE heap[a]]
    /\ cell' = [k \in Cell |-> IF k \in DOMAIN content THEN at[k]
                               ELSE IF k \in CallCells(c) THEN NULL ELSE cell[k]]

\* Mutant: the pointers are not cleared, so a second free hits whoever has the
\* address by then.
FreeCellsKeepPointers(cells) ==
  /\ heap' = [a \in Addr |-> IF \E k \in cells : cell[k] = a THEN Free ELSE heap[a]]
  /\ UNCHANGED cell

\* drop(Box::from_raw(pointer)) and a null written over each non-null pointer.
FreeCells(cells) ==
  /\ heap' = [a \in Addr |-> IF \E k \in cells : cell[k] = a THEN Free ELSE heap[a]]
  /\ cell' = [k \in Cell |-> IF k \in cells THEN NULL ELSE cell[k]]

\* Assigning a String drops the one it replaces.
AssignString(k, string) ==
  \E new \in FreeAddr :
    /\ heap' = [a \in Addr |-> IF a = new THEN Str(string)
                               ELSE IF a = cell[k] THEN Free ELSE heap[a]]
    /\ cell' = [cell EXCEPT ![k] = new]

------------------------------------------------------------------------------
(* Loading: the two factories                                                *)

ViewName == {"tokenizer", "ignore_special_tokens", "ignore_added_tokens"}

JsonView == [added_vocabulary |-> AddedToken, encode_special_tokens |-> FALSE,
             post_processor |-> PostIds]

\* TokenizerWrapper::from_str: each policy gets a view of its own at load time.
FromJson ==
  /\ supports_encode_flags = TRUE
  /\ wrapper = [tokenizer             |-> JsonView,
                ignore_special_tokens |-> [JsonView EXCEPT !.encode_special_tokens = TRUE],
                ignore_added_tokens   |-> [JsonView EXCEPT !.added_vocabulary = {}]]

\* TokenizerWrapper::byte_level_bpe_from_str: added tokens are plain entries of
\* the model's vocabulary, and there are no variants.
FromByteLevelBpe ==
  /\ supports_encode_flags = FALSE
  /\ wrapper = [tokenizer             |-> [added_vocabulary |-> {},
                                           encode_special_tokens |-> FALSE,
                                           post_processor |-> << >>],
                ignore_special_tokens |-> None,
                ignore_added_tokens   |-> None]

Init ==
  /\ FromJson \/ FromByteLevelBpe
  /\ open = TRUE
  /\ heap = [a \in Addr |-> Free]
  /\ cell = [k \in Cell |-> NULL]
  /\ pc = [c \in Client |-> "idle"]
  /\ request = [c \in Client |-> NoRequest]
  /\ view = [c \in Client |-> "tokenizer"]
  /\ status = [c \in Client |-> "Ok"]
  /\ data = [c \in Client |-> NULL]
  /\ outcome = [c \in Client |-> NoOutcome]

------------------------------------------------------------------------------
(* Starting a call                                                           *)

FirstStep(c, r) ==
  CASE r.op = "encode"      -> IF c \in CppClient THEN "validate" ELSE "enter"
    [] r.op = "decode"      -> "decode"
    [] r.op = "id_to_token" -> "lookup"

\* Callers may overlap calls except two through one scratch string.
Invoke(c, r) ==
  /\ open
  /\ pc[c] = "idle"
  /\ UsesScratch(r) => \A d \in Client : request[d].op # r.op
  /\ request' = [request EXCEPT ![c] = r]
  /\ pc' = [pc EXCEPT ![c] = FirstStep(c, r)]
  /\ UNCHANGED <<loaded, open, memory, locals, outcome>>

Finish(c, answer) ==
  /\ pc' = [pc EXCEPT ![c] = "done"]
  /\ outcome' = [outcome EXCEPT ![c] = answer]

------------------------------------------------------------------------------
(* Encode and EncodeBatch                                                    *)

\* ValidateEncodeOptions: the code thrown, "Ok" if none.
ValidateEncodeOptions(flags) ==
  IF ~(flags \subseteq KnownFlags) THEN "InvalidArgument"
  ELSE IF flags # {} /\ ~supports_encode_flags THEN "Unsupported" ELSE "Ok"

\* Tokenizer::Encode and EncodeBatch up to the call into Rust.  An empty batch
\* never gets there.
Validate(c) ==
  /\ pc[c] = "validate"
  /\ LET code == ValidateEncodeOptions(request[c].flags) IN
       \/ /\ code # "Ok"
          /\ Finish(c, Throw(code))
       \/ /\ code = "Ok"
          /\ request[c].texts = << >>
          /\ Finish(c, Value(<< >>))
       \/ /\ code = "Ok"
          /\ request[c].texts # << >>
          /\ pc' = [pc EXCEPT ![c] = "enter"]
          /\ UNCHANGED outcome
  /\ UNCHANGED <<loaded, open, memory, request, locals>>

\* TokenizerWrapper::tokenizer_for_encode: the view, or the error's status.
tokenizer_for_encode(flags) ==
  IF ~(flags \subseteq KnownFlags) THEN "InvalidArgument"
  ELSE IF flags = {} THEN "tokenizer"
  ELSE IF wrapper.ignore_added_tokens = None THEN "Unsupported"
  ELSE IF "ignore_added_tokens" \in flags THEN "ignore_added_tokens"
  ELSE "ignore_special_tokens"

\* ffi_call's error arms: the status is returned and the message handed out.
FailWith(c, code) ==
  /\ HandOut(c, [k \in {ErrorCell(c)} |-> Message(code)])
  /\ status' = [status EXCEPT ![c] = code]
  /\ pc' = [pc EXCEPT ![c] = "returned"]

\* Mutant: one tokenizer whose policy each call sets before it encodes.
EnterSharedPolicy(c) ==
  /\ pc[c] = "enter"
  /\ \A i \in 1..Len(request[c].texts) : request[c].texts[i] # MalformedText
  /\ LET flags == request[c].flags IN
       /\ tokenizer_for_encode(flags) \in ViewName
       /\ wrapper' = [wrapper EXCEPT !.tokenizer =
            [@ EXCEPT !.encode_special_tokens = flags # {},
                      !.added_vocabulary =
                        wrapper[IF "ignore_added_tokens" \in flags
                                THEN "ignore_added_tokens" ELSE "tokenizer"].added_vocabulary]]
  /\ pc' = [pc EXCEPT ![c] = "tokenize"]
  /\ NullOut(c)
  /\ UNCHANGED <<supports_encode_flags, open, request, locals, outcome>>

\* tokenizers_encode(_batch) up to the choice of the view.  Texts are checked
\* before flags.
Enter(c) ==
  /\ pc[c] = "enter"
  /\ LET malformed == \E i \in 1..Len(request[c].texts) : request[c].texts[i] = MalformedText
         choice == IF malformed THEN "InvalidArgument"
                   ELSE tokenizer_for_encode(request[c].flags)
     IN \/ /\ choice \in ErrorCode
           /\ FailWith(c, choice)
           /\ UNCHANGED view
        \/ /\ choice \in ViewName
           /\ NullOut(c)
           /\ view' = [view EXCEPT ![c] = choice]
           /\ pc' = [pc EXCEPT ![c] = "tokenize"]
           /\ UNCHANGED status
  /\ UNCHANGED <<loaded, open, request, data, outcome>>

\* Every box of the batch exists before the first pointer is written out.
Tokenize(c) ==
  /\ pc[c] = "tokenize"
  /\ LET r == request[c] IN
       HandOut(c, [k \in {ResultCell(c, i) : i \in 1..Len(r.texts)} |->
                     Ids(EncodeText(wrapper[view[c]], r.texts[k[2]], r.add_special_tokens))])
  /\ status' = [status EXCEPT ![c] = "Ok"]
  /\ pc' = [pc EXCEPT ![c] = "returned"]
  /\ UNCHANGED <<loaded, open, request, view, data, outcome>>

\* Mutant: a panic is not caught and comes back as no known status.
TokenizeFailsUncaught(c) ==
  /\ pc[c] = "tokenize"
  /\ NullOut(c)
  /\ status' = [status EXCEPT ![c] = "Panicked"]
  /\ pc' = [pc EXCEPT ![c] = "returned"]
  /\ UNCHANGED <<loaded, open, request, view, data, outcome>>

\* Mutant: the buffers of the texts before the failing one were handed out.
TokenizeFailsHalfway(c) ==
  /\ pc[c] = "tokenize"
  /\ HandOut(c, [k \in {ErrorCell(c), ResultCell(c, 1)} |->
                   IF k = ErrorCell(c) THEN Message("Internal") ELSE Ids(<< >>)])
  /\ status' = [status EXCEPT ![c] = "Internal"]
  /\ pc' = [pc EXCEPT ![c] = "returned"]
  /\ UNCHANGED <<loaded, open, request, view, data, outcome>>

\* The library returned an error or panicked.
TokenizeFails(c) ==
  /\ pc[c] = "tokenize"
  /\ FailWith(c, "Internal")
  /\ UNCHANGED <<loaded, open, request, view, data, outcome>>

\* Mutant: static_cast<int32_t> without the check before it.
TooWideUnchecked(c, ids) == FALSE

\* ConvertResult's check of the ids of a C++ call.
TooWide(c, ids) == c \in CppClient /\ \E j \in 1..Len(ids) : ids[j] \in WideId

\* What is read through the pointers the call returned.
IdsAt(a) == IF a = NULL THEN << >> ELSE heap[a][2]
Results(c) == [i \in 1..Len(request[c].texts) |-> IdsAt(cell[ResultCell(c, i)])]

\* Mutant: nothing owns the buffers and the message while an exception leaves.
ReadResultUnowned(c) ==
  /\ pc[c] = "returned"
  /\ IF status[c] = "Ok" /\ ~(\E i \in 1..Len(request[c].texts) : TooWide(c, Results(c)[i]))
     THEN /\ outcome' = [outcome EXCEPT ![c] = Value(Results(c))]
          /\ pc' = [pc EXCEPT ![c] = "release"]
     ELSE Finish(c, Throw(IF status[c] = "Ok" THEN "Internal" ELSE status[c]))
  /\ UNCHANGED <<loaded, open, memory, request, locals>>

\* CheckStatus and ConvertResult, or what a C caller does instead.
ReadResult(c) ==
  /\ pc[c] = "returned"
  /\ outcome' = [outcome EXCEPT ![c] =
       IF status[c] # "Ok" THEN Throw(status[c])
       ELSE IF \E i \in 1..Len(request[c].texts) : TooWide(c, Results(c)[i])
            THEN Throw("Internal")
            ELSE Value(Results(c))]
  /\ pc' = [pc EXCEPT ![c] = "release"]
  /\ UNCHANGED <<loaded, open, memory, request, locals>>

\* ~EncodeResults and ~ErrorMessage, on every way out of the C++ methods; a C
\* caller calls the two free functions, and may do so again on the same structs.
Release(c) ==
  /\ pc[c] = "release" \/ (pc[c] = "done" /\ c \notin CppClient)
  /\ FreeCells(CallCells(c))
  /\ pc' = [pc EXCEPT ![c] = "done"]
  /\ view' = [view EXCEPT ![c] = "tokenizer"]
  /\ status' = [status EXCEPT ![c] = "Ok"]
  /\ UNCHANGED <<loaded, open, request, data, outcome>>

------------------------------------------------------------------------------
(* Decode and IdToToken                                                      *)

\* tokenizers_decode: unwrap_or_default() makes the string empty on an error.
Decode(c) ==
  /\ pc[c] = "decode"
  /\ LET ids == DecodeIds(wrapper.tokenizer, request[c].ids, request[c].skip_special_tokens)
     IN \E string \in {ids, << >>} : AssignString(Scratch("decode_str"), string)
  /\ pc' = [pc EXCEPT ![c] = "get_decode_str"]
  /\ UNCHANGED <<loaded, open, request, locals, outcome>>

\* tokenizers_get_decode_str
GetDecodeStr(c) ==
  /\ pc[c] = "get_decode_str"
  /\ data' = [data EXCEPT ![c] = cell[Scratch("decode_str")]]
  /\ pc' = [pc EXCEPT ![c] = "copy"]
  /\ UNCHANGED <<loaded, open, memory, request, view, status, outcome>>

\* Mutant: one scratch string serves both calls.
LookupTokenOneScratch(c) ==
  /\ pc[c] = "lookup"
  /\ AssignString(Scratch("decode_str"), TokenString(wrapper.tokenizer, request[c].id))
  /\ data' = [data EXCEPT ![c] = cell'[Scratch("decode_str")]]
  /\ pc' = [pc EXCEPT ![c] = "copy"]
  /\ UNCHANGED <<loaded, open, request, view, status, outcome>>

\* tokenizers_id_to_token
LookupToken(c) ==
  /\ pc[c] = "lookup"
  /\ AssignString(Scratch("id_to_token_result"), TokenString(wrapper.tokenizer, request[c].id))
  /\ data' = [data EXCEPT ![c] = cell'[Scratch("id_to_token_result")]]
  /\ pc' = [pc EXCEPT ![c] = "copy"]
  /\ UNCHANGED <<loaded, open, request, view, status, outcome>>

\* return std::string(data, len)
CopyString(c) ==
  /\ pc[c] = "copy"
  /\ Finish(c, Value(heap[data[c]][2]))
  /\ data' = [data EXCEPT ![c] = NULL]
  /\ UNCHANGED <<loaded, open, memory, request, view, status>>

------------------------------------------------------------------------------
(* Failing C++ allocations, the end of a call, the end of the tokenizer      *)

\* A vector or a string of the C++ method cannot be allocated: for the error of
\* a validation, before the call into Rust, while results or the message are
\* copied, or while a string is.
OutOfMemory(c) ==
  /\ c \in CppClient
  /\ \/ pc[c] \in {"enter", "returned", "copy"}
     \/ pc[c] = "validate" /\ ValidateEncodeOptions(request[c].flags) # "Ok"
  /\ pc' = [pc EXCEPT ![c] = IF pc[c] = "returned" THEN "release" ELSE "done"]
  /\ outcome' = [outcome EXCEPT ![c] = Throw("bad_alloc")]
  /\ data' = [data EXCEPT ![c] = NULL]
  /\ UNCHANGED <<loaded, open, memory, request, view, status>>

Return(c) ==
  /\ pc[c] = "done"
  /\ pc' = [pc EXCEPT ![c] = "idle"]
  /\ request' = [request EXCEPT ![c] = NoRequest]
  /\ outcome' = [outcome EXCEPT ![c] = NoOutcome]
  /\ UNCHANGED <<loaded, open, memory, locals>>

\* ~HFTokenizer, tokenizers_free: the scratch strings go with the wrapper.
Close ==
  /\ open
  /\ \A c \in Client : pc[c] = "idle"
  /\ open' = FALSE
  /\ FreeCells({Scratch("decode_str"), Scratch("id_to_token_result")})
  /\ UNCHANGED <<loaded, pc, request, locals, outcome>>

------------------------------------------------------------------------------
Step(c) ==
  \/ Validate(c) \/ Enter(c) \/ Tokenize(c) \/ TokenizeFails(c) \/ ReadResult(c)
  \/ Release(c) \/ Decode(c) \/ GetDecodeStr(c) \/ LookupToken(c) \/ CopyString(c)
  \/ OutOfMemory(c) \/ Return(c)

Next ==
  \/ \E c \in Client : (\E r \in Request : Invoke(c, r)) \/ Step(c)
  \/ Close

Spec == Init /\ [][Next]_vars

\* A thread inside a call keeps running: no step of the code waits for another
\* thread.  When callers start calls is up to them.
Fairness == \A c \in Client : WF_vars(Step(c))
FairSpec == Spec /\ Fairness

------------------------------------------------------------------------------
(* Properties                                                                *)

Content == {Message(code) : code \in ErrorCode} \cup ({"ids"} \X Seq(Id))
           \cup ({"string"} \X String)
Status == {"Ok", "InvalidArgument", "Unsupported", "Internal"}
PC == {"idle", "validate", "enter", "tokenize", "returned", "release",
       "decode", "get_decode_str", "lookup", "copy", "done"}

\* Every variable holds a value of its type.
TypeOK ==
  /\ wrapper \in [ViewName -> View \cup {None}]
  /\ supports_encode_flags \in BOOLEAN
  /\ open \in BOOLEAN
  /\ heap \in [Addr -> Content \cup {Free}]
  /\ cell \in [Cell -> Addr \cup {NULL}]
  /\ pc \in [Client -> PC]
  /\ request \in [Client -> Request \cup {NoRequest}]
  /\ view \in [Client -> ViewName]
  /\ status \in [Client -> Status]
  /\ data \in [Client -> Addr \cup {NULL}]
  /\ outcome \in [Client -> Outcome]

\* Every allocation that crossed the ABI has exactly one cell that will free
\* it, and no cell points to freed memory: no leak, no double free and no use
\* after free on any way out of a call, failed ones included.
NotLeaked == \A a \in Addr : heap[a] # Free => \E k \in Cell : cell[k] = a
NotDangling == \A k \in Cell : cell[k] # NULL => heap[cell[k]] # Free
NotShared == \A k, l \in Cell : cell[k] # NULL /\ cell[k] = cell[l] => k = l
MemoryOwnedOnce == NotLeaked /\ NotDangling /\ NotShared

\* The C contract of rust/src/lib.rs: a call that returned Ok handed out one
\* buffer per text and no message, a call that failed a message and no buffer.
StatusTellsWhatToFree ==
  \A c \in Client : pc[c] = "returned" =>
    /\ (status[c] = "Ok") <=> (cell[ErrorCell(c)] = NULL)
    /\ \A i \in 1..Len(request[c].texts) :
         (status[c] = "Ok") <=> (cell[ResultCell(c, i)] # NULL)

\* From tokenizers_get_decode_str or tokenizers_id_to_token to the copy, the
\* pointer a caller got leads to an answer to its own request.  Exclusion per
\* scratch string is enough: encodes, and the other string, may be in use.
StringAnswers(r) ==
  IF r.op = "decode"
  THEN {DecodeIds(wrapper.tokenizer, r.ids, r.skip_special_tokens), << >>}
  ELSE {TokenString(wrapper.tokenizer, r.id)}
PointerStaysValid ==
  \A c \in Client : pc[c] = "copy" =>
    /\ data[c] # NULL
    /\ heap[data[c]] \in {Str(string) : string \in StringAnswers(request[c])}

\* A buffer or a message handed to a caller is neither moved, rewritten nor
\* freed by a step of anyone else, however often the others free theirs.
BuffersStayPut ==
  [][\A c \in Client : \A k \in CallCells(c) :
       cell[k] # NULL /\ UNCHANGED pc[c] =>
         cell'[k] = cell[k] /\ heap'[cell[k]] = heap[cell[k]]]_vars

\* The threads sharing one tokenizer get what the headers promise: each answer
\* depends on the caller's own arguments and flags, not on the other calls.
Phase(c) == IF pc[c] \in {"idle", "done"} THEN pc[c] ELSE "pending"
Api == INSTANCE TokenizerApi WITH
         json    <- supports_encode_flags,
         phase   <- [c \in Client |-> Phase(c)],
         outcome <- [c \in Client |-> IF pc[c] = "done" THEN outcome[c] ELSE NoOutcome]
ImplementsApi == Api!Spec

\* Every call that starts returns, refused and failing ones included.
EveryCallReturns == \A c \in Client : pc[c] # "idle" ~> pc[c] = "idle"
==============================================================================

----------------------------- MODULE TokenizerApi -----------------------------
(***************************************************************************)
(* What the headers promise to the callers of one Hugging Face tokenizer,  *)
(* with nothing of how the library keeps it: each call gets an answer that *)
(* depends on its own arguments only, whatever the other callers do.       *)
(*                                                                         *)
(* Callers in CppClient use the C++ class of include/tokenizers_cpp.h, the *)
(* others call the C functions of include/tokenizers_c.h themselves.       *)
(***************************************************************************)
EXTENDS TokenizerData

CONSTANTS
  Client,     \* the threads that share the tokenizer
  CppClient   \* those that use the C++ class

VARIABLES
  json,       \* whether the tokenizer came from tokenizer.json
  open,       \* whether the tokenizer still exists
  phase,      \* where the call of each client is
  request,    \* its last request
  outcome     \* the answer of a call that is done

vars == <<json, open, phase, request, outcome>>

------------------------------------------------------------------------------
\* The added tokens that EncodeFlags leave recognised.
LeftRecognised(flags) ==
  {p \in AddedToken : /\ json
                      /\ "ignore_added_tokens" \notin flags
                      /\ p \in SpecialToken => "ignore_special_tokens" \notin flags}

PromisedIds(r) ==
  [i \in 1..Len(r.texts) |->
     (IF json /\ r.add_special_tokens THEN PostIds ELSE << >>)
       \o [j \in 1..Len(r.texts[i]) |->
             IdOfPiece(LeftRecognised(r.flags), r.texts[i][j])]]

\* Why a request must be turned down.  Where two reasons meet, the header does
\* not say which one the caller hears of, except that undefined bits come first.
Refusals(r) ==
  {code \in {"InvalidArgument", "Unsupported"} :
     \/ /\ code = "InvalidArgument"
        /\ \/ ~(r.flags \subseteq KnownFlags)
           \/ \E i \in 1..Len(r.texts) : r.texts[i] = MalformedText
     \/ /\ code = "Unsupported"
        /\ ~json
        /\ r.flags # {}
        /\ r.flags \subseteq KnownFlags}

FitsInt32(answer) ==
  \A i \in 1..Len(answer) : \A j \in 1..Len(answer[i]) : answer[i][j] \notin WideId

EncodeAnswers(c, r) ==
  IF Refusals(r) # {}
  THEN {Throw(code) : code \in Refusals(r)}
  ELSE {Throw("Internal")}
       \cup {Value(a) : a \in {b \in {PromisedIds(r)} : c \in CppClient => FitsInt32(b)}}

\* Added tokens are known to the decoder of a JSON tokenizer only.
Decoder == [added_vocabulary |-> IF json THEN AddedToken ELSE {},
            encode_special_tokens |-> FALSE,
            post_processor |-> IF json THEN PostIds ELSE << >>]

\* std::bad_alloc reaches the callers of the C++ class from any of its methods.
Answers(c, r) ==
  {Throw("bad_alloc") : cpp \in CppClient \cap {c}} \cup
  CASE r.op = "encode"      -> EncodeAnswers(c, r)
    [] r.op = "decode"      -> {Value(DecodeIds(Decoder, r.ids, r.skip_special_tokens)),
                                Value(<< >>)}
    [] r.op = "id_to_token" -> {Value(TokenString(Decoder, r.id))}

------------------------------------------------------------------------------
Init ==
  /\ json \in BOOLEAN
  /\ open = TRUE
  /\ phase = [c \in Client |-> "idle"]
  /\ request = [c \in Client |-> NoRequest]
  /\ outcome = [c \in Client |-> NoOutcome]

\* Encode calls may overlap with anything.  Two calls that go through the same
\* scratch string may not: "Decode and token lookup retain mutable Rust-side
\* scratch strings and are not covered by that concurrency guarantee".
MayStart(c, r) ==
  /\ open
  /\ phase[c] = "idle"
  /\ UsesScratch(r) => \A d \in Client : request[d].op # r.op

Invoke(c, r) ==
  /\ MayStart(c, r)
  /\ phase' = [phase EXCEPT ![c] = "pending"]
  /\ request' = [request EXCEPT ![c] = r]
  /\ UNCHANGED <<json, open, outcome>>

Respond(c) ==
  /\ phase[c] = "pending"
  /\ phase' = [phase EXCEPT ![c] = "done"]
  /\ \E answer \in Answers(c, request[c]) : outcome' = [outcome EXCEPT ![c] = answer]
  /\ UNCHANGED <<json, open, request>>

Return(c) ==
  /\ phase[c] = "done"
  /\ phase' = [phase EXCEPT ![c] = "idle"]
  /\ request' = [request EXCEPT ![c] = NoRequest]
  /\ outcome' = [outcome EXCEPT ![c] = NoOutcome]
  /\ UNCHANGED <<json, open>>

\* The owner destroys the tokenizer once no call uses it.
Close ==
  /\ open
  /\ \A c \in Client : phase[c] = "idle"
  /\ open' = FALSE
  /\ UNCHANGED <<json, phase, request, outcome>>

Next ==
  \/ \E c \in Client : (\E r \in Request : Invoke(c, r)) \/ Respond(c) \/ Return(c)
  \/ Close

Spec == Init /\ [][Next]_vars
==============================================================================

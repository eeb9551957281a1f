------------------------------ MODULE FactoryApi ------------------------------
(***************************************************************************)
(* What a caller of the Hugging Face factories may rely on: a load gives a *)
(* tokenizer made of all of its input, added tokens over vocabulary, or an *)
(* error and no tokenizer, and no load touches a tokenizer that exists.    *)
(***************************************************************************)
EXTENDS FactoryData, SequencesExt

CONSTANTS
  Client,     \* the threads that load tokenizers, each one at a time
  CppClient,  \* those that use the C++ factories
  None        \* no tokenizer

VARIABLES
  phase,      \* where the call of each client is
  request,    \* its arguments
  outcome,    \* its answer once it is done
  tokenizer   \* the tokenizer that each client owns

vars == <<phase, request, outcome, tokenizer>>

------------------------------------------------------------------------------
Merged(vocab, added) ==
  [t \in DOMAIN vocab \cup DOMAIN added |->
     IF t \in DOMAIN added THEN added[t] ELSE vocab[t]]

Entries(blob) == IF blob.is = "object" THEN blob.entries ELSE [t \in {} |-> 0]

\* The merges among lines, in their order.
MergesOf(lines) ==
  FlattenSeq([i \in 1..Len(lines) |-> IF IsComment(lines[i]) THEN << >> ELSE <<lines[i]>>])

\* The tokenizer that a request describes.
Described(r) ==
  IF r.factory = "json" THEN [vocab |-> r.json.vocab, merges |-> << >>]
  ELSE [vocab  |-> Merged(Entries(r.bpe.vocab), Entries(r.bpe.added)),
        merges |-> MergesOf(r.bpe.merges.lines)]

AllIdsFit(entries) == \A t \in DOMAIN entries : entries[t] \in U32

\* Whether the arguments are at fault: a missing place for the handle, a blob
\* that cannot be read, an id that is none, a merge that is not of two parts.
Faulty(r) ==
  \/ "handle" \notin r.given
  \/ \E blob \in BlobsOf(r) : blob.is \in Unreadable \cup Malformed
  \/ /\ r.factory = "bpe"
     /\ \/ r.bpe.vocab.is = "empty"
        \/ ~AllIdsFit(Entries(r.bpe.vocab)) \/ ~AllIdsFit(Entries(r.bpe.added))
        \/ \E i \in 1..Len(r.bpe.merges.lines) :
             LET line == r.bpe.merges.lines[i] IN ~IsComment(line) /\ Len(line) # 2

\* The library panics on some JSON, and on merges that the vocabulary does not know.
Panics(r) ==
  IF r.factory = "json" THEN r.json.is = "panics"
  ELSE ~MergesKnown(Described(r).vocab, Described(r).merges)

\* The answers that a request may get: a panic becomes an internal error.
Answers(c, r) ==
  (IF Faulty(r) THEN {Throw("InvalidArgument")}
   ELSE IF Panics(r) THEN {Throw("Internal")}
   ELSE {Loaded})
  \cup {Throw("bad_alloc") : cpp \in CppClient \cap {c}}

------------------------------------------------------------------------------
Init ==
  /\ phase = [c \in Client |-> "idle"]
  /\ request = [c \in Client |-> NoRequest]
  /\ outcome = [c \in Client |-> NoOutcome]
  /\ tokenizer = [c \in Client |-> None]

Load(c, r) ==
  /\ phase[c] = "idle"
  /\ tokenizer[c] = None
  /\ c \in CppClient => IsCppRequest(r)
  /\ phase' = [phase EXCEPT ![c] = "pending"]
  /\ request' = [request EXCEPT ![c] = r]
  /\ UNCHANGED <<outcome, tokenizer>>

Respond(c) ==
  /\ phase[c] = "pending"
  /\ phase' = [phase EXCEPT ![c] = "done"]
  /\ \E answer \in Answers(c, request[c]) :
       /\ outcome' = [outcome EXCEPT ![c] = answer]
       /\ tokenizer' = [tokenizer EXCEPT ![c] =
                          IF answer = Loaded THEN Described(request[c]) ELSE None]
  /\ UNCHANGED request

Return(c) ==
  /\ phase[c] = "done"
  /\ phase' = [phase EXCEPT ![c] = "idle"]
  /\ request' = [request EXCEPT ![c] = NoRequest]
  /\ outcome' = [outcome EXCEPT ![c] = NoOutcome]
  /\ UNCHANGED tokenizer

Drop(c) ==
  /\ phase[c] = "idle"
  /\ tokenizer[c] # None
  /\ tokenizer' = [tokenizer EXCEPT ![c] = None]
  /\ UNCHANGED <<phase, request, outcome>>

Next == \E c \in Client : (\E r \in Request : Load(c, r)) \/ Respond(c) \/ Return(c) \/ Drop(c)

Spec == Init /\ [][Next]_vars
==============================================================================

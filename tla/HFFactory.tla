------------------------------- MODULE HFFactory -------------------------------
(***************************************************************************)
(* The Hugging Face factories: FromBlobJSON and FromBlobByteLevelBPE of    *)
(* src/huggingface_tokenizer.cc, the two C functions of rust/src/lib.rs    *)
(* that they call, and who owns the new tokenizer and the error message on *)
(* every way out.                                                          *)
(*                                                                         *)
(* A client is in CppClient when it calls the C++ factories; the others    *)
(* call the C functions and free what they get.  Rust aborts when it cannot *)
(* allocate, so an allocation here waits for a free address.               *)
(***************************************************************************)
EXTENDS FactoryData

CONSTANTS
  Client,     \* the threads that load tokenizers, each one at a time
  CppClient,  \* those that use the C++ factories
  Addr,       \* the addresses the Rust allocator hands out
  NULL,       \* the null pointer
  None        \* no tokenizer

ASSUME ClientAssumption == CppClient \subseteq Client /\ NULL \notin Addr

\* What a tokenizer is made of is never taken for None.
ASSUME NoneAssumption == None \notin [vocab: PartialMap(Token, U32), merges: Seq(Seq(Token))]

VARIABLES
  heap,     \* what each address holds
  cell,     \* the pointer in each place that the code frees from
  pc,       \* where each client is
  request,  \* the arguments of its call
  vocab,    \* the vocabulary its call has read so far
  todo,     \* the tokens of the JSON object that are not in it yet
  merges,   \* the merges its call has read so far
  lines,    \* the lines that it has not
  status,   \* the TokenizerStatus its call returned
  outcome   \* what its call returned or threw

memory == <<heap, cell>>
reading == <<vocab, todo, merges, lines>>
vars == <<heap, cell, pc, request, vocab, todo, merges, lines, status, outcome>>

------------------------------------------------------------------------------
(* Memory that crosses the ABI                                               *)

\* message is ErrorMessage::message_, handle the out parameter of the factory,
\* owner HandleOwner::handle_, tokenizer HFTokenizer::handle_.  The first three
\* are gone when the factory returns.
Local == {"message", "handle", "owner"}
Cell == Client \X (Local \cup {"tokenizer"})

Free == [is |-> "free"]
Message(code) == [is |-> "message", code |-> code]
Wrapper(v, v_r, m) == [is |-> "wrapper", vocab |-> v, vocab_r |-> v_r, merges |-> m]

Allocate(k, content) ==
  \E a \in Addr : /\ heap[a] = Free
                  /\ heap' = [heap EXCEPT ![a] = content]
                  /\ cell' = [cell EXCEPT ![k] = a]

\* The destructors of these cells run.
FreeCells(cells) ==
  /\ heap' = [a \in Addr |-> IF \E k \in cells : cell[k] = a THEN Free ELSE heap[a]]
  /\ cell' = [k \in Cell |-> IF k \in cells THEN NULL ELSE cell[k]]

Move(from, to) ==
  /\ cell' = [cell EXCEPT ![to] = cell[from], ![from] = NULL]
  /\ UNCHANGED heap

GoTo(c, step) == pc' = [pc EXCEPT ![c] = step]

------------------------------------------------------------------------------
Init ==
  /\ heap = [a \in Addr |-> Free]
  /\ cell = [k \in Cell |-> NULL]
  /\ pc = [c \in Client |-> "idle"]
  /\ request = [c \in Client |-> NoRequest]
  /\ vocab = [c \in Client |-> [t \in {} |-> 0]]
  /\ todo = [c \in Client |-> {}]
  /\ merges = [c \in Client |-> << >>]
  /\ lines = [c \in Client |-> << >>]
  /\ status = [c \in Client |-> "Ok"]
  /\ outcome = [c \in Client |-> NoOutcome]

Load(c, r) ==
  /\ pc[c] = "idle"
  /\ cell[<<c, "tokenizer">>] = NULL
  /\ c \in CppClient => IsCppRequest(r)
  /\ GoTo(c, "enter")
  /\ request' = [request EXCEPT ![c] = r]
  /\ UNCHANGED <<memory, reading, status, outcome>>

------------------------------------------------------------------------------
(* The C functions                                                           *)

Given(c, parameter) == parameter \in request[c].given

\* Mutant: a failure without a message.
FailSilently(c, code) ==
  /\ status' = [status EXCEPT ![c] = code]
  /\ GoTo(c, "returned")
  /\ UNCHANGED memory

\* The error arms of ffi_call.
Fail(c, code) ==
  /\ status' = [status EXCEPT ![c] = code]
  /\ GoTo(c, "returned")
  /\ IF Given(c, "error") THEN Allocate(<<c, "message">>, Message(code))
                          ELSE UNCHANGED memory

\* *out_handle = Box::into_raw(Box::new(wrapper))
HandOver(c) ==
  /\ \E vocab_r \in Inverses(vocab[c]) :
       Allocate(<<c, "handle">>, Wrapper(vocab[c], vocab_r, merges[c]))
  /\ status' = [status EXCEPT ![c] = "Ok"]
  /\ GoTo(c, "returned")

\* Both functions up to the first parsed blob.  A panic of the library is caught
\* and becomes an internal error.
Enter(c) ==
  /\ pc[c] = "enter"
  /\ LET r == request[c]
         first == IF r.factory = "json" THEN r.json ELSE r.bpe.vocab
         rejected == \/ ~Given(c, "handle")
                     \/ \E blob \in BlobsOf(r) : blob.is \in Unreadable
                     \/ first.is \notin {"tokenizer", "panics", "object"}
     IN \/ /\ rejected
           /\ Fail(c, "InvalidArgument")
           /\ UNCHANGED <<vocab, todo>>
        \/ /\ ~rejected
           /\ first.is = "panics"
           /\ Fail(c, "Internal")
           /\ UNCHANGED <<vocab, todo>>
        \/ /\ ~rejected
           /\ first.is = "tokenizer"
           /\ vocab' = [vocab EXCEPT ![c] = first.vocab]
           /\ GoTo(c, "build")
           /\ UNCHANGED <<memory, todo, status>>
        \/ /\ ~rejected
           /\ first.is = "object"
           /\ todo' = [todo EXCEPT ![c] = DOMAIN first.entries]
           /\ GoTo(c, "vocab")
           /\ UNCHANGED <<memory, vocab, status>>
  /\ UNCHANGED <<request, merges, lines, outcome>>

\* vocab.insert(token, id), or the error return of a round.
Insert(c, token, id) ==
  /\ vocab' = [vocab EXCEPT ![c] = Put(@, token, id)]
  /\ todo' = [todo EXCEPT ![c] = @ \ {token}]
  /\ UNCHANGED <<memory, pc, status>>
Refuse(c) == Fail(c, "InvalidArgument") /\ UNCHANGED <<vocab, todo>>

\* Mutant: the id is not checked against u32::MAX.
InsertEntryUnchecked(c, entries) ==
  \E token \in todo[c] : IF entries[token] # NotUnsigned
                        THEN Insert(c, token, entries[token]) ELSE Refuse(c)

\* Mutant: vocab.entry(token).or_insert(id), so an added token does not override.
InsertEntryOnce(c, entries) ==
  \E token \in todo[c] :
    IF entries[token] \in U32
    THEN Insert(c, token, IF token \in DOMAIN vocab[c] THEN vocab[c][token] ELSE entries[token])
    ELSE Refuse(c)

\* One round of a loop over entries, which may come in any order.
InsertEntry(c, entries) ==
  \E token \in todo[c] : IF entries[token] \in U32
                        THEN Insert(c, token, entries[token]) ELSE Refuse(c)

\* The vocabulary, and the blob of added tokens once the vocabulary is read.
ReadVocab(c) ==
  /\ pc[c] = "vocab"
  /\ LET added == request[c].bpe.added IN
       \/ /\ InsertEntry(c, request[c].bpe.vocab.entries)
          /\ UNCHANGED lines
       \/ /\ todo[c] = {}
          /\ added.is = "empty"
          /\ lines' = [lines EXCEPT ![c] = request[c].bpe.merges.lines]
          /\ GoTo(c, "merges")
          /\ UNCHANGED <<memory, vocab, todo, status>>
       \/ /\ todo[c] = {}
          /\ added.is \in Malformed
          /\ Fail(c, "InvalidArgument")
          /\ UNCHANGED <<vocab, todo, lines>>
       \/ /\ todo[c] = {}
          /\ added.is = "object"
          /\ todo' = [todo EXCEPT ![c] = DOMAIN added.entries]
          /\ GoTo(c, "added")
          /\ UNCHANGED <<memory, vocab, status, lines>>
  /\ UNCHANGED <<request, merges, outcome>>

ReadAdded(c) ==
  /\ pc[c] = "added"
  /\ \/ /\ InsertEntry(c, request[c].bpe.added.entries)
        /\ UNCHANGED lines
     \/ /\ todo[c] = {}
        /\ lines' = [lines EXCEPT ![c] = request[c].bpe.merges.lines]
        /\ GoTo(c, "merges")
        /\ UNCHANGED <<memory, vocab, todo, status>>
  /\ UNCHANGED <<request, merges, outcome>>

\* One line: a comment is skipped, anything else must have two parts.
ReadMerge(c) ==
  /\ pc[c] = "merges"
  /\ \/ /\ lines[c] = << >>
        /\ GoTo(c, "build")
        /\ UNCHANGED <<memory, merges, lines, status>>
     \/ /\ lines[c] # << >>
        /\ LET line == Head(lines[c]) IN
             \/ /\ IsComment(line) \/ Len(line) = 2
                /\ merges' = [merges EXCEPT ![c] = IF IsComment(line) THEN @ ELSE Append(@, line)]
                /\ lines' = [lines EXCEPT ![c] = Tail(@)]
                /\ UNCHANGED <<memory, pc, status>>
             \/ /\ ~IsComment(line)
                /\ Len(line) # 2
                /\ Fail(c, "InvalidArgument")
                /\ UNCHANGED <<merges, lines>>
  /\ UNCHANGED <<request, vocab, todo, outcome>>

\* BPE::new and the wrapper around it.  The panic on merges outside the
\* vocabulary is caught and becomes an internal error.
Build(c) ==
  /\ pc[c] = "build"
  /\ \/ MergesKnown(vocab[c], merges[c]) /\ HandOver(c)
     \/ ~MergesKnown(vocab[c], merges[c]) /\ Fail(c, "Internal")
  /\ UNCHANGED <<request, reading, outcome>>

------------------------------------------------------------------------------
(* The C++ factories, or a C caller                                          *)

Finish(c, answer) ==
  /\ outcome' = [outcome EXCEPT ![c] = answer]
  /\ GoTo(c, "unwind")

\* CheckStatus, then HandleOwner takes the handle; a C caller keeps it.  The null
\* check in between never fires: see StatusTellsOwnership.
CheckStatus(c) ==
  /\ pc[c] = "returned"
  /\ \/ /\ status[c] # "Ok"
        /\ Finish(c, Throw(status[c]))
        /\ UNCHANGED memory
     \/ /\ status[c] = "Ok"
        /\ c \in CppClient
        /\ Move(<<c, "handle">>, <<c, "owner">>)
        /\ GoTo(c, "construct")
        /\ UNCHANGED outcome
     \/ /\ status[c] = "Ok"
        /\ c \notin CppClient
        /\ Move(<<c, "handle">>, <<c, "tokenizer">>)
        /\ Finish(c, Loaded)
  /\ UNCHANGED <<request, reading, status>>

\* Mutant: HandleOwner is not released.
ConstructUnreleased(c) ==
  /\ pc[c] = "construct"
  /\ cell' = [cell EXCEPT ![<<c, "tokenizer">>] = cell[<<c, "owner">>]]
  /\ UNCHANGED heap
  /\ Finish(c, Loaded)
  /\ UNCHANGED <<request, reading, status>>

\* new HFTokenizer(handle, ...), handle_owner.release()
Construct(c) ==
  /\ pc[c] = "construct"
  /\ Move(<<c, "owner">>, <<c, "tokenizer">>)
  /\ Finish(c, Loaded)
  /\ UNCHANGED <<request, reading, status>>

\* The copy of the message, or the object, cannot be allocated.
OutOfMemory(c) ==
  /\ c \in CppClient
  /\ pc[c] = "construct" \/ (pc[c] = "returned" /\ status[c] # "Ok")
  /\ Finish(c, Throw("bad_alloc"))
  /\ UNCHANGED <<memory, request, reading, status>>

\* The locals of the C function and the status are gone.
Forget(c) ==
  /\ vocab' = [vocab EXCEPT ![c] = [t \in {} |-> 0]]
  /\ todo' = [todo EXCEPT ![c] = {}]
  /\ merges' = [merges EXCEPT ![c] = << >>]
  /\ lines' = [lines EXCEPT ![c] = << >>]
  /\ status' = [status EXCEPT ![c] = "Ok"]

\* Mutant: the C++ factories have no destructor that frees the message.
UnwindKeepsMessage(c) ==
  /\ pc[c] = "unwind"
  /\ FreeCells({<<c, "owner">>} \cup {<<d, "message">> : d \in {c} \ CppClient})
  /\ GoTo(c, "done")
  /\ Forget(c)
  /\ UNCHANGED <<request, outcome>>

\* ~HandleOwner and ~ErrorMessage, or tokenizers_free_error_message of a C caller.
Unwind(c) ==
  /\ pc[c] = "unwind"
  /\ FreeCells({<<c, "owner">>, <<c, "message">>})
  /\ GoTo(c, "done")
  /\ Forget(c)
  /\ UNCHANGED <<request, outcome>>

Return(c) ==
  /\ pc[c] = "done"
  /\ GoTo(c, "idle")
  /\ request' = [request EXCEPT ![c] = NoRequest]
  /\ outcome' = [outcome EXCEPT ![c] = NoOutcome]
  /\ UNCHANGED <<memory, reading, status>>

\* ~HFTokenizer, or tokenizers_free by a C caller.
Drop(c) ==
  /\ pc[c] = "idle"
  /\ cell[<<c, "tokenizer">>] # NULL
  /\ FreeCells({<<c, "tokenizer">>})
  /\ UNCHANGED <<pc, request, reading, status, outcome>>

------------------------------------------------------------------------------
InCall(c) ==
  \/ Enter(c) \/ ReadVocab(c) \/ ReadAdded(c) \/ ReadMerge(c) \/ Build(c)
  \/ CheckStatus(c) \/ Construct(c) \/ OutOfMemory(c) \/ Unwind(c) \/ Return(c)

Next == \E c \in Client : (\E r \in Request : Load(c, r)) \/ InCall(c) \/ Drop(c)

Spec == Init /\ [][Next]_vars

\* A thread inside a factory keeps running; whether it loads or drops a
\* tokenizer is up to it.
Fairness == \A c \in Client : WF_vars(InCall(c))
FairSpec == Spec /\ Fairness

------------------------------------------------------------------------------
(* Properties                                                                *)

PC == {"idle", "enter", "vocab", "added", "merges", "build", "returned",
       "construct", "unwind", "done"}

Content ==
  {Free} \cup [is: {"message"}, code: {"InvalidArgument", "Internal"}]
  \cup [is: {"wrapper"}, vocab: PartialMap(Token, U32), vocab_r: PartialMap(U32, Token),
        merges: Seq(Seq(Token))]

\* Every variable holds a value of its type.
TypeOK ==
  /\ heap \in [Addr -> Content]
  /\ cell \in [Cell -> Addr \cup {NULL}]
  /\ pc \in [Client -> PC]
  /\ request \in [Client -> Request \cup {NoRequest}]
  /\ vocab \in [Client -> PartialMap(Token, U32)]
  /\ todo \in [Client -> SUBSET Token]
  /\ merges \in [Client -> Seq(Seq(Token))]
  /\ lines \in [Client -> Seq(Seq(Token))]
  /\ status \in [Client -> {"Ok", "InvalidArgument", "Internal"}]
  /\ outcome \in [Client -> Outcome]

\* Every box that crossed the ABI has exactly one owner, no owner points to freed
\* memory, and what a factory call owned is with the caller or freed once it
\* returned: nothing leaks and nothing is freed twice, whichever step failed.
NotLeaked == \A a \in Addr : heap[a] # Free => \E k \in Cell : cell[k] = a
NotDangling == \A k \in Cell : cell[k] # NULL => heap[cell[k]] # Free
NotShared == \A k, l \in Cell : cell[k] # NULL /\ cell[k] = cell[l] => k = l
NotAbandoned ==
  \A c \in Client : pc[c] \in {"idle", "done"} => \A name \in Local : cell[<<c, name>>] = NULL
OwnedOnce == NotLeaked /\ NotDangling /\ NotShared /\ NotAbandoned

\* "On success, ownership of out_handle passes to the caller.  On failure,
\* out_error must be released": the status says which of them there is.
StatusTellsOwnership ==
  \A c \in Client : pc[c] = "returned" =>
    /\ (status[c] = "Ok") <=> (cell[<<c, "handle">>] # NULL)
    /\ (status[c] # "Ok" /\ Given(c, "error")) <=> (cell[<<c, "message">>] # NULL)

\* A load that reads its input finds an address for the tokenizer or the message it
\* will hand over: as long as there are as many addresses as clients, none waits
\* for another, however the loads before it ended.
RoomToAnswer ==
  \A c \in Client : pc[c] \in {"enter", "vocab", "added", "merges", "build"} =>
    \E a \in Addr : heap[a] = Free

\* The lookups of a loaded tokenizer invert each other on the ids that Encode can
\* return, although ids may be shared, overridden or too wide for int32_t; an id
\* below zero names at most a token that TokenToId calls unknown.
LookupsAgree ==
  \A a \in Addr : heap[a].is = "wrapper" =>
    LET w == heap[a] IN
      /\ \A id \in Int32 : IdToToken(w, id) # NoToken =>
           TokenToId(w, IdToToken(w, id)) = IF id >= 0 THEN id ELSE -1
      /\ \A t \in DOMAIN w.vocab : FitsInt32(w.vocab[t]) => IdToToken(w, w.vocab[t]) # NoToken

\* The assertion of HFTokenizer::GetVocabSize: assert(size > 0).
VocabSizePositive ==
  \A a \in Addr : heap[a].is = "wrapper" => GetVocabSize(heap[a]) > 0

\* A load gives the tokenizer that all of its input describes, or the error that
\* its input deserves and no tokenizer; the tokenizers of others stay as they are.
Phase(c) == IF pc[c] \in {"idle", "done"} THEN pc[c] ELSE "pending"
Contents(c) ==
  IF Phase(c) = "pending" \/ cell[<<c, "tokenizer">>] = NULL THEN None
  ELSE [vocab  |-> heap[cell[<<c, "tokenizer">>]].vocab,
        merges |-> heap[cell[<<c, "tokenizer">>]].merges]
Api == INSTANCE FactoryApi WITH
         phase     <- [c \in Client |-> Phase(c)],
         outcome   <- [c \in Client |-> IF pc[c] = "done" THEN outcome[c] ELSE NoOutcome],
         tokenizer <- [c \in Client |-> Contents(c)]
ImplementsFactoryApi == Api!Spec

\* Every load ends, with a tokenizer or an error.
EveryLoadReturns == \A c \in Client : pc[c] # "idle" ~> pc[c] = "idle"
==============================================================================

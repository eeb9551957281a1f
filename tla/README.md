# A TLA+ model of tokenizers-cpp

tokenizers-cpp puts one C++ class, `tokenizers::Tokenizer`, in front of three
tokenizer libraries (Hugging Face tokenizers in Rust, SentencePiece and RWKV
World) and of a JavaScript binding. What it computes is mostly done by those
libraries; what it is responsible for is what crosses its borders: which
policy a call is encoded under, who owns the memory a call hands over, what a
failure turns into, what may run at the same time. That is what is modelled
here.

    tlc -workers 2 -config policies.cfg MCHFTokenizer   # and the other .cfg files
    tlapm HFTokenizerProofs.tla                         # and the other *Proofs.tla

## Inventory

| Part | State | Operations | Hard behaviour |
|---|---|---|---|
| Hugging Face, C++ (`src/huggingface_tokenizer.cc`) | the Rust handle, `supports_encode_flags_`; per call the owners `ErrorMessage` and `EncodeResults` | `EncodeImpl`, `EncodeBatchImpl`, `Decode`, `GetVocabSize`, `IdToToken`, `TokenToId`, destructor | exceptions between taking Rust memory and releasing it; two C calls per `Decode` |
| Hugging Face, Rust C ABI (`rust/src/lib.rs`, `include/tokenizers_c.h`) | `TokenizerWrapper`: a tokenizer, its two policy variants, two scratch strings | the other `tokenizers_*` functions | threads that share the wrapper; pointers into scratch strings; panics; ownership that passes to C |
| Factories (`huggingface_tokenizer.cc`, `rust/src/lib.rs`) | the handle and its `HandleOwner`, the message, the maps read so far | `FromBlobJSON`, `FromBlobByteLevelBPE`, `~HFTokenizer` and the C functions behind them | failures between the hand-over of the handle and its owner; a panic after all checks; JSON maps in any order; ids that are shared, overridden or too wide |
| Common dispatch (`src/tokenizer.cc`, `include/tokenizers_cpp.h`) | none | `Encode`, `EncodeBatch`, `ValidateEncodeOptions`, default `EncodeBatchImpl` | which error wins; one failing text of a batch |
| RWKV World (`src/rwkv_world_tokenizer.cc`, `.h`) | two maps and a trie | constructor, `EncodeImpl`, `Decode`, lookups | visiting unordered maps; ids and words that collide; a loop that must advance |
| SentencePiece (`src/sentencepiece_tokenizer*.cc`) | the library's processor | the same methods | every error status is ignored |
| Web binding (`web/src/`) | the module variable `binding`, a handle per object | async factories, `encode`, `decode`, `dispose`, ... | the await in the lazy initialisation |
| Build files, example, tests, packaging | | | no behaviour of the library |

The C++ methods call the C functions of the Rust library, the web binding calls
the C++ methods through embind; all threads that use one tokenizer share its
`TokenizerWrapper`. `PROJECT.json` lists the hazards, each at its line with the
properties that cover it.

What makes each part correct:

- *Hugging Face*: a call's answer depends on its own arguments and flags only;
  every box handed over the ABI has one owner that frees it, on every way out;
  the status says what the caller was given; the pointer a string is copied
  from holds that caller's string; every call returns.
- *Factories*: a load gives the tokenizer that all of its input describes or the
  error its input deserves; handle and message are freed once, on every way out,
  so that there is always memory for the next answer; the lookups of what was loaded invert each other on the ids that fit.
- *RWKV*: the tables do not depend on the order in which they were filled;
  encoding takes the longest word everywhere, decodes back, fails only where it
  must and ends.
- *Web*: a loaded object can use the vectors the class makes for it; a load settles.
- *SentencePiece*: failures become `TokenizerError` (they do not, see the findings).

## Modules

| Module | What it is |
|---|---|
| `TokenizerData` | texts, ids, requests and outcomes, and what the Hugging Face library does with them as far as this repository relies on it |
| `TokenizerApi` | what the headers promise to the callers of one Hugging Face tokenizer: one step per answer, no memory, no views |
| `HFTokenizer` | the C++ class, the dispatch in front of it and the C functions behind it, for several threads |
| `MCHFTokenizer` | its instances for TLC |
| `HFTokenizerProofs` | its theorems |
| `HFRefinementProofs` | the proof that it implements `TokenizerApi` |
| `FactoryData` | the blobs, requests and outcomes of the factories, and what a loaded tokenizer answers, with the 32-bit conversions |
| `FactoryApi` | what the headers promise to the callers of the factories: one step per answer |
| `HFFactory`, `MCHFFactory` | both Hugging Face factories from blob to C++ object, for several threads, and its instances |
| `HFFactoryProofs` | its theorems |
| `HFFactoryRefinementProofs` | the proof that it implements `FactoryApi`, and what follows from the same invariant |
| `RwkvWorld`, `MCRwkvWorld` | the RWKV backend and its instance |
| `RwkvWorldProofs` | its theorems |
| `FoldProofs` | what `FlattenSeq` does with a sequence that grows, used by `RwkvWorldProofs` and `HFFactoryRefinementProofs` |
| `SentencePiece`, `MCSentencePiece` | the SentencePiece backend and its instance |
| `SentencePieceProofs` | its theorems |
| `WebTokenizers` | the JavaScript class on one page |
| `WebTokenizersProofs` | its theorems |

### HFTokenizer

A thread takes one step at a time, and its `pc` says where it is. The steps end
where another thread could see or reuse what was left behind:

| Steps | Code |
|---|---|
| `Invoke` | a caller starts a method (C++ threads, `CppClient`) or a C function (the others) |
| `Validate` | `Tokenizer::Encode`, `EncodeBatch`: flags, and the empty batch of the Hugging Face backend |
| `Enter` | `tokenizers_encode(_batch)` until a view is chosen: null the out parameters, check the texts, then the flags |
| `Tokenize`, `TokenizeFails` | the library encodes, or returns an error or panics; boxes or the message are handed out |
| `ReadResult` | `CheckStatus` and `ConvertResult` |
| `Release` | the destructors `~EncodeResults` and `~ErrorMessage`, or a C caller's free functions, which it may call again |
| `Decode`, `GetDecodeStr`, `CopyString` | the two C calls of `HFTokenizer::Decode` and the copy |
| `LookupToken`, `CopyString` | `IdToToken` |
| `OutOfMemory` | `std::bad_alloc` in the C++ methods: for the error of a validation, before, between and after the C calls |
| `Close` | `~HFTokenizer`, `tokenizers_free` |

`heap` is what each address holds and `cell` the pointer in each place the code
frees from: the error message and the result structs of each call, and the
scratch strings of the wrapper. Assigning a scratch string frees the old one.
`wrapper` and `supports_encode_flags` are set by one of the two factories and
never change.

A text is a sequence of pieces; a piece is an added token, a special one, or
plain. What the model does with plain text is not modelled: an added token that
is not recognised becomes another id of the same piece. The ids above
`INT32_MAX` are a constant. Strings are sequences of what each id contributed.

Callers overlap as the class comment allows and slightly more: the comment
excludes all concurrent uses of `Decode` and the lookups, while `Invoke` only
excludes two calls that use the same scratch string. The properties hold for
this larger set of callers, so they hold for the documented one.

Left out: null handles and arguments (C++ never passes them); an allocation
that fails in Rust (it aborts the process); a panic in `tokenizers_decode` or
`tokenizers_id_to_token` (outside `catch_unwind`, it aborts too); the dangling
pointer that Rust uses for empty boxes, which is treated as an address of its own
although it is not unique. `GetVocabSize` and `TokenToId` only read what the
factories stored, and are operators of `FactoryData`.

### HFFactory

| Steps | Code |
|---|---|
| `Load` | a caller starts `FromBlobJSON` or `FromBlobByteLevelBPE` (`CppClient`) or the C function |
| `Enter` | the checks of `tokenizers_new_from_str` and `byte_level_bpe_tokenizers_new_from_str`: out parameters, null, UTF-8, the first JSON blob, a panic of the library on it |
| `ReadVocab`, `ReadAdded` | the loops over the two JSON objects, an entry a step and in any order |
| `ReadMerge` | the loop over the merge lines |
| `Build` | `BPE::new`, whose panic `ffi_call` catches, and the boxing of the wrapper |
| `CheckStatus`, `Construct` | the rest of the C++ factory: the status, `HandleOwner`, `new HFTokenizer`, `release` |
| `OutOfMemory` | `std::bad_alloc` where the message is copied or the object allocated |
| `Unwind` | `~HandleOwner` and `~ErrorMessage`, or a C caller's `tokenizers_free_error_message` |
| `Drop` | `~HFTokenizer`, `tokenizers_free` |

`heap` holds tokenizers and messages; `cell` is the pointer in `ErrorMessage`,
in the out parameter, in `HandleOwner` and in the object. `vocab`, `todo`,
`merges` and `lines` are the locals of the C function. A blob is what reading
it comes to: null, not UTF-8, not JSON, JSON of another shape, JSON the library panics on, or
its contents.
Callers of the C functions may leave out parameters null. `U32Max` is a
constant, so that ids at and beyond `INT32_MAX` and `UINT32_MAX` occur.
Where two tokens share an id, `Inverses` leaves open which of them the id stands
for, as the hash map of the library does.

`FactoryApi` says in one step what a load answers: added tokens over vocabulary,
merge lines without comments, the code of each fault.

A JSON tokenizer is represented by its vocabulary. Left out: null or dangling
handles of C callers; tokens that are the empty string, which cannot be told
from "no token"; a C caller that loads into a handle it still owns.

A negative id is cast to `uint32_t` by `IdToToken`, so `IdToToken(-1)` names the
token whose id is `UINT32_MAX` if there is one. The header says nothing about
negative ids; `LookupsAgree` states what does hold: `TokenToId` calls such
a token unknown.

### RwkvWorld

The constructor visits `_idx2word` and then `_word2idx` in every order
(`InvertEntry`, `AddWord`). A trie node is named by its path. `StartEncode` is the
dispatch, each `FindLongestPrefix` one round of the loop of `EncodeImpl`, and
`TextDone` the default `EncodeBatchImpl`. The other methods are one action each.
The contents of the model file are a map; that the file is found by a path, while
the header says "in-memory blobs" (`tokenizers_cpp.h:139`), is not modelled. The
tests rely on the path (`tests/tokenizers_cpp_test.cc:143`).

### SentencePiece

`FromBlob` is the factory of both builds: with SentencePiece the result of
loading the model is dropped, without it the result is a null pointer.
`StartEncode` is the dispatch, `EncodeImpl` one round of the default
`EncodeBatchImpl`, in which the status of the library is ignored. The variable
`failed` remembers what the code does not. `Decode` and the lookups hand on what
the library says and change no state; the `skip_special_tokens` of the
two-argument `Decode`, which the base class drops for this backend and for RWKV
(`tokenizers_cpp.h:116`), has no state to be modelled with.

### WebTokenizers

A step is what runs between two awaits. Every call of `Module()` that resolves
makes another wasm instance; handles and vectors belong to the instance that made
them and embind rejects those of others. `OverlappingLoads` says whether
the page starts a load while another waits. `web/src/tokenizers_binding.cc:26`
takes the address of `Tokenizer::Decode`, which has two overloads, without
`select_overload`; the model binds the one-argument overload the class uses.

## Runs

| Run | Instance | Shows |
|---|---|---|
| `policies` | 2 C++ threads, 5 flag words (none, each flag, both, an undefined bit), texts with both kinds of added token and with a wide id, both factories, 4 addresses | `TypeOK`; `ImplementsApi`: HFTokenizer implements TokenizerApi |
| `memory` | a C++ thread and a C thread, both factories, batches of 2 texts whose second is empty, malformed or has a wide id, 5 addresses | `MemoryOwnedOnce`, `StatusTellsWhatToFree`, `PointerStaysValid`, `BuffersStayPut`; `ImplementsApi` where two reasons to refuse a call meet, and for a C caller |
| `liveness` | the same threads, one text a call, 3 addresses, fairness | `EveryCallReturns` |
| `rwkv` | all 216 maps from some of the ids -1, 0, 1 to 5 words (nested, empty, with repetitions), 5 texts and a batch | `TypeOK`, `TablesAgree`, `EncodeIsGreedy`, `ThrowsOnlyWhenStuck`, `RoundTrip`, `RoundsAreGreedy`, `EncodeReturns` |
| `factory` | a C++ thread and a C thread, a u32 of 0..3, 4 tokens, 12 inputs (3 good and 6 bad BPE inputs, a good JSON, a bad one and one the library panics on), 2 addresses, fairness | `TypeOK`, `OwnedOnce`, `StatusTellsOwnership`, `RoomToAnswer`, `LookupsAgree`, `EveryLoadReturns`; `ImplementsFactoryApi`: HFFactory implements FactoryApi |
| `sp` | every batch of up to 3 texts, one of which fails, 3 flag words, a model that loaded and one that did not | `TypeOK` |
| `web` | 3 objects, 3 wasm instances, loads one at a time | `TypeOK`, `VectorsMatchHandle`, `LoadSettles` |
| `rwkv_throws` | as `rwkv` | finding: Encode throws a type the header does not name |
| `rwkv_unknown_id` | as `rwkv` | finding: IdToToken returns `"<unk>"` |
| `factory_empty` | as `factory`, with an empty vocabulary | finding: the assertion of `GetVocabSize` fails |
| `sp_errors` | as `sp` | finding: Encode returns normally after a failure |
| `web_overlap` | 2 objects, overlapping loads | finding: objects of the first load cannot encode |

Why the bounds are enough. Two threads are enough for a conflict between
calls, since every shared place (a scratch string, an address) is touched by one
step at a time. Batches of two texts are the shortest that fail after a text
that succeeded. In `memory` a malformed text meets a flag that a byte-level BPE
tokenizer does not support: the C++ class sees the flag first, the C function the
text. `memory` has one address less than its threads and strings can
hold at once, so that freed addresses are reused, which is when a
stale pointer is noticed; `liveness` has only just enough, so that a leak makes a
call wait for ever. In `factory` each of the two threads holds at most one
box at a time, so two addresses suffice (`RoomForEveryLoad` proves it), are reused
at once, and a box that nobody frees breaks `RoomToAnswer` and makes a later load
wait. A u32 of four values has ids that fit `int32_t`
(0, 1), ids that do not (2, 3) and negative numbers cast to both; 4 is an id
that no u32 holds. The vocabularies have an overridden token, a shared id, and ids
at each boundary; the bad inputs fail in each loop after some rounds. A batch of
three texts has one that fails first, between and last. The words of `rwkv` contain each other and the
texts leave the trie inside a word. Three web objects allow one that is
live, one that is loading and one that failed.

`CHECK_DEADLOCK FALSE` in every configuration: a tokenizer may be closed, a
constructor may throw, a page may have no instance left.

Fairness. `HFTokenizer`: weak fairness of the steps of each thread, because no
step of the code waits for another thread (there is no lock), so a thread that
is inside a call and scheduled gets on. That callers start calls is not
assumed. In the model a step that allocates waits for a free address; this is
how a leak shows up as a call that does not return. `RwkvWorld`: weak fairness
of the encode loop, which is sequential code. `HFFactory`: weak fairness of the steps of each client, for the reason given
for `HFTokenizer`; that clients load or drop tokenizers is not assumed.
`WebTokenizers`: `Module()`
settles one way or the other and the event loop runs what is ready.

Every property of a passing run is broken by a mutant of a mapped definition, kept
beside that definition with the bug it stands for.

## Findings

- `web_overlap`: `asyncInitTokenizers` tests `binding` before its await. Two loads
  started together (`Promise.all`) instantiate the module twice, the second
  overwrites `binding`, and `encode` and `decode` of the first object then mix
  the vectors of two instances and throw. Keeping the promise of `Module()` instead
  of its result would serialise the loads.
- `rwkv_throws`: where no word fits, `Encode` throws `FRException`; the header
  promises `TokenizerError`.
- `rwkv_unknown_id`: `IdToToken` gives `"<unk>"`; the header promises the empty string.

- `factory_empty`: the byte-level BPE factory accepts a vocabulary object without
  entries; `GetVocabSize` asserts that the size is positive and aborts.
- `sp_errors`: every status of SentencePiece is ignored, that of loading the
  model too, so `Encode` gives no ids instead of the `TokenizerError` the header
  promises.

## Proofs

`HFTokenizerProofs` proves, for any number of threads, addresses, texts, flag
words and vocabularies that satisfy the assumptions of `TokenizerData` and
`HFTokenizer`:

- `TypeCorrect`: `Spec => []TypeOK`
- `OwnershipSafe`: `Spec => []MemoryOwnedOnce`
- `StatusContract`: `Spec => []StatusTellsWhatToFree`
- `ScratchStringsSafe`: `Spec => []PointerStaysValid`
- `BuffersSafe`: `Spec => BuffersStayPut`

The assumptions: special tokens are added tokens, the malformed text is none of
the valid ones, no batch is longer than `MaxBatch`; null is not an address and
the wrapper is not a thread.

None of these properties is inductive. That a call does not overwrite a pointer it
owns needs to know that its cells are null until it hands something out; that
the type of an answer is right needs to know what the buffers hold, and they
keep it only because no other cell owns their addresses. The
inductive invariant `IInv` puts this together: `MemoryInv` (every address that is
in use has exactly one owner, and holds what that owner expects), `WrapperInv`
(the views a call can choose exist), `LocalsInv` (types), `ScratchExclusion`
(no two calls use the same scratch string) and, for each thread, `AtPC`
(what it owns where it is), `HoldsAnswer` (the scratch string it will read holds its
answer) and `TellsWhatToFree`.

The proof goes action by action. The memory operators `HandOut`, `NullOut`,
`FreeCells` and `AssignString` each have a lemma that says what they preserve
and which cells they keep (`Kept`). Each action is then shown to stay in its
footprint (`Footprint`: its own cells, or the scratch string its call has for
itself), and one lemma, `StepOfOneThread`, concludes that the
other threads are unharmed, so an action is looked at for its own thread only.
The same footprint gives `BuffersSafe`.

`HFRefinementProofs` proves, from the same assumptions and one more,

- `Implements`: `Spec => ImplementsApi`

that every answer is one the headers promise to that request. `IInv` knows who
owns what, but not which ids; `RInv` adds that the views are the ones the
factory made (`Policies`) and what each thread has found out (`Promises`):
before tokenizing, that its view is the one its flags choose; after it,
that its buffers hold the ids the API promises for its request, or that its
status is one of the refusals the API allows. A step of another thread keeps
these because it stays in its footprint. Each action is shown to be `Respond` of
the API or a stutter (`OnTheWay`, `AtTheEnd`). The added assumption
`OptionAssumption` says that `None` is not a view, as it is not in the Rust `Option`.

`HFFactoryProofs` proves, for any number of clients and addresses, any blobs and
any odd `U32Max`:

- `TypeCorrect`: `Spec => []TypeOK`
- `OwnershipSafe`: `Spec => []OwnedOnce`
- `StatusContract`: `Spec => []StatusTellsOwnership`
- `LookupsCorrect`: `Spec => []LookupsAgree`

The inductive invariant `IInv` says, client by client, how much of the input is
read (`Reads`: the vocabulary is the part of the entries that the loop has visited,
merged over what the first loop left, so the order does not matter) and which
pointers may be set (`Owns`); `MemoryInv` and `WrapperInv` are about the heap.
That a step does not lose a box needs `Owns`: the pointer that is overwritten is
null there. `StepOfOne` reduces each action to its own client. `LookupsAgree`
follows from `WrapperInv`: the id table is an inverse of the vocabulary, whatever
ids are shared, and the casts are arithmetic.

`HFFactoryRefinementProofs` proves, from the same assumptions and two more,

- `Implements`: `Spec => ImplementsFactoryApi`
- `RoomForEveryLoad`: with as many addresses as clients, both finite,
  `Spec => []RoomToAnswer`
- `VocabSizeDependsOnInput`: if no input that is neither at fault nor panicked on
  describes an empty vocabulary, `Spec => []VocabSizePositive`

A load answers many steps after its request, with maps that were read in an
arbitrary order, and the answer has to be one that `FactoryApi` gives to the whole
input. `RInv` says what has been found out on the way (`Promises`): that the
entries visited so far have ids that fit (`IdsFit`), that the merges kept are the
good lines among the first n (`LinesRead`), before `Build` that the input has no
fault, parses and describes the locals, and after it that the cell holds the tokenizer
described or the status is one that the input deserves. For a tokenizer that the
caller has, the API remembers what it was loaded from, and the model only its box;
`MadeFromInput` ties the two together. An early return is justified by the one
entry or line it is at, the success by all of them, so each loop needs its
invariant in both directions.
`MergesOf` filters the lines with `FlattenSeq` of one-element and empty sequences,
for which `FoldProofs` has the step from n lines to n + 1.

The added assumptions are that `None` is not a box of the API (`NoneAssumption`)
and that vocabularies are finite, as JSON objects are (`FactoryAssumption`).

`RoomForEveryLoad` is about leaks: if a box were left behind on some way out, later
loads would run out of room. `IInv` gives every box one owner, `RInv` one box to each
client (`OneBox`), and a client that is still reading has none; if every address
were in use, their owners would be an injection into the other clients, which are too
few. `VocabSizeDependsOnInput` is the other side of the finding `factory_empty`:
nothing but an empty input can trip the assertion.

`RwkvWorldProofs` proves, for every set of model files, texts and batches and
from `RwkvAssumption` alone (ids are integers, words and texts are sequences of
bytes, `NoWord` is not an id):

- `TypeCorrect`: `Spec => []TypeOK`
- `LoadOrderIrrelevant`: `Spec => []TablesAgree`
- `EveryRoundIsGreedy`: `Spec => RoundsAreGreedy`

`TablesAgree` says nothing before the constructor is done, so it is not
inductive. `Built` says what the tables hold on the way: while the first loop
runs, `word2idx` has exactly the words of the entries visited so far and each
id leads back to its word; while the second runs, the trie is that of the words
visited so far (`TrieOf`). Only sets of visited entries occur in it, which is
why the order does not matter. `Encoding` adds that an encode call holds ids of
the model file. `LongestMatchFacts` then derives from the trie what one walk
finds, with the minimum of a set of numbers from the well-foundedness of `<`,
and `RoundsAreGreedy` follows from it since no other step adds an id.

The second half of the module goes on to whole texts, from the same assumption:

- `EncodingIsGreedy`: `Spec => []EncodeIsGreedy`
- `ThrowsWhenStuck`: `Spec => []ThrowsOnlyWhenStuck`
- `DecodeInvertsEncode`: `Spec => []RoundTrip`
- `CompleteVocabularyNeverThrows`: if every model file has a word for each byte
  and none with the id -1, `Spec => []EncodeThrowsTokenizerError`

The invariant `TInv` adds to `IInv` how far a call is: the texts that are finished are
spelled by their ids and the one being encoded up to `str_idx`, greedily
(`Progress`); an answer that is `FRException` in the middle of a text stands where
no word fits or only one with the id -1 (`Answered`). A round adds one id, so each
step needs to know how a text put together from words changes when a word is
added. `FlattenSeq` is defined by a recursive function; `FoldProofs` derives what is
needed (`FlattenType`, `FlattenAppend`) by inductions that it builds from the
well-foundedness of `<` (`CountingUp`).

`CompleteVocabularyNeverThrows` is the other side of the finding `rwkv_throws`: it
says of which model files the header's promise holds. Its invariant adds
`Unpacked`, that `idx2word` is the map of the file once the constructor has read
it; then a byte of the text is left, its word is in the trie, and the longest
match is not empty (`CompleteFinds`).

`WebTokenizersProofs` proves, for any number of objects and wasm instances:

- `TypeCorrect`: `Spec => []TypeOK`
- `SerialLoadsSafe`: `~OverlappingLoads` implies `Spec => []VectorsMatchHandle`

The finding shows that the assumption is needed. With it, at most one load waits
and only while `binding` is null (`WrittenOnce`), so that the binding is written
once.

`SentencePieceProofs` proves, for any texts, batches and flag words:

- `TypeCorrect`: `Spec => []TypeOK`, which is inductive as it stands: answers
  are sequences of ids although every error of the library is ignored.

Only model-checked: liveness (`EveryCallReturns`, `EveryLoadReturns`, `EncodeReturns`,
`LoadSettles`), because the prover does not reason about `ENABLED`, and so not about
fairness. Every invariant and action property of a passing run, and both refinements,
are proved.

## Not modelled

- Build files, the example, the tests and the web packaging have no behaviour of
  the library.
- What the three tokenizer libraries compute. Only what this repository relies on
  is in the models, as constants and operators marked external.
- The process after an abort: allocation failures in Rust, panics outside
  `catch_unwind` (`tokenizers_decode`, `tokenizers_id_to_token`), failed
  assertions.
- Null handles and arguments outside the factories, which the C++ class never passes;
  this is why the Rust C ABI is listed as partly modelled.
- Memory of the RWKV constructor (its read buffer is leaked when unpacking throws)
  and of vectors that the web class leaves behind when a call throws; the
  variable `leaked` records the latter, and no source promises otherwise.

## Plan

1. done: `HFTokenizer` with `TokenizerApi`, `HFFactory` with `FactoryApi`, `RwkvWorld`,
   `SentencePiece`, `WebTokenizers`, with their runs. The 32-bit conversions went
   into `FactoryData`.
2. done: the safety theorems of all five components, and both refinements.
3. Proofs: what `RoomForEveryLoad` says of the factories, for `HFTokenizer`: how many
   boxes a call holds at most, so that `EveryCallReturns` cannot fail for want of memory.
4. Proofs: that a web object loaded alone stays usable whatever is loaded
   after it, under a weaker hypothesis than `~OverlappingLoads`.

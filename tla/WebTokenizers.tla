---------------------------- MODULE WebTokenizers ----------------------------
(***************************************************************************)
(* The JavaScript class of web/src/tokenizers.ts on one page.  JavaScript  *)
(* runs one synchronous piece at a time, so a step is what runs between    *)
(* two awaits; the awaits are where other pieces come in between.          *)
(*                                                                         *)
(* Module() instantiates the wasm binary: each call that resolves yields   *)
(* another instance, with a heap and embind classes of its own.  A handle  *)
(* or a VectorInt made by one instance is rejected by every other.         *)
(***************************************************************************)
EXTENDS Naturals

CONSTANTS
  Tok,              \* the Tokenizer objects the page asks for
  Instance,         \* the wasm instances Module() can still create
  NULL,             \* null
  OverlappingLoads  \* whether the page starts a load while the first one waits

ASSUME WebAssumption == NULL \notin Instance /\ OverlappingLoads \in BOOLEAN

VARIABLES
  binding,   \* the module-level variable
  created,   \* the instances that were asked for
  load,      \* how far each object is
  awaits,    \* the instance its load awaits
  handle,    \* the instance its handle belongs to
  result,    \* how the last call on it ended
  leaked     \* the instances with a VectorInt that nobody will delete

vars == <<binding, created, load, awaits, handle, result, leaked>>

LoadState == {"none", "awaiting", "ready", "live", "failed", "deleted"}
Result == {"none", "value", "backend_error", "binding_error", "deleted_error"}

Init ==
  /\ binding = NULL
  /\ created = {}
  /\ load = [t \in Tok |-> "none"]
  /\ awaits = [t \in Tok |-> NULL]
  /\ handle = [t \in Tok |-> NULL]
  /\ result = [t \in Tok |-> "none"]
  /\ leaked = {}

------------------------------------------------------------------------------
(* fromJSON, fromByteLevelBPE and fromSentencePiece                          *)

\* Module() was called: the load waits for an instance nobody else waits for.
AwaitNewInstance(t) ==
  \E i \in Instance \ created :
    /\ created' = created \cup {i}
    /\ awaits' = [awaits EXCEPT ![t] = i]
    /\ load' = [load EXCEPT ![t] = "awaiting"]

PageMayLoad(t) ==
  /\ load[t] \in {"none", "failed"}
  /\ OverlappingLoads \/ \A u \in Tok : load[u] # "awaiting"

\* Mutant: the binding is instantiated for every load.
StartLoadUnchecked(t) ==
  /\ PageMayLoad(t)
  /\ AwaitNewInstance(t)
  /\ UNCHANGED <<binding, handle, result, leaked>>

\* Mutant: fromJSON goes on without waiting for asyncInitTokenizers.
StartLoadNotAwaited(t) ==
  /\ PageMayLoad(t)
  /\ load' = [load EXCEPT ![t] = "ready"]
  /\ UNCHANGED <<binding, created, awaits, handle, result, leaked>>

\* asyncInitTokenizers up to its await.
StartLoad(t) ==
  /\ PageMayLoad(t)
  /\ \/ /\ binding = NULL
        /\ AwaitNewInstance(t)
     \/ /\ binding # NULL
        /\ load' = [load EXCEPT ![t] = "ready"]
        /\ UNCHANGED <<created, awaits>>
  /\ UNCHANGED <<binding, handle, result, leaked>>

\* Module() resolved: "binding = await Module()" overwrites what is there.
InstanceReady(t) ==
  /\ load[t] = "awaiting"
  /\ awaits[t] # NULL
  /\ binding' = awaits[t]
  /\ awaits' = [awaits EXCEPT ![t] = NULL]
  /\ load' = [load EXCEPT ![t] = "ready"]
  /\ UNCHANGED <<created, handle, result, leaked>>

\* Mutant: the rejection is swallowed and nothing resumes the load.
InstanceFailsSilently(t) ==
  /\ load[t] = "awaiting"
  /\ awaits' = [awaits EXCEPT ![t] = NULL]
  /\ UNCHANGED <<binding, created, load, handle, result, leaked>>

\* Module() rejected, and with it the load; the binding stays as it is.
InstanceFails(t) ==
  /\ load[t] = "awaiting"
  /\ awaits' = [awaits EXCEPT ![t] = NULL]
  /\ load' = [load EXCEPT ![t] = "failed"]
  /\ UNCHANGED <<binding, created, handle, result, leaked>>

\* new Tokenizer(binding.Tokenizer.FromBlob...): a later piece, so it uses the
\* binding of that moment.  The factory throws when the blob is no good.
Construct(t) ==
  /\ load[t] = "ready"
  /\ \/ /\ load' = [load EXCEPT ![t] = "live"]
        /\ handle' = [handle EXCEPT ![t] = binding]
        /\ result' = [result EXCEPT ![t] = "none"]
     \/ /\ load' = [load EXCEPT ![t] = "failed"]
        /\ UNCHANGED <<handle, result>>
  /\ UNCHANGED <<binding, created, awaits, leaked>>

------------------------------------------------------------------------------
(* The methods of a Tokenizer                                                *)

Ends(t, how) == result' = [result EXCEPT ![t] = how]

\* encode: ids belong to the instance of the handle, vecIntToView to binding's.
\* What throws before ids.delete() leaves ids behind.
Encode(t) ==
  /\ \/ load[t] = "deleted" /\ Ends(t, "deleted_error") /\ UNCHANGED leaked
     \/ load[t] = "live" /\ Ends(t, "backend_error") /\ UNCHANGED leaked
     \/ /\ load[t] = "live" /\ handle[t] = binding
        /\ Ends(t, "value") /\ UNCHANGED leaked
     \/ /\ load[t] = "live" /\ handle[t] # binding
        /\ Ends(t, "binding_error")
        /\ leaked' = leaked \cup {handle[t]}
  /\ UNCHANGED <<binding, created, load, awaits, handle>>

\* decode: vec belongs to binding's instance and is passed to the handle.  What
\* throws before vec.delete() leaves vec behind.
Decode(t) ==
  /\ \/ load[t] = "live" /\ handle[t] = binding /\ Ends(t, "value") /\ UNCHANGED leaked
     \/ /\ \/ load[t] = "deleted" /\ Ends(t, "deleted_error")
           \/ load[t] = "live" /\ handle[t] # binding /\ Ends(t, "binding_error")
           \/ load[t] = "live" /\ handle[t] = binding /\ Ends(t, "backend_error")
        /\ leaked' = leaked \cup {binding}
  /\ UNCHANGED <<binding, created, load, awaits, handle>>

\* getVocabSize and idToToken go through the handle alone.
Inspect(t) ==
  /\ \/ load[t] = "deleted" /\ Ends(t, "deleted_error")
     \/ load[t] = "live" /\ Ends(t, "value")
  /\ UNCHANGED <<binding, created, load, awaits, handle, leaked>>

\* dispose: a second delete() throws.
Dispose(t) ==
  /\ \/ /\ load[t] = "live"
        /\ load' = [load EXCEPT ![t] = "deleted"]
        /\ Ends(t, "value")
     \/ /\ load[t] = "deleted"
        /\ Ends(t, "deleted_error")
        /\ UNCHANGED load
  /\ UNCHANGED <<binding, created, awaits, handle, leaked>>

------------------------------------------------------------------------------
Next ==
  \E t \in Tok :
    \/ StartLoad(t) \/ InstanceReady(t) \/ InstanceFails(t) \/ Construct(t)
    \/ Encode(t) \/ Decode(t) \/ Inspect(t) \/ Dispose(t)

Spec == Init /\ [][Next]_vars

\* Module() settles, and the event loop runs what is ready.
Fairness ==
  \A t \in Tok : /\ WF_vars(InstanceReady(t) \/ InstanceFails(t))
                 /\ WF_vars(Construct(t))
FairSpec == Spec /\ Fairness

------------------------------------------------------------------------------
(* Properties                                                                *)

\* Every variable holds a value of its type, and only instances that were asked
\* for are in use.
TypeOK ==
  /\ created \subseteq Instance
  /\ binding \in created \cup {NULL}
  /\ load \in [Tok -> LoadState]
  /\ awaits \in [Tok -> created \cup {NULL}]
  /\ handle \in [Tok -> created \cup {NULL}]
  /\ result \in [Tok -> Result]
  /\ leaked \subseteq created

\* "Encode text to token ids ... @returns The output tokens": the class never
\* refuses its own vectors on an object that was loaded and not disposed of.
VectorsMatchHandle == \A t \in Tok : load[t] = "live" => result[t] # "binding_error"

\* A load that started ends: the promise of fromJSON and its siblings settles,
\* whatever other loads and failures do to the binding.
LoadSettles ==
  \A t \in Tok : load[t] \in {"awaiting", "ready"} ~> load[t] \in {"live", "failed"}
==============================================================================

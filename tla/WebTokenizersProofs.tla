-------------------------- MODULE WebTokenizersProofs --------------------------
(***************************************************************************)
(* Proofs about WebTokenizers, for any number of objects and instances.    *)
(* TypeOK holds for every page.  That the vectors of the class fit its     *)
(* handles holds for the pages that load one object at a time: then        *)
(* the module-level binding is written at most once.                       *)
(***************************************************************************)
EXTENDS WebTokenizers, TLAPS

------------------------------------------------------------------------------
\* Past its await, a load or an object can rely on the binding.
Bound ==
  \A t \in Tok : /\ load[t] \in {"ready", "live", "deleted"} => binding # NULL
                 /\ load[t] = "live" => handle[t] # NULL

\* With one load at a time nobody waits for an instance that would replace
\* another, so every live handle belongs to the binding.
WrittenOnce ==
  /\ \A t \in Tok : /\ load[t] = "awaiting" => binding = NULL
                    /\ load[t] = "live" => handle[t] = binding
  /\ \A t, u \in Tok : load[t] = "awaiting" /\ load[u] = "awaiting" => t = u

IInv == TypeOK /\ Bound
SerialInv == WrittenOnce /\ VectorsMatchHandle

------------------------------------------------------------------------------
LEMMA InitSafe == Init => IInv /\ SerialInv
BY DEF Init, IInv, TypeOK, LoadState, Result, Bound, SerialInv, WrittenOnce, VectorsMatchHandle

\* Types, and that nothing past its await sees a null binding.
LEMMA StepKeepsIInv == IInv /\ [Next]_vars => IInv'
<1> SUFFICES ASSUME IInv, [Next]_vars PROVE IInv'
  OBVIOUS
<1> USE WebAssumption DEF IInv, TypeOK, LoadState, Result, Bound
<1>1. ASSUME NEW t \in Tok, StartLoad(t) PROVE IInv'
  <2>1. CASE binding = NULL /\ AwaitNewInstance(t)
    BY <1>1, <2>1 DEF StartLoad, PageMayLoad, AwaitNewInstance
  <2>2. CASE binding # NULL /\ load' = [load EXCEPT ![t] = "ready"] /\ UNCHANGED <<created, awaits>>
    BY <1>1, <2>2 DEF StartLoad, PageMayLoad
  <2> QED BY <1>1, <2>1, <2>2 DEF StartLoad
<1>2. ASSUME NEW t \in Tok, InstanceReady(t) PROVE IInv'
  BY <1>2 DEF InstanceReady
<1>3. ASSUME NEW t \in Tok, InstanceFails(t) PROVE IInv'
  BY <1>3 DEF InstanceFails
<1>4. ASSUME NEW t \in Tok, Construct(t) PROVE IInv'
  BY <1>4 DEF Construct
<1>5. ASSUME NEW t \in Tok, Encode(t) PROVE IInv'
  BY <1>5 DEF Encode, Ends
<1>6. ASSUME NEW t \in Tok, Decode(t) PROVE IInv'
  BY <1>6 DEF Decode, Ends
<1>7. ASSUME NEW t \in Tok, Inspect(t) PROVE IInv'
  BY <1>7 DEF Inspect, Ends
<1>8. ASSUME NEW t \in Tok, Dispose(t) PROVE IInv'
  BY <1>8 DEF Dispose, Ends
<1>9. CASE UNCHANGED vars
  BY <1>9 DEF vars
<1> QED
  BY <1>1, <1>2, <1>3, <1>4, <1>5, <1>6, <1>7, <1>8, <1>9 DEF Next

\* On a page that loads one object at a time.
LEMMA StepKeepsSerial ==
  ASSUME ~OverlappingLoads
  PROVE  IInv /\ SerialInv /\ [Next]_vars => SerialInv'
<1> SUFFICES ASSUME IInv, SerialInv, [Next]_vars PROVE SerialInv'
  OBVIOUS
<1> USE WebAssumption DEF IInv, TypeOK, Bound, SerialInv, WrittenOnce, VectorsMatchHandle
<1>1. ASSUME NEW t \in Tok, StartLoad(t) PROVE SerialInv'
  <2>1. CASE binding = NULL /\ AwaitNewInstance(t)
    BY <1>1, <2>1 DEF StartLoad, PageMayLoad, AwaitNewInstance
  <2>2. CASE binding # NULL /\ load' = [load EXCEPT ![t] = "ready"] /\ UNCHANGED <<created, awaits>>
    BY <1>1, <2>2 DEF StartLoad, PageMayLoad
  <2> QED BY <1>1, <2>1, <2>2 DEF StartLoad
<1>2. ASSUME NEW t \in Tok, InstanceReady(t) PROVE SerialInv'
  <2>1. binding = NULL /\ \A u \in Tok : load[u] # "live"
    BY <1>2 DEF InstanceReady
  <2> QED BY <1>2, <2>1 DEF InstanceReady
<1>3. ASSUME NEW t \in Tok, InstanceFails(t) PROVE SerialInv'
  BY <1>3 DEF InstanceFails
<1>4. ASSUME NEW t \in Tok, Construct(t) PROVE SerialInv'
  BY <1>4 DEF Construct
<1>5. ASSUME NEW t \in Tok, Encode(t) PROVE SerialInv'
  BY <1>5 DEF Encode, Ends
<1>6. ASSUME NEW t \in Tok, Decode(t) PROVE SerialInv'
  BY <1>6 DEF Decode, Ends
<1>7. ASSUME NEW t \in Tok, Inspect(t) PROVE SerialInv'
  BY <1>7 DEF Inspect, Ends
<1>8. ASSUME NEW t \in Tok, Dispose(t) PROVE SerialInv'
  BY <1>8 DEF Dispose, Ends
<1>9. CASE UNCHANGED vars
  BY <1>9 DEF vars
<1> QED
  BY <1>1, <1>2, <1>3, <1>4, <1>5, <1>6, <1>7, <1>8, <1>9 DEF Next

------------------------------------------------------------------------------
\* Every variable of WebTokenizers keeps its type: handles, awaits and leaked
\* vectors belong to instances that were created, on pages that overlap their
\* loads too.
THEOREM TypeCorrect == Spec => []TypeOK
<1>1. IInv => TypeOK
  BY DEF IInv
<1> QED
  BY InitSafe, StepKeepsIInv, <1>1, PTL DEF Spec

\* On a page that never has two loads waiting at once, encode and decode never
\* mix the vectors of two wasm instances, however loads fail and objects come and
\* go: asyncInitTokenizers then writes the binding at most once.
THEOREM SerialLoadsSafe ==
  ASSUME ~OverlappingLoads
  PROVE  Spec => []VectorsMatchHandle
<1>1. SerialInv => VectorsMatchHandle
  BY DEF SerialInv
<1>2. IInv /\ SerialInv /\ [Next]_vars => IInv' /\ SerialInv'
  BY StepKeepsIInv, StepKeepsSerial
<1> QED
  BY InitSafe, <1>1, <1>2, PTL DEF Spec
==============================================================================

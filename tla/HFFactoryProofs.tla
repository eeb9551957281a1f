---------------------------- MODULE HFFactoryProofs ----------------------------
(***************************************************************************)
(* Proofs about HFFactory, for any number of clients and addresses and any *)
(* blobs.  That a step does not overwrite the pointer to something a call  *)
(* owns is known only from where that call is, and what a loaded tokenizer *)
(* contains only from what the loops had visited when it was boxed: the    *)
(* inductive invariant says both, client by client.                        *)
(***************************************************************************)
EXTENDS HFFactory, SequenceTheorems, TLAPS

------------------------------------------------------------------------------
(* The inductive invariant                                                   *)

\* What a loop over entries has visited while rest is left.
Visited(entries, rest) == [t \in DOMAIN entries \ rest |-> entries[t]]

MergedOf(r) == Api!Merged(Api!Entries(r.bpe.vocab), Api!Entries(r.bpe.added))

MemoryInv == NotLeaked /\ NotDangling /\ NotShared

\* The tables of a tokenizer belong together.
WrapperInv == \A a \in Addr : heap[a].is = "wrapper" => heap[a].vocab_r \in Inverses(heap[a].vocab)

\* How much of the vocabulary is built.
Reads(c) ==
  LET r == request[c] IN
    /\ pc[c] # "idle" => r \in Request
    /\ pc[c] \in {"idle", "enter", "done"} => vocab[c] = [t \in {} |-> 0]
    /\ pc[c] \in {"vocab", "added", "merges"} => r.factory = "bpe" /\ r.bpe.merges.is = "lines"
    /\ pc[c] \in {"vocab", "added"} => r.bpe.vocab.is = "object"
    /\ pc[c] = "vocab" => /\ r.bpe.added.is \notin Unreadable
                          /\ todo[c] \subseteq DOMAIN r.bpe.vocab.entries
                          /\ vocab[c] = Visited(r.bpe.vocab.entries, todo[c])
    /\ pc[c] = "added" => /\ r.bpe.added.is = "object"
                          /\ todo[c] \subseteq DOMAIN r.bpe.added.entries
                          /\ vocab[c] = Api!Merged(r.bpe.vocab.entries,
                                                   Visited(r.bpe.added.entries, todo[c]))
    /\ pc[c] \in {"merges", "build"} /\ r.factory = "bpe" => vocab[c] = MergedOf(r)

\* Which of its pointers may be set.
Owns(c) ==
  /\ pc[c] \in {"enter", "vocab", "added", "merges", "build"} =>
       \A name \in Local \cup {"tokenizer"} : cell[<<c, name>>] = NULL
  /\ pc[c] \in {"idle", "done"} => \A name \in Local : cell[<<c, name>>] = NULL
  /\ pc[c] = "returned" =>
       /\ cell[<<c, "owner">>] = NULL /\ cell[<<c, "tokenizer">>] = NULL
       /\ (status[c] = "Ok") <=> (cell[<<c, "handle">>] # NULL)
       /\ (status[c] # "Ok" /\ Given(c, "error")) <=> (cell[<<c, "message">>] # NULL)
  /\ pc[c] = "construct" =>
       \A name \in {"message", "handle", "tokenizer"} : cell[<<c, name>>] = NULL
  /\ pc[c] = "unwind" => cell[<<c, "handle">>] = NULL

IInv == TypeOK /\ MemoryInv /\ WrapperInv /\ \A c \in Client : Reads(c) /\ Owns(c)

------------------------------------------------------------------------------
(* Maps that grow                                                            *)

\* A map of type PartialMap is a function on its own domain, and conversely.
LEMMA PartialMapFacts ==
  ASSUME NEW S, NEW T, NEW f
  PROVE  f \in PartialMap(S, T) <=> DOMAIN f \subseteq S /\ f \in [DOMAIN f -> T]
BY DEF PartialMap

\* Inserting a typed entry keeps the type.
LEMMA PutType ==
  ASSUME NEW S, NEW T, NEW f \in PartialMap(S, T), NEW k \in S, NEW v \in T
  PROVE  Put(f, k, v) \in PartialMap(S, T)
<1>1. DOMAIN f \subseteq S /\ f \in [DOMAIN f -> T]
  BY PartialMapFacts
<1>2. Put(f, k, v) \in [DOMAIN f \cup {k} -> T]
  BY <1>1 DEF Put
<1> QED
  BY <1>1, <1>2, PartialMapFacts

\* One round of the loop over the vocabulary's entries.
LEMMA PutVisited ==
  ASSUME NEW entries, NEW rest, rest \subseteq DOMAIN entries, NEW t \in rest
  PROVE  Put(Visited(entries, rest), t, entries[t]) = Visited(entries, rest \ {t})
BY DEF Put, Visited

\* One round of the loop over the added tokens: they override, in any order.
LEMMA PutMerged ==
  ASSUME NEW f, NEW entries, NEW rest, rest \subseteq DOMAIN entries, NEW t \in rest
  PROVE  Put(Api!Merged(f, Visited(entries, rest)), t, entries[t])
           = Api!Merged(f, Visited(entries, rest \ {t}))
BY DEF Put, Visited, Api!Merged

\* The loops at their ends.
LEMMA VisitedAll ==
  ASSUME NEW T, NEW entries, entries \in [DOMAIN entries -> T]
  PROVE  Visited(entries, {}) = entries
BY DEF Visited

LEMMA MergedNothing ==
  ASSUME NEW T, NEW f, f \in [DOMAIN f -> T], NEW g, DOMAIN g = {}
  PROVE  Api!Merged(f, g) = f
BY DEF Api!Merged

------------------------------------------------------------------------------
(* What the constants say of a request                                       *)

LEMMA JsonFacts ==
  ASSUME NEW r \in Request, r.factory = "json"
  PROVE  /\ BlobsOf(r) = {r.json}
         /\ IF r.json.is = "tokenizer"
            THEN r.json.vocab \in PartialMap(Token, U32) /\ IsFiniteSet(DOMAIN r.json.vocab)
            ELSE r.json.is \in Unreadable \cup {"not_json", "panics"}
<1>1. r.json \in JsonBlob
  BY DEF Request, JsonRequest, BpeRequest
<1> QED
  BY <1>1, FactoryAssumption DEF BlobsOf

LEMMA BpeFacts ==
  ASSUME NEW r \in Request, r.factory = "bpe"
  PROVE  /\ BlobsOf(r) = {r.bpe.vocab, r.bpe.merges, r.bpe.added}
         /\ IsEntries(r.bpe.vocab)
         /\ IsEntries(r.bpe.added)
         /\ IF r.bpe.merges.is = "lines" THEN r.bpe.merges.lines \in Seq(Seq(Token))
            ELSE r.bpe.merges.is \in Unreadable
<1>1. r.bpe \in BpeInput
  BY DEF Request, JsonRequest, BpeRequest
<1> QED
  BY <1>1, FactoryAssumption DEF BlobsOf

LEMMA FactoryOfRequest ==
  ASSUME NEW r \in Request PROVE r.factory \in {"json", "bpe"} /\ r # NoRequest
BY DEF Request, JsonRequest, BpeRequest, NoRequest

\* What the first blob is says which factory is at work.
LEMMA FirstBlob ==
  ASSUME NEW r \in Request
  PROVE  LET first == IF r.factory = "json" THEN r.json ELSE r.bpe.vocab
         IN /\ first.is \in {"tokenizer", "panics"} => r.factory = "json"
            /\ first.is = "object" => r.factory = "bpe"
<1>1. CASE r.factory = "json"
  BY <1>1, JsonFacts DEF Unreadable
<1>2. CASE r.factory = "bpe"
  BY <1>2, BpeFacts DEF IsEntries, Unreadable, Malformed
<1> QED BY <1>1, <1>2, FactoryOfRequest

------------------------------------------------------------------------------
(* What the memory operators preserve                                        *)

Boxed == Content \ {Free}
MemoryType == heap \in [Addr -> Content] /\ cell \in [Cell -> Addr \cup {NULL}]

\* Cells that are not in ks keep their pointers and what these lead to.
Kept(ks) ==
  \A k \in Cell \ ks :
    cell'[k] = cell[k] /\ (cell[k] # NULL => heap'[cell[k]] = heap[cell[k]])

\* Allocating into an empty cell gives that cell an address of its own.
LEMMA AllocateSafe ==
  ASSUME MemoryType, MemoryInv, WrapperInv,
         NEW k \in Cell, cell[k] = NULL,
         NEW content \in Boxed,
         content.is = "wrapper" => content.vocab_r \in Inverses(content.vocab),
         Allocate(k, content)
  PROVE  /\ MemoryType' /\ MemoryInv' /\ WrapperInv'
         /\ Kept({k})
         /\ cell'[k] # NULL /\ heap'[cell'[k]] = content
<1>1. PICK a \in Addr : /\ heap[a] = Free
                        /\ heap' = [heap EXCEPT ![a] = content]
                        /\ cell' = [cell EXCEPT ![k] = a]
  BY DEF Allocate
<1> USE ClientAssumption
<1>2. content \in Content /\ content # Free
  BY DEF Boxed
<1>3. MemoryType'
  BY <1>1, <1>2 DEF MemoryType
<1>4. cell'[k] = a /\ a # NULL /\ heap'[a] = content
  BY <1>1 DEF MemoryType
<1>5. \A l \in Cell : l # k => cell'[l] = cell[l] /\ cell[l] # a
  BY <1>1 DEF MemoryType, MemoryInv, NotDangling
<1>6. \A b \in Addr : b # a => heap'[b] = heap[b]
  BY <1>1 DEF MemoryType
<1>7. \A l \in Cell : cell[l] # NULL => cell[l] \in Addr
  BY DEF MemoryType
<1>8. Kept({k})
  BY <1>5, <1>6, <1>7 DEF Kept
<1>9. NotLeaked'
  BY <1>4, <1>5, <1>6 DEF MemoryInv, NotLeaked
<1>10. NotDangling'
  BY <1>2, <1>4, <1>5, <1>6, <1>7 DEF MemoryInv, NotDangling
<1>11. NotShared'
  BY <1>4, <1>5 DEF MemoryInv, NotShared
<1>12. WrapperInv'
  BY <1>4, <1>6 DEF WrapperInv
<1> QED
  BY <1>3, <1>4, <1>8, <1>9, <1>10, <1>11, <1>12 DEF MemoryInv

\* Moving a pointer into an empty cell leaves one owner.
LEMMA MoveSafe ==
  ASSUME MemoryType, MemoryInv, WrapperInv,
         NEW from \in Cell, NEW to \in Cell, from # to, cell[to] = NULL,
         Move(from, to)
  PROVE  /\ MemoryType' /\ MemoryInv' /\ WrapperInv'
         /\ Kept({from, to})
         /\ cell'[from] = NULL /\ cell'[to] = cell[from]
<1> USE ClientAssumption
<1>1. heap' = heap /\ cell' = [cell EXCEPT ![to] = cell[from], ![from] = NULL]
  BY DEF Move
<1>2. MemoryType'
  BY <1>1 DEF MemoryType
<1>3. cell'[from] = NULL /\ cell'[to] = cell[from]
  BY <1>1 DEF MemoryType
<1>4. \A l \in Cell \ {from, to} : cell'[l] = cell[l]
  BY <1>1 DEF MemoryType
<1>5. NotLeaked'
  BY <1>1, <1>3, <1>4 DEF MemoryInv, NotLeaked, MemoryType
<1>6. NotDangling'
  BY <1>1, <1>3, <1>4 DEF MemoryInv, NotDangling
<1>7. NotShared'
  BY <1>3, <1>4 DEF MemoryInv, NotShared
<1>8. WrapperInv'
  BY <1>1 DEF WrapperInv
<1> QED
  BY <1>1, <1>2, <1>3, <1>4, <1>5, <1>6, <1>7, <1>8 DEF MemoryInv, Kept

\* Destructors free what their cells own and nothing else.
LEMMA FreeSafe ==
  ASSUME MemoryType, MemoryInv, WrapperInv,
         NEW ks \in SUBSET Cell, FreeCells(ks)
  PROVE  /\ MemoryType' /\ MemoryInv' /\ WrapperInv'
         /\ Kept(ks)
         /\ \A k \in ks : cell'[k] = NULL
<1> USE ClientAssumption
<1>1. /\ heap' = [a \in Addr |-> IF \E k \in ks : cell[k] = a THEN Free ELSE heap[a]]
      /\ cell' = [k \in Cell |-> IF k \in ks THEN NULL ELSE cell[k]]
  BY DEF FreeCells
<1>2. MemoryType'
  BY <1>1 DEF MemoryType, Content
<1>3. \A k \in ks : cell'[k] = NULL
  BY <1>1
<1>4. \A l \in Cell \ ks : cell'[l] = cell[l]
  BY <1>1
<1>5. \A l \in Cell : cell[l] # NULL => cell[l] \in Addr
  BY DEF MemoryType
<1>6. \A l \in Cell \ ks : cell[l] # NULL => heap'[cell[l]] = heap[cell[l]]
  BY <1>1, <1>5 DEF MemoryInv, NotShared
<1>7. \A a \in Addr : heap'[a] # Free => heap'[a] = heap[a] /\ ~(\E k \in ks : cell[k] = a)
  BY <1>1
<1>8. NotLeaked'
  BY <1>4, <1>7 DEF MemoryInv, NotLeaked
<1>9. NotDangling'
  BY <1>3, <1>4, <1>6 DEF MemoryInv, NotDangling
<1>10. NotShared'
  BY <1>3, <1>4 DEF MemoryInv, NotShared
<1>11. WrapperInv'
  <2>1. Free.is # "wrapper"
    BY DEF Free
  <2> QED
    BY <1>1, <2>1 DEF WrapperInv
<1> QED
  BY <1>2, <1>3, <1>4, <1>6, <1>8, <1>9, <1>10, <1>11 DEF MemoryInv, Kept

------------------------------------------------------------------------------
(* A step of one client leaves the others alone                              *)

LocalsType ==
  /\ pc \in [Client -> PC]
  /\ request \in [Client -> Request \cup {NoRequest}]
  /\ vocab \in [Client -> PartialMap(Token, U32)]
  /\ todo \in [Client -> SUBSET Token]
  /\ merges \in [Client -> Seq(Seq(Token))]
  /\ lines \in [Client -> Seq(Seq(Token))]
  /\ status \in [Client -> {"Ok", "InvalidArgument", "Internal"}]
  /\ outcome \in [Client -> Outcome]

LEMMA TypeParts == TypeOK <=> MemoryType /\ LocalsType
BY DEF TypeOK, MemoryType, LocalsType

CellsOf(c) == {c} \X (Local \cup {"tokenizer"})

OthersKept(c) ==
  /\ Kept(CellsOf(c))
  /\ \A d \in Client \ {c} : /\ pc'[d] = pc[d]
                             /\ request'[d] = request[d]
                             /\ vocab'[d] = vocab[d]
                             /\ todo'[d] = todo[d]
                             /\ status'[d] = status[d]

\* What is known of a client survives a step of another one.
LEMMA OthersSafe ==
  ASSUME NEW c \in Client, NEW d \in Client \ {c}, Reads(d), Owns(d), OthersKept(c)
  PROVE  Reads(d)' /\ Owns(d)'
<1>1. \A name \in Local \cup {"tokenizer"} :
        LET k == <<d, name>> IN
          k \in Cell \ CellsOf(c) /\ cell'[k] = cell[k]
            /\ (cell[k] # NULL => heap'[cell[k]] = heap[cell[k]])
  BY DEF OthersKept, Kept, CellsOf, Cell
<1>2. /\ pc'[d] = pc[d] /\ request'[d] = request[d] /\ vocab'[d] = vocab[d]
      /\ todo'[d] = todo[d] /\ status'[d] = status[d]
  BY DEF OthersKept
<1>3. Reads(d)'
  BY <1>2 DEF Reads
<1>4. Owns(d)'
  BY <1>1, <1>2 DEF Owns, Given, Local
<1> QED
  BY <1>3, <1>4

\* So a step has to be looked at for the client that takes it only.
LEMMA StepOfOne ==
  ASSUME IInv, NEW c \in Client, MemoryType', LocalsType', MemoryInv', WrapperInv',
         OthersKept(c), Reads(c)', Owns(c)'
  PROVE  IInv'
<1>1. \A d \in Client : Reads(d)' /\ Owns(d)'
  BY OthersSafe DEF IInv
<1>2. TypeOK'
  BY DEF TypeOK, MemoryType, LocalsType
<1> QED
  BY <1>1, <1>2 DEF IInv

Building == {"enter", "vocab", "added", "merges", "build"}

\* Nothing is owned while the C function reads its input.
LEMMA NothingOwned ==
  ASSUME IInv, NEW c \in Client, pc[c] \in Building
  PROVE  /\ \A name \in Local \cup {"tokenizer"} : <<c, name>> \in Cell /\ cell[<<c, name>>] = NULL
         /\ request[c] \in Request
BY DEF IInv, Owns, Reads, Building, Cell

\* Memory that a step does not touch.
LEMMA QuietMemory ==
  ASSUME IInv, UNCHANGED memory
  PROVE  MemoryType' /\ MemoryInv' /\ WrapperInv' /\ \A ks : Kept(ks)
<1>1. heap' = heap /\ cell' = cell
  BY DEF memory
<1> QED
  BY <1>1, TypeParts DEF IInv, MemoryType, MemoryInv, NotLeaked, NotDangling, NotShared, WrapperInv, Kept

LEMMA KeptMore ==
  ASSUME NEW ks, NEW ls, ks \subseteq ls, Kept(ks)
  PROVE  Kept(ls)
BY DEF Kept

------------------------------------------------------------------------------
(* The steps of the C functions                                              *)

\* A failure hands out a message, where there is a place for it, and no handle.
LEMMA FailSafe ==
  ASSUME IInv, NEW c \in Client, pc[c] \in Building,
         NEW code \in {"InvalidArgument", "Internal"}, Fail(c, code),
         UNCHANGED <<request, reading, outcome>>
  PROVE  IInv'
<1> USE NothingOwned
<1> DEFINE k == <<c, "message">>
<1>0. k \in Cell /\ cell[k] = NULL /\ k \in CellsOf(c)
  BY DEF Local, CellsOf
<1>1. MemoryType /\ MemoryInv /\ WrapperInv /\ LocalsType
  BY TypeParts DEF IInv
<1>2. /\ status' = [status EXCEPT ![c] = code]
      /\ pc' = [pc EXCEPT ![c] = "returned"]
  BY DEF Fail, GoTo
<1>3. /\ request' = request /\ vocab' = vocab /\ todo' = todo
      /\ merges' = merges /\ lines' = lines /\ outcome' = outcome
  BY DEF reading
<1>4. /\ MemoryType' /\ MemoryInv' /\ WrapperInv' /\ Kept(CellsOf(c))
      /\ Given(c, "error") <=> cell'[k] # NULL
      /\ \A name \in {"handle", "owner", "tokenizer"} : cell'[<<c, name>>] = NULL
  <2>1. CASE Given(c, "error")
    <3>1. Allocate(k, Message(code))
      BY <2>1 DEF Fail
    <3>2. Message(code) \in Boxed /\ Message(code).is # "wrapper"
      BY DEF Message, Boxed, Content, Free
    <3>3. MemoryType' /\ MemoryInv' /\ WrapperInv' /\ Kept({k}) /\ cell'[k] # NULL
      <4> HIDE DEF k
      <4> QED BY <1>0, <1>1, <3>1, <3>2, AllocateSafe
    <3>4. \A name \in {"handle", "owner", "tokenizer"} : cell'[<<c, name>>] = NULL
      BY <3>3 DEF Kept, Local
    <3>5. Kept(CellsOf(c))
      BY <3>3, <1>0, KeptMore
    <3> QED BY <2>1, <3>3, <3>4, <3>5
  <2>2. CASE ~Given(c, "error")
    <3>1. UNCHANGED memory
      BY <2>2 DEF Fail
    <3>2. cell' = cell
      BY <3>1 DEF memory
    <3> QED BY <1>0, <2>2, <3>1, <3>2, QuietMemory DEF Local
  <2> QED BY <2>1, <2>2
<1>5. LocalsType'
  BY <1>1, <1>2, <1>3 DEF LocalsType, PC
<1>6. OthersKept(c)
  BY <1>1, <1>2, <1>3, <1>4 DEF OthersKept, LocalsType
<1>7. pc'[c] = "returned" /\ status'[c] = code
  BY <1>1, <1>2 DEF LocalsType
<1>8. Reads(c)'
  BY <1>3, <1>7 DEF Reads
<1>9. Owns(c)'
  BY <1>3, <1>4, <1>7 DEF Owns, Given
<1> QED
  BY <1>1, <1>4, <1>5, <1>6, <1>8, <1>9, StepOfOne

\* A step that reads on: memory and status stay, the vocabulary read is right.
LEMMA ReadOnSafe ==
  ASSUME IInv, NEW c \in Client, pc[c] \in Building,
         UNCHANGED <<memory, status, request, outcome>>,
         LocalsType', pc'[c] \in Building, Reads(c)',
         \A d \in Client \ {c} : /\ pc'[d] = pc[d]
                               /\ vocab'[d] = vocab[d]
                               /\ todo'[d] = todo[d]
  PROVE  IInv'
<1>1. MemoryType' /\ MemoryInv' /\ WrapperInv' /\ Kept(CellsOf(c))
  BY QuietMemory
<1>2. cell' = cell
  BY DEF memory
<1>3. Owns(c)'
  BY <1>2, NothingOwned DEF Owns, Building
<1>4. OthersKept(c)
  BY <1>1 DEF OthersKept
<1> QED
  BY <1>1, <1>3, <1>4, StepOfOne

\* Both functions up to the first parsed blob.
LEMMA EnterSafe ==
  ASSUME IInv, NEW c \in Client, Enter(c)
  PROVE  IInv'
<1> DEFINE r == request[c]
           first == IF r.factory = "json" THEN r.json ELSE r.bpe.vocab
           rejected == \/ ~Given(c, "handle")
                       \/ \E blob \in BlobsOf(r) : blob.is \in Unreadable
                       \/ first.is \notin {"tokenizer", "panics", "object"}
<1>1. pc[c] = "enter" /\ pc[c] \in Building /\ UNCHANGED <<request, merges, lines, outcome>>
  BY DEF Enter, Building
<1>2. r \in Request /\ vocab[c] = [t \in {} |-> 0]
  BY <1>1, NothingOwned DEF IInv, Reads
<1>3. LocalsType
  BY TypeParts DEF IInv
<1>4. \/ Fail(c, "InvalidArgument") /\ UNCHANGED <<vocab, todo>>
      \/ Fail(c, "Internal") /\ UNCHANGED <<vocab, todo>>
      \/ /\ ~rejected /\ r.factory = "json" /\ first.is = "tokenizer"
         /\ vocab' = [vocab EXCEPT ![c] = first.vocab]
         /\ pc' = [pc EXCEPT ![c] = "build"]
         /\ UNCHANGED <<memory, todo, status>>
      \/ /\ ~rejected /\ r.factory = "bpe"
         /\ todo' = [todo EXCEPT ![c] = DOMAIN first.entries]
         /\ pc' = [pc EXCEPT ![c] = "vocab"]
         /\ UNCHANGED <<memory, vocab, status>>
  <2>1. /\ first.is = "tokenizer" => r.factory = "json"
        /\ first.is = "object" => r.factory = "bpe"
    BY <1>2, FirstBlob
  <2> QED BY <2>1 DEF Enter, GoTo
<1>5. CASE \E code \in {"InvalidArgument", "Internal"} : Fail(c, code) /\ UNCHANGED <<vocab, todo>>
  BY <1>1, <1>5, FailSafe DEF reading
<1>6. CASE /\ ~rejected /\ r.factory = "json" /\ first.is = "tokenizer"
           /\ vocab' = [vocab EXCEPT ![c] = first.vocab]
           /\ pc' = [pc EXCEPT ![c] = "build"]
           /\ UNCHANGED <<memory, todo, status>>
  <2>1. r.json.is = "tokenizer" /\ r.json.vocab \in PartialMap(Token, U32)
    BY <1>2, <1>6, JsonFacts DEF Unreadable
  <2>2. LocalsType'
    BY <1>1, <1>3, <1>6, <2>1 DEF LocalsType, PC
  <2>3. pc'[c] = "build" /\ request'[c] = r
    BY <1>1, <1>3, <1>6 DEF LocalsType
  <2>4. Reads(c)'
    BY <1>2, <1>6, <2>3 DEF Reads
  <2>5. \A d \in Client \ {c} : pc'[d] = pc[d] /\ vocab'[d] = vocab[d] /\ todo'[d] = todo[d]
    BY <1>3, <1>6 DEF LocalsType
  <2> QED
    BY <1>1, <1>6, <2>2, <2>3, <2>4, <2>5, ReadOnSafe DEF Building
<1>7. CASE /\ ~rejected /\ r.factory = "bpe"
           /\ todo' = [todo EXCEPT ![c] = DOMAIN first.entries]
           /\ pc' = [pc EXCEPT ![c] = "vocab"]
           /\ UNCHANGED <<memory, vocab, status>>
  <2>1. /\ r.bpe.vocab.is = "object" /\ DOMAIN r.bpe.vocab.entries \subseteq Token
        /\ r.bpe.added.is \notin Unreadable /\ r.bpe.merges.is = "lines"
    BY <1>2, <1>7, BpeFacts DEF IsEntries, Unreadable, Malformed
  <2>2. first.entries = r.bpe.vocab.entries
    BY <1>7
  <2> HIDE DEF first, rejected
  <2>3. LocalsType'
    BY <1>1, <1>3, <1>7, <2>1, <2>2 DEF LocalsType, PC
  <2>4. /\ pc'[c] = "vocab" /\ request'[c] = r /\ vocab'[c] = [t \in {} |-> 0]
        /\ todo'[c] = DOMAIN r.bpe.vocab.entries
    BY <1>1, <1>2, <1>3, <1>7, <2>2 DEF LocalsType
  <2>5. vocab'[c] = Visited(r.bpe.vocab.entries, DOMAIN r.bpe.vocab.entries)
    BY <2>4 DEF Visited
  <2>6. Reads(c)'
    BY <1>2, <1>7, <2>1, <2>4, <2>5 DEF Reads
  <2>7. \A d \in Client \ {c} : pc'[d] = pc[d] /\ vocab'[d] = vocab[d] /\ todo'[d] = todo[d]
    BY <1>3, <1>7 DEF LocalsType
  <2> QED
    BY <1>1, <1>7, <2>3, <2>4, <2>6, <2>7, ReadOnSafe DEF Building
<1> QED
  BY <1>4, <1>5, <1>6, <1>7

\* A round that inserts an entry keeps everything but the vocabulary of its client.
LEMMA InsertSafe ==
  ASSUME IInv, NEW c \in Client, pc[c] \in Building,
         NEW t \in Token, NEW id \in U32, Insert(c, t, id),
         UNCHANGED <<request, merges, lines, outcome>>
  PROVE  /\ LocalsType'
         /\ pc' = pc /\ vocab'[c] = Put(vocab[c], t, id) /\ todo'[c] = todo[c] \ {t}
         /\ Reads(c)' => IInv'
<1>1. LocalsType
  BY TypeParts DEF IInv
<1>2. /\ vocab' = [vocab EXCEPT ![c] = Put(@, t, id)]
      /\ todo' = [todo EXCEPT ![c] = @ \ {t}]
      /\ pc' = pc /\ status' = status /\ UNCHANGED memory
  BY DEF Insert
<1>3. Put(vocab[c], t, id) \in PartialMap(Token, U32)
  BY <1>1, PutType DEF LocalsType
<1>4. LocalsType'
  BY <1>1, <1>2, <1>3 DEF LocalsType
<1>5. vocab'[c] = Put(vocab[c], t, id) /\ todo'[c] = todo[c] \ {t}
  BY <1>1, <1>2 DEF LocalsType
<1>6. \A d \in Client \ {c} : vocab'[d] = vocab[d] /\ todo'[d] = todo[d]
  BY <1>1, <1>2 DEF LocalsType
<1> QED
  BY <1>2, <1>4, <1>5, <1>6, ReadOnSafe

\* A loop over the vocabulary that visits every entry builds the vocabulary.
LEMMA ReadVocabSafe ==
  ASSUME IInv, NEW c \in Client, ReadVocab(c)
  PROVE  IInv'
<1> DEFINE r == request[c]
           entries == r.bpe.vocab.entries
           added == r.bpe.added
<1>1. pc[c] = "vocab" /\ pc[c] \in Building /\ UNCHANGED <<request, merges, outcome>>
  BY DEF ReadVocab, Building
<1>2. /\ r \in Request /\ r.factory = "bpe" /\ r.bpe.merges.is = "lines"
      /\ r.bpe.vocab.is = "object" /\ added.is \notin Unreadable
      /\ todo[c] \subseteq DOMAIN entries /\ vocab[c] = Visited(entries, todo[c])
  BY <1>1 DEF IInv, Reads
<1>3. LocalsType
  BY TypeParts DEF IInv
<1>4. /\ DOMAIN entries \subseteq Token /\ entries \in [DOMAIN entries -> Nat \cup {NotUnsigned}]
      /\ IsEntries(added) /\ r.bpe.merges.lines \in Seq(Seq(Token))
  BY <1>2, BpeFacts DEF IsEntries
<1>5. request'[c] = r
  BY <1>1
<1>6. CASE InsertEntry(c, entries) /\ UNCHANGED lines
  <2>1. PICK t \in todo[c] : IF entries[t] \in U32 THEN Insert(c, t, entries[t]) ELSE Refuse(c)
    BY <1>6 DEF InsertEntry
  <2>2. CASE entries[t] \in U32
    <3>1. t \in Token
      BY <1>2, <1>4
    <3>2. /\ pc' = pc /\ vocab'[c] = Put(vocab[c], t, entries[t])
          /\ todo'[c] = todo[c] \ {t}
          /\ Reads(c)' => IInv'
      BY <1>1, <1>6, <2>1, <2>2, <3>1, InsertSafe
    <3>3. vocab'[c] = Visited(entries, todo'[c])
      BY <1>2, <3>2, PutVisited
    <3> QED
      BY <1>1, <1>2, <1>5, <3>2, <3>3 DEF Reads
  <2>3. CASE entries[t] \notin U32
    BY <1>1, <1>6, <2>1, <2>3, FailSafe DEF Refuse, reading
  <2> QED BY <2>2, <2>3
<1>7. CASE todo[c] = {} /\ added.is = "empty" /\ lines' = [lines EXCEPT ![c] = r.bpe.merges.lines]
           /\ GoTo(c, "merges") /\ UNCHANGED <<memory, vocab, todo, status>>
  <2>1. LocalsType'
    BY <1>1, <1>3, <1>4, <1>7 DEF LocalsType, PC, GoTo
  <2>2. pc'[c] = "merges" /\ \A d \in Client \ {c} : pc'[d] = pc[d]
    BY <1>3, <1>7 DEF LocalsType, GoTo
  <2>3. vocab[c] = entries
    BY <1>2, <1>4, <1>7, VisitedAll
  <2>4. Api!Entries(r.bpe.vocab) = entries /\ DOMAIN Api!Entries(added) = {}
    BY <1>2, <1>7 DEF Api!Entries
  <2>5. vocab[c] = MergedOf(r)
    BY <1>4, <2>3, <2>4, MergedNothing DEF MergedOf
  <2>6. Reads(c)'
    BY <1>2, <1>5, <1>7, <2>2, <2>5 DEF Reads
  <2> QED
    BY <1>1, <1>7, <2>1, <2>2, <2>6, ReadOnSafe DEF Building
<1>8. CASE Fail(c, "InvalidArgument") /\ UNCHANGED <<vocab, todo, lines>>
  BY <1>1, <1>8, FailSafe DEF reading
<1>9. CASE todo[c] = {} /\ added.is = "object" /\ todo' = [todo EXCEPT ![c] = DOMAIN added.entries]
           /\ GoTo(c, "added") /\ UNCHANGED <<memory, vocab, status, lines>>
  <2>1. DOMAIN added.entries \subseteq Token
    BY <1>4, <1>9 DEF IsEntries
  <2>2. LocalsType'
    BY <1>1, <1>3, <1>9, <2>1 DEF LocalsType, PC, GoTo
  <2>3. /\ pc'[c] = "added" /\ todo'[c] = DOMAIN added.entries
        /\ \A d \in Client \ {c} : pc'[d] = pc[d] /\ todo'[d] = todo[d]
    BY <1>3, <1>9 DEF LocalsType, GoTo
  <2>4. vocab[c] = entries
    BY <1>2, <1>4, <1>9, VisitedAll
  <2>5. DOMAIN Visited(added.entries, DOMAIN added.entries) = {}
    BY DEF Visited
  <2>6. vocab[c] = Api!Merged(entries, Visited(added.entries, DOMAIN added.entries))
    BY <1>4, <2>4, <2>5, MergedNothing
  <2>7. Reads(c)'
    BY <1>2, <1>5, <1>9, <2>3, <2>6 DEF Reads
  <2> QED
    BY <1>1, <1>9, <2>2, <2>3, <2>7, ReadOnSafe DEF Building
<1> QED
  BY <1>6, <1>7, <1>8, <1>9 DEF ReadVocab

\* A loop over the added tokens that visits every entry overrides the vocabulary.
LEMMA ReadAddedSafe ==
  ASSUME IInv, NEW c \in Client, ReadAdded(c)
  PROVE  IInv'
<1> DEFINE r == request[c]
           entries == r.bpe.added.entries
<1>1. pc[c] = "added" /\ pc[c] \in Building /\ UNCHANGED <<request, merges, outcome>>
  BY DEF ReadAdded, Building
<1>2. /\ r \in Request /\ r.factory = "bpe" /\ r.bpe.merges.is = "lines"
      /\ r.bpe.vocab.is = "object" /\ r.bpe.added.is = "object"
      /\ todo[c] \subseteq DOMAIN entries
      /\ vocab[c] = Api!Merged(r.bpe.vocab.entries, Visited(entries, todo[c]))
  BY <1>1 DEF IInv, Reads
<1>3. LocalsType
  BY TypeParts DEF IInv
<1>4. /\ DOMAIN entries \subseteq Token /\ entries \in [DOMAIN entries -> Nat \cup {NotUnsigned}]
      /\ r.bpe.merges.lines \in Seq(Seq(Token))
  BY <1>2, BpeFacts DEF IsEntries
<1>5. request'[c] = r
  BY <1>1
<1>6. CASE InsertEntry(c, entries) /\ UNCHANGED lines
  <2>1. PICK t \in todo[c] : IF entries[t] \in U32 THEN Insert(c, t, entries[t]) ELSE Refuse(c)
    BY <1>6 DEF InsertEntry
  <2>2. CASE entries[t] \in U32
    <3>1. t \in Token
      BY <1>2, <1>4
    <3>2. /\ pc' = pc /\ vocab'[c] = Put(vocab[c], t, entries[t])
          /\ todo'[c] = todo[c] \ {t}
          /\ Reads(c)' => IInv'
      BY <1>1, <1>6, <2>1, <2>2, <3>1, InsertSafe
    <3>3. vocab'[c] = Api!Merged(r.bpe.vocab.entries, Visited(entries, todo'[c]))
      BY <1>2, <3>2, PutMerged
    <3> QED
      BY <1>1, <1>2, <1>5, <3>2, <3>3 DEF Reads
  <2>3. CASE entries[t] \notin U32
    BY <1>1, <1>6, <2>1, <2>3, FailSafe DEF Refuse, reading
  <2> QED BY <2>2, <2>3
<1>7. CASE todo[c] = {} /\ lines' = [lines EXCEPT ![c] = r.bpe.merges.lines]
           /\ GoTo(c, "merges") /\ UNCHANGED <<memory, vocab, todo, status>>
  <2>1. LocalsType'
    BY <1>1, <1>3, <1>4, <1>7 DEF LocalsType, PC, GoTo
  <2>2. pc'[c] = "merges" /\ \A d \in Client \ {c} : pc'[d] = pc[d]
    BY <1>3, <1>7 DEF LocalsType, GoTo
  <2>3. vocab[c] = Api!Merged(r.bpe.vocab.entries, entries)
    BY <1>2, <1>4, <1>7, VisitedAll
  <2>4. vocab[c] = MergedOf(r)
    BY <1>2, <2>3 DEF MergedOf, Api!Entries
  <2>5. Reads(c)'
    BY <1>2, <1>5, <1>7, <2>2, <2>4 DEF Reads
  <2> QED
    BY <1>1, <1>7, <2>1, <2>2, <2>5, ReadOnSafe DEF Building
<1> QED
  BY <1>6, <1>7 DEF ReadAdded

\* A line of merges does not concern the vocabulary.
LEMMA ReadMergeSafe ==
  ASSUME IInv, NEW c \in Client, ReadMerge(c)
  PROVE  IInv'
<1>1. pc[c] = "merges" /\ pc[c] \in Building /\ UNCHANGED <<request, vocab, todo, outcome>>
  BY DEF ReadMerge, Building
<1>2. LocalsType
  BY TypeParts DEF IInv
<1>3. Reads(c)
  BY DEF IInv
<1>4. CASE lines[c] = << >> /\ GoTo(c, "build") /\ UNCHANGED <<memory, merges, lines, status>>
  <2>1. LocalsType' /\ pc'[c] = "build" /\ \A d \in Client \ {c} : pc'[d] = pc[d]
    BY <1>1, <1>2, <1>4 DEF LocalsType, PC, GoTo
  <2>2. Reads(c)'
    BY <1>1, <1>3, <2>1 DEF Reads
  <2> QED
    BY <1>1, <1>4, <2>1, <2>2, ReadOnSafe DEF Building
<1>5. CASE /\ lines[c] # << >>
           /\ merges' = [merges EXCEPT ![c] = IF IsComment(Head(lines[c])) THEN @
                                              ELSE Append(@, Head(lines[c]))]
           /\ lines' = [lines EXCEPT ![c] = Tail(@)]
           /\ UNCHANGED <<memory, pc, status>>
  <2>1. merges[c] \in Seq(Seq(Token)) /\ lines[c] \in Seq(Seq(Token))
    BY <1>2 DEF LocalsType
  <2>2. Head(lines[c]) \in Seq(Token) /\ Tail(lines[c]) \in Seq(Seq(Token))
    BY <1>5, <2>1, HeadTailProperties
  <2>3. Append(merges[c], Head(lines[c])) \in Seq(Seq(Token))
    BY <2>1, <2>2, AppendProperties
  <2>4. LocalsType'
    BY <1>1, <1>2, <1>5, <2>2, <2>3 DEF LocalsType
  <2>5. Reads(c)'
    BY <1>1, <1>3, <1>5 DEF Reads
  <2> QED
    BY <1>1, <1>5, <2>4, <2>5, ReadOnSafe
<1>6. CASE Fail(c, "InvalidArgument") /\ UNCHANGED <<merges, lines>>
  BY <1>1, <1>6, FailSafe DEF reading
<1> QED
  BY <1>4, <1>5, <1>6 DEF ReadMerge

\* The reverse table of a typed vocabulary is typed.
LEMMA InverseType ==
  ASSUME NEW v \in PartialMap(Token, U32), NEW v_r \in Inverses(v)
  PROVE  v_r \in PartialMap(U32, Token)
<1>1. DOMAIN v \subseteq Token /\ v \in [DOMAIN v -> U32]
  BY PartialMapFacts
<1>2. v_r \in [{v[t] : t \in DOMAIN v} -> DOMAIN v]
  BY DEF Inverses
<1>3. DOMAIN v_r \subseteq U32 /\ v_r \in [DOMAIN v_r -> Token]
  BY <1>1, <1>2
<1> QED
  BY <1>3, PartialMapFacts

\* The box of a new tokenizer, or the message of a caught panic.
LEMMA BuildSafe ==
  ASSUME IInv, NEW c \in Client, Build(c)
  PROVE  IInv'
<1> USE NothingOwned
<1> DEFINE k == <<c, "handle">>
<1>1. pc[c] = "build" /\ pc[c] \in Building /\ UNCHANGED <<request, reading, outcome>>
  BY DEF Build, Building
<1>2. CASE Fail(c, "Internal")
  BY <1>1, <1>2, FailSafe
<1>3. CASE HandOver(c)
  <2>1. /\ status' = [status EXCEPT ![c] = "Ok"]
        /\ pc' = [pc EXCEPT ![c] = "returned"]
    BY <1>3 DEF HandOver, GoTo
  <2>2. PICK vocab_r \in Inverses(vocab[c]) :
          Allocate(k, Wrapper(vocab[c], vocab_r, merges[c]))
    BY <1>3 DEF HandOver
  <2>3. MemoryType /\ MemoryInv /\ WrapperInv /\ LocalsType
    BY TypeParts DEF IInv
  <2>4. vocab[c] \in PartialMap(Token, U32) /\ merges[c] \in Seq(Seq(Token))
    BY <2>3 DEF LocalsType
  <2> DEFINE w == Wrapper(vocab[c], vocab_r, merges[c])
  <2>5. w \in Boxed /\ w.vocab_r \in Inverses(w.vocab) /\ w.vocab = vocab[c]
    <3>1. vocab_r \in PartialMap(U32, Token)
      BY <2>4, InverseType
    <3>2. w.is = "wrapper" /\ Free.is = "free"
      BY DEF Wrapper, Free
    <3>3. w \in [is: {"wrapper"}, vocab: PartialMap(Token, U32),
                 vocab_r: PartialMap(U32, Token), merges: Seq(Seq(Token))]
      BY <2>4, <3>1 DEF Wrapper
    <3>4. w.vocab_r = vocab_r /\ w.vocab = vocab[c]
      BY DEF Wrapper
    <3> HIDE DEF w
    <3> QED BY <3>2, <3>3, <3>4 DEF Boxed, Content
  <2>6. k \in Cell /\ cell[k] = NULL /\ k \in CellsOf(c)
    BY <1>1 DEF Local, CellsOf
  <2>7. /\ MemoryType' /\ MemoryInv' /\ WrapperInv' /\ Kept({k})
        /\ cell'[k] # NULL /\ heap'[cell'[k]] = w
    <3>1. Allocate(k, w)
      BY <2>2
    <3> HIDE DEF k, w
    <3> QED BY <2>3, <2>5, <2>6, <3>1, AllocateSafe
  <2>8. /\ request' = request /\ vocab' = vocab /\ todo' = todo
        /\ merges' = merges /\ lines' = lines /\ outcome' = outcome
    BY <1>1 DEF reading
  <2>9. LocalsType'
    BY <2>1, <2>3, <2>8 DEF LocalsType, PC
  <2>10. OthersKept(c)
    <3>1. Kept(CellsOf(c))
      BY <2>6, <2>7, KeptMore
    <3> QED BY <2>1, <2>3, <2>8, <3>1 DEF OthersKept, LocalsType
  <2>11. pc'[c] = "returned" /\ status'[c] = "Ok"
    BY <2>1, <2>3 DEF LocalsType
  <2>12. Reads(c) /\ Reads(c)'
    BY <1>1, <2>8, <2>11 DEF IInv, Reads
  <2>13. \A name \in {"message", "owner", "tokenizer"} : cell'[<<c, name>>] = NULL
    BY <1>1, <2>7 DEF Kept, Local
  <2>14. Owns(c)'
    BY <2>7, <2>11, <2>13 DEF Owns
  <2> QED
    BY <2>7, <2>9, <2>10, <2>12, <2>14, StepOfOne
<1> QED
  BY <1>2, <1>3 DEF Build

------------------------------------------------------------------------------
(* The steps of the caller                                                   *)

\* The C++ factory, or a C caller, once the C function has returned.
LEMMA CallerStepSafe ==
  ASSUME IInv, NEW c \in Client, pc[c] \in {"returned", "construct"},
         UNCHANGED <<request, reading, status>>,
         NEW step \in {"construct", "unwind"}, GoTo(c, step),
         outcome' = outcome \/ \E answer \in Outcome : outcome' = [outcome EXCEPT ![c] = answer],
         MemoryType', MemoryInv', WrapperInv', Kept(CellsOf(c)), Owns(c)'
  PROVE  IInv'
<1>1. LocalsType
  BY TypeParts DEF IInv
<1>2. /\ request' = request /\ vocab' = vocab /\ todo' = todo
      /\ merges' = merges /\ lines' = lines /\ status' = status
  BY DEF reading
<1>3. LocalsType' /\ pc'[c] = step /\ \A d \in Client \ {c} : pc'[d] = pc[d]
  BY <1>1, <1>2 DEF LocalsType, GoTo, PC
<1>4. Reads(c)'
  BY <1>2, <1>3 DEF IInv, Reads
<1>5. OthersKept(c)
  BY <1>2, <1>3 DEF OthersKept
<1> QED
  BY <1>3, <1>4, <1>5, StepOfOne

LEMMA OwnCells ==
  ASSUME NEW c \in Client, NEW name \in Local \cup {"tokenizer"}
  PROVE  <<c, name>> \in Cell /\ <<c, name>> \in CellsOf(c)
BY DEF Cell, CellsOf

LEMMA CheckStatusSafe ==
  ASSUME IInv, NEW c \in Client, CheckStatus(c)
  PROVE  IInv'
<1> USE OwnCells
<1>1. pc[c] = "returned" /\ UNCHANGED <<request, reading, status>>
  BY DEF CheckStatus
<1>2. MemoryType /\ MemoryInv /\ WrapperInv /\ LocalsType
  BY TypeParts DEF IInv
<1>3. /\ cell[<<c, "owner">>] = NULL /\ cell[<<c, "tokenizer">>] = NULL
      /\ (status[c] = "Ok") <=> (cell[<<c, "handle">>] # NULL)
      /\ (status[c] # "Ok" /\ Given(c, "error")) <=> (cell[<<c, "message">>] # NULL)
  BY <1>1 DEF IInv, Owns
<1>4. CASE status[c] # "Ok" /\ Finish(c, Throw(status[c])) /\ UNCHANGED memory
  <2>1. status[c] \in {"InvalidArgument", "Internal"}
    BY <1>2, <1>4 DEF LocalsType
  <2>2. Throw(status[c]) \in Outcome
    BY <2>1 DEF Outcome
  <2>3. MemoryType' /\ MemoryInv' /\ WrapperInv' /\ Kept(CellsOf(c)) /\ cell' = cell
    BY <1>4, QuietMemory DEF memory
  <2>4. GoTo(c, "unwind") /\ pc'[c] = "unwind"
    BY <1>2, <1>4 DEF Finish, GoTo, LocalsType
  <2>5. Owns(c)'
    BY <1>3, <1>4, <2>3, <2>4 DEF Owns
  <2> QED
    BY <1>1, <1>4, <2>2, <2>3, <2>4, <2>5, CallerStepSafe DEF Finish
<1>5. CASE /\ status[c] = "Ok" /\ Move(<<c, "handle">>, <<c, "owner">>)
           /\ GoTo(c, "construct") /\ UNCHANGED outcome
  <2>1. /\ MemoryType' /\ MemoryInv' /\ WrapperInv'
        /\ Kept({<<c, "handle">>, <<c, "owner">>}) /\ cell'[<<c, "handle">>] = NULL
    BY <1>2, <1>3, <1>5, MoveSafe DEF Local
  <2>2. {<<c, "handle">>, <<c, "owner">>} \subseteq CellsOf(c)
    BY DEF Local
  <2>3. Kept(CellsOf(c))
    BY <2>1, <2>2, KeptMore
  <2>4. cell'[<<c, "message">>] = NULL /\ cell'[<<c, "tokenizer">>] = NULL
    BY <1>3, <1>5, <2>1 DEF Kept, Local
  <2>5. pc'[c] = "construct"
    BY <1>2, <1>5 DEF GoTo, LocalsType
  <2>6. Owns(c)'
    BY <2>1, <2>4, <2>5 DEF Owns
  <2> QED
    BY <1>1, <1>5, <2>1, <2>3, <2>6, CallerStepSafe
<1>6. CASE status[c] = "Ok" /\ Move(<<c, "handle">>, <<c, "tokenizer">>) /\ Finish(c, Loaded)
  <2>1. /\ MemoryType' /\ MemoryInv' /\ WrapperInv'
        /\ Kept({<<c, "handle">>, <<c, "tokenizer">>}) /\ cell'[<<c, "handle">>] = NULL
    BY <1>2, <1>3, <1>6, MoveSafe DEF Local
  <2>2. {<<c, "handle">>, <<c, "tokenizer">>} \subseteq CellsOf(c)
    BY DEF Local
  <2>3. Kept(CellsOf(c))
    BY <2>1, <2>2, KeptMore
  <2>4. GoTo(c, "unwind") /\ pc'[c] = "unwind"
    BY <1>2, <1>6 DEF Finish, GoTo, LocalsType
  <2>5. Owns(c)'
    BY <2>1, <2>4 DEF Owns
  <2>6. Loaded \in Outcome
    BY DEF Outcome
  <2> QED
    BY <1>1, <1>6, <2>1, <2>3, <2>4, <2>5, <2>6, CallerStepSafe DEF Finish
<1> QED
  BY <1>4, <1>5, <1>6 DEF CheckStatus

\* The object takes the handle from HandleOwner in one step: nothing can throw
\* between the construction and release().
LEMMA ConstructSafe ==
  ASSUME IInv, NEW c \in Client, Construct(c)
  PROVE  IInv'
<1> USE OwnCells
<1>1. /\ pc[c] = "construct" /\ UNCHANGED <<request, reading, status>>
      /\ Move(<<c, "owner">>, <<c, "tokenizer">>) /\ Finish(c, Loaded)
  BY DEF Construct
<1>2. MemoryType /\ MemoryInv /\ WrapperInv /\ LocalsType
  BY TypeParts DEF IInv
<1>3. cell[<<c, "handle">>] = NULL /\ cell[<<c, "tokenizer">>] = NULL
  BY <1>1 DEF IInv, Owns
<1>4. /\ MemoryType' /\ MemoryInv' /\ WrapperInv'
      /\ Kept({<<c, "owner">>, <<c, "tokenizer">>})
  BY <1>1, <1>2, <1>3, MoveSafe DEF Local
<1>5. {<<c, "owner">>, <<c, "tokenizer">>} \subseteq CellsOf(c)
  BY DEF Local
<1>6. Kept(CellsOf(c)) /\ cell'[<<c, "handle">>] = NULL
  BY <1>3, <1>4, <1>5, KeptMore DEF Kept, Local
<1>7. GoTo(c, "unwind") /\ pc'[c] = "unwind"
  BY <1>1, <1>2 DEF Finish, GoTo, LocalsType
<1>8. Owns(c)'
  BY <1>6, <1>7 DEF Owns
<1>9. Loaded \in Outcome
  BY DEF Outcome
<1> QED
  BY <1>1, <1>4, <1>6, <1>7, <1>8, <1>9, CallerStepSafe DEF Finish

LEMMA OutOfMemorySafe ==
  ASSUME IInv, NEW c \in Client, OutOfMemory(c)
  PROVE  IInv'
<1>1. /\ pc[c] = "construct" \/ (pc[c] = "returned" /\ status[c] # "Ok")
      /\ Finish(c, Throw("bad_alloc")) /\ UNCHANGED <<memory, request, reading, status>>
  BY DEF OutOfMemory
<1>2. cell[<<c, "handle">>] = NULL
  BY <1>1 DEF IInv, Owns
<1>3. MemoryType' /\ MemoryInv' /\ WrapperInv' /\ Kept(CellsOf(c)) /\ cell' = cell
  BY <1>1, QuietMemory DEF memory
<1>4. GoTo(c, "unwind") /\ pc'[c] = "unwind"
  BY <1>1, TypeParts DEF IInv, Finish, GoTo, LocalsType
<1>5. Owns(c)'
  BY <1>2, <1>3, <1>4 DEF Owns
<1>6. Throw("bad_alloc") \in Outcome
  BY DEF Outcome
<1> QED
  BY <1>1, <1>3, <1>4, <1>5, <1>6, CallerStepSafe DEF Finish

\* The destructors on the way out free what the call still owns.
LEMMA UnwindSafe ==
  ASSUME IInv, NEW c \in Client, Unwind(c)
  PROVE  IInv'
<1> USE OwnCells
<1> DEFINE ks == {<<c, "owner">>, <<c, "message">>}
<1>1. /\ pc[c] = "unwind" /\ FreeCells(ks) /\ GoTo(c, "done") /\ Forget(c)
      /\ request' = request /\ outcome' = outcome
  BY DEF Unwind
<1>2. MemoryType /\ MemoryInv /\ WrapperInv /\ LocalsType
  BY TypeParts DEF IInv
<1>3. request[c] \in Request /\ cell[<<c, "handle">>] = NULL
  BY <1>1 DEF IInv, Reads, Owns
<1>4. ks \subseteq CellsOf(c) /\ ks \in SUBSET Cell
  BY DEF Local
<1>5. MemoryType' /\ MemoryInv' /\ WrapperInv' /\ Kept(ks) /\ \A k \in ks : cell'[k] = NULL
  BY <1>1, <1>2, <1>4, FreeSafe
<1>6. Kept(CellsOf(c)) /\ \A name \in Local : cell'[<<c, name>>] = NULL
  <2>1. Kept(CellsOf(c))
    BY <1>4, <1>5, KeptMore
  <2>2. cell'[<<c, "handle">>] = NULL
    <3>1. <<c, "handle">> \in Cell \ ks
      BY DEF Local
    <3> QED BY <1>3, <1>5, <3>1 DEF Kept
  <2>3. cell'[<<c, "owner">>] = NULL /\ cell'[<<c, "message">>] = NULL
    BY <1>5
  <2> QED BY <2>1, <2>2, <2>3 DEF Local
<1>7. [t \in {} |-> 0] \in PartialMap(Token, U32)
  <2>1. DOMAIN [t \in {} |-> 0] \subseteq Token /\ [t \in {} |-> 0] \in [DOMAIN [t \in {} |-> 0] -> U32]
    OBVIOUS
  <2> QED BY <2>1, PartialMapFacts
<1>8. << >> \in Seq(Seq(Token))
  BY EmptySeq
<1>9. LocalsType'
  BY <1>1, <1>2, <1>7, <1>8 DEF LocalsType, PC, GoTo, Forget
<1>10. pc'[c] = "done" /\ vocab'[c] = [t \in {} |-> 0] /\ request'[c] \in Request
  BY <1>1, <1>2, <1>3 DEF LocalsType, GoTo, Forget
<1>11. Reads(c)' /\ Owns(c)'
  BY <1>6, <1>10 DEF Reads, Owns
<1>12. OthersKept(c)
  BY <1>1, <1>2, <1>6 DEF OthersKept, LocalsType, GoTo, Forget
<1> QED
  BY <1>5, <1>9, <1>11, <1>12, StepOfOne

LEMMA ReturnSafe ==
  ASSUME IInv, NEW c \in Client, Return(c)
  PROVE  IInv'
<1>1. /\ pc[c] = "done" /\ GoTo(c, "idle") /\ UNCHANGED <<memory, reading, status>>
      /\ request' = [request EXCEPT ![c] = NoRequest]
      /\ outcome' = [outcome EXCEPT ![c] = NoOutcome]
  BY DEF Return
<1>2. LocalsType
  BY TypeParts DEF IInv
<1>3. MemoryType' /\ MemoryInv' /\ WrapperInv' /\ Kept(CellsOf(c)) /\ cell' = cell
  BY <1>1, QuietMemory DEF memory
<1>4. LocalsType'
  BY <1>1, <1>2 DEF LocalsType, PC, GoTo, Outcome, reading
<1>5. pc'[c] = "idle" /\ vocab'[c] = vocab[c]
  BY <1>1, <1>2 DEF LocalsType, GoTo, reading
<1>6. Reads(c)' /\ Owns(c)'
  BY <1>1, <1>3, <1>5 DEF IInv, Reads, Owns
<1>7. OthersKept(c)
  BY <1>1, <1>2, <1>3 DEF OthersKept, LocalsType, GoTo, reading
<1> QED
  BY <1>3, <1>4, <1>6, <1>7, StepOfOne

LEMMA LoadSafe ==
  ASSUME IInv, NEW c \in Client, NEW r \in Request, Load(c, r)
  PROVE  IInv'
<1>1. /\ pc[c] = "idle" /\ cell[<<c, "tokenizer">>] = NULL /\ GoTo(c, "enter")
      /\ request' = [request EXCEPT ![c] = r]
      /\ UNCHANGED <<memory, reading, status, outcome>>
  BY DEF Load
<1>2. LocalsType
  BY TypeParts DEF IInv
<1>3. MemoryType' /\ MemoryInv' /\ WrapperInv' /\ Kept(CellsOf(c)) /\ cell' = cell
  BY <1>1, QuietMemory DEF memory
<1>4. LocalsType'
  BY <1>1, <1>2 DEF LocalsType, PC, GoTo, reading
<1>5. pc'[c] = "enter" /\ vocab'[c] = vocab[c] /\ request'[c] = r
  BY <1>1, <1>2 DEF LocalsType, GoTo, reading
<1>6. Reads(c)' /\ Owns(c)'
  BY <1>1, <1>3, <1>5 DEF IInv, Reads, Owns
<1>7. OthersKept(c)
  BY <1>1, <1>2, <1>3 DEF OthersKept, LocalsType, GoTo, reading
<1> QED
  BY <1>3, <1>4, <1>6, <1>7, StepOfOne

LEMMA DropSafe ==
  ASSUME IInv, NEW c \in Client, Drop(c)
  PROVE  IInv'
<1> USE OwnCells
<1> DEFINE ks == {<<c, "tokenizer">>}
<1>1. /\ pc[c] = "idle" /\ FreeCells(ks)
      /\ UNCHANGED <<pc, request, reading, status, outcome>>
  BY DEF Drop
<1>2. MemoryType /\ MemoryInv /\ WrapperInv /\ LocalsType
  BY TypeParts DEF IInv
<1>3. ks \subseteq CellsOf(c) /\ ks \in SUBSET Cell
  OBVIOUS
<1>4. MemoryType' /\ MemoryInv' /\ WrapperInv' /\ Kept(ks)
  BY <1>1, <1>2, <1>3, FreeSafe
<1>5. Kept(CellsOf(c)) /\ \A name \in Local : cell'[<<c, name>>] = cell[<<c, name>>]
  BY <1>3, <1>4, KeptMore DEF Kept, Local
<1>6. LocalsType'
  BY <1>1, <1>2 DEF LocalsType, reading
<1>7. Reads(c)' /\ Owns(c)'
  BY <1>1, <1>5 DEF IInv, Reads, Owns, reading
<1>8. OthersKept(c)
  BY <1>1, <1>5 DEF OthersKept, reading
<1> QED
  BY <1>4, <1>6, <1>7, <1>8, StepOfOne

------------------------------------------------------------------------------
(* The theorems                                                              *)

LEMMA InitSafe == Init => IInv
<1> SUFFICES ASSUME Init PROVE IInv
  OBVIOUS
<1> USE ClientAssumption
<1>1. [t \in {} |-> 0] \in PartialMap(Token, U32)
  <2>1. DOMAIN [t \in {} |-> 0] \subseteq Token /\ [t \in {} |-> 0] \in [DOMAIN [t \in {} |-> 0] -> U32]
    OBVIOUS
  <2> QED BY <2>1, PartialMapFacts
<1>2. << >> \in Seq(Seq(Token))
  BY EmptySeq
<1>3. LocalsType
  BY <1>1, <1>2 DEF Init, LocalsType, PC, Outcome
<1>4. MemoryType
  BY DEF Init, MemoryType, Content
<1>5. MemoryInv /\ WrapperInv
  BY DEF Init, MemoryInv, NotLeaked, NotDangling, NotShared, WrapperInv, Free
<1>6. \A c \in Client : Reads(c) /\ Owns(c)
  BY DEF Init, Reads, Owns, Cell
<1> QED
  BY <1>3, <1>4, <1>5, <1>6, TypeParts DEF IInv

\* Every step of the factories keeps the inductive invariant.
LEMMA StepSafe == IInv /\ [Next]_vars => IInv'
<1> SUFFICES ASSUME IInv, [Next]_vars PROVE IInv'
  OBVIOUS
<1>1. CASE UNCHANGED vars
  <2>1. /\ heap' = heap /\ cell' = cell /\ pc' = pc /\ request' = request /\ vocab' = vocab
        /\ todo' = todo /\ merges' = merges /\ lines' = lines /\ status' = status
        /\ outcome' = outcome
    BY <1>1 DEF vars
  <2>2. MemoryType' /\ MemoryInv' /\ WrapperInv'
    BY <2>1, QuietMemory DEF memory
  <2>3. LocalsType'
    BY <2>1, TypeParts DEF IInv, LocalsType
  <2>4. ASSUME NEW c \in Client PROVE Reads(c)' /\ Owns(c)'
    <3>1. Reads(c) /\ Owns(c)
      BY DEF IInv
    <3>2. Reads(c)'
      BY <2>1, <3>1 DEF Reads
    <3>3. Owns(c)'
      BY <2>1, <3>1 DEF Owns, Given
    <3> QED BY <3>2, <3>3
  <2>5. TypeOK'
    BY <2>2, <2>3 DEF TypeOK, MemoryType, LocalsType
  <2> QED BY <2>2, <2>4, <2>5 DEF IInv
<1>2. ASSUME NEW c \in Client, NEW r \in Request, Load(c, r) PROVE IInv'
  BY <1>2, LoadSafe
<1>3. ASSUME NEW c \in Client, InCall(c) PROVE IInv'
  <2>1. CASE Enter(c)        BY <2>1, EnterSafe
  <2>2. CASE ReadVocab(c)    BY <2>2, ReadVocabSafe
  <2>3. CASE ReadAdded(c)    BY <2>3, ReadAddedSafe
  <2>4. CASE ReadMerge(c)    BY <2>4, ReadMergeSafe
  <2>5. CASE Build(c)        BY <2>5, BuildSafe
  <2>6. CASE CheckStatus(c)  BY <2>6, CheckStatusSafe
  <2>7. CASE Construct(c)    BY <2>7, ConstructSafe
  <2>8. CASE OutOfMemory(c)  BY <2>8, OutOfMemorySafe
  <2>9. CASE Unwind(c)       BY <2>9, UnwindSafe
  <2>10. CASE Return(c)      BY <2>10, ReturnSafe
  <2> QED
    BY <1>3, <2>1, <2>2, <2>3, <2>4, <2>5, <2>6, <2>7, <2>8, <2>9, <2>10 DEF InCall
<1>4. ASSUME NEW c \in Client, Drop(c) PROVE IInv'
  BY <1>4, DropSafe
<1> QED
  BY <1>1, <1>2, <1>3, <1>4 DEF Next

\* The inductive invariant holds in every reachable state of the factories.
THEOREM InvariantHolds == Spec => []IInv
BY InitSafe, StepSafe, PTL DEF Spec

\* Every variable of HFFactory keeps its type: what crosses the ABI is a typed
\* box, whatever blobs are passed and whichever step of a factory fails.
THEOREM TypeCorrect == Spec => []TypeOK
<1>1. IInv => TypeOK
  BY DEF IInv
<1> QED
  BY InvariantHolds, <1>1, PTL

\* The factories neither leak nor free twice: every box has one owner, and a
\* factory that has returned has handed over or freed all that it owned.
THEOREM OwnershipSafe == Spec => []OwnedOnce
<1>1. IInv => OwnedOnce
  BY DEF IInv, OwnedOnce, MemoryInv, NotAbandoned, Owns
<1> QED
  BY InvariantHolds, <1>1, PTL

\* The status that a C factory returns says which out parameter holds something.
THEOREM StatusContract == Spec => []StatusTellsOwnership
<1>1. IInv => StatusTellsOwnership
  BY DEF IInv, StatusTellsOwnership, Owns
<1> QED
  BY InvariantHolds, <1>1, PTL

\* An int32_t that wraps to a u32 wraps to one that int32_t does not hold.
LEMMA WrapFacts ==
  /\ I32Max \in Nat /\ U32Max = 2 * I32Max + 1
  /\ \A id \in Int32 : /\ AsU32(id) \in U32
                       /\ IF id >= 0 THEN AsU32(id) = id ELSE AsU32(id) > I32Max
<1>1. U32Max \in Nat /\ U32Max % 2 = 1
  BY FactoryAssumption
<1>2. I32Max \in Nat /\ U32Max = 2 * I32Max + 1
  BY <1>1 DEF I32Max
<1> HIDE DEF I32Max
<1>3. \A id \in Int32 : id \in Int /\ -I32Max - 1 <= id /\ id <= I32Max
  BY <1>2 DEF Int32
<1> QED
  BY <1>1, <1>2, <1>3 DEF AsU32, U32

\* TokenToId and IdToToken of any tokenizer a factory makes invert each other on
\* the ids that int32_t holds, for every width of the two integer types; an id
\* below zero names at most a token that TokenToId calls unknown.
THEOREM LookupsCorrect == Spec => []LookupsAgree
<1>1. ASSUME IInv, NEW p \in Addr, heap[p].is = "wrapper"
      PROVE  LET w == heap[p] IN
               /\ \A id \in Int32 : IdToToken(w, id) # NoToken =>
                    TokenToId(w, IdToToken(w, id)) = IF id >= 0 THEN id ELSE -1
               /\ \A t \in DOMAIN w.vocab : FitsInt32(w.vocab[t]) =>
                    IdToToken(w, w.vocab[t]) # NoToken
  <2> DEFINE w == heap[p]
  <2>1. w.vocab \in PartialMap(Token, U32) /\ w.vocab_r \in Inverses(w.vocab)
    BY <1>1 DEF IInv, TypeOK, WrapperInv, Content, Free, Message
  <2>2. DOMAIN w.vocab \subseteq Token /\ w.vocab \in [DOMAIN w.vocab -> U32]
    BY <2>1, PartialMapFacts
  <2>3. /\ w.vocab_r \in [{w.vocab[t] : t \in DOMAIN w.vocab} -> DOMAIN w.vocab]
        /\ \A n \in DOMAIN w.vocab_r : w.vocab[w.vocab_r[n]] = n
    BY <2>1 DEF Inverses
  <2> HIDE DEF w
  <2>4. ASSUME NEW id \in Int32, IdToToken(w, id) # NoToken
        PROVE  TokenToId(w, IdToToken(w, id)) = IF id >= 0 THEN id ELSE -1
    <3>1. AsU32(id) \in DOMAIN w.vocab_r /\ IdToToken(w, id) = w.vocab_r[AsU32(id)]
      BY <2>4 DEF IdToToken
    <3>2. IdToToken(w, id) \in DOMAIN w.vocab /\ w.vocab[IdToToken(w, id)] = AsU32(id)
      BY <2>3, <3>1
    <3>3. CASE id >= 0
      <4>1. AsU32(id) = id /\ id <= I32Max
        BY <3>3, WrapFacts DEF Int32
      <4> QED BY <3>2, <3>3, <4>1 DEF TokenToId
    <3>4. CASE ~(id >= 0)
      <4>1. ~(AsU32(id) <= I32Max)
        BY <3>4, WrapFacts DEF U32
      <4> QED BY <3>2, <3>4, <4>1 DEF TokenToId
    <3> QED BY <3>3, <3>4
  <2>5. ASSUME NEW t \in DOMAIN w.vocab, FitsInt32(w.vocab[t])
        PROVE  IdToToken(w, w.vocab[t]) # NoToken
    <3>1. w.vocab[t] \in U32 /\ AsU32(w.vocab[t]) = w.vocab[t]
      BY <2>2 DEF AsU32, U32
    <3>2. w.vocab[t] \in DOMAIN w.vocab_r
      BY <2>3
    <3>3. IdToToken(w, w.vocab[t]) \in Token
      BY <2>2, <2>3, <3>1, <3>2 DEF IdToToken
    <3> QED BY <3>3, FactoryAssumption
  <2> QED
    BY <2>4, <2>5 DEF w
<1>2. IInv => LookupsAgree
  BY <1>1 DEF LookupsAgree
<1> QED
  BY InvariantHolds, <1>2, PTL
==============================================================================

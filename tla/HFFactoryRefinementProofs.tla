----------------------- MODULE HFFactoryRefinementProofs -----------------------
(***************************************************************************)
(* HFFactory implements FactoryApi, for any number of clients and any      *)
(* blobs: on its way through a factory, a call knows that what it has read *)
(* is no reason to refuse its input, and at the end it holds the tokenizer *)
(* that its own request describes or owes the error that it deserves.      *)
(***************************************************************************)
EXTENDS HFFactoryProofs, FoldProofs, FiniteSetTheorems

------------------------------------------------------------------------------
(* What a client in the middle of a load knows                               *)

\* Reading got past the first checks.
Readable(r) == "handle" \in r.given /\ \A blob \in BlobsOf(r) : blob.is \notin Unreadable

\* The library reads the JSON of a request for a JSON tokenizer.
Parses(r) == r.factory = "json" => r.json.is = "tokenizer"

\* The ids of the entries that a loop has visited are ids.
IdsFit(entries, rest) == \A t \in DOMAIN entries \ rest : entries[t] \in U32

\* A line that is no reason to refuse the input.
GoodLine(line) == IsComment(line) \/ Len(line) = 2

\* The first n lines are read, and their merges kept.
LinesRead(c, n) ==
  LET all == request[c].bpe.merges.lines IN
    /\ lines[c] = SubSeq(all, n + 1, Len(all))
    /\ merges[c] = Api!MergesOf(SubSeq(all, 1, n))
    /\ \A i \in 1..n : GoodLine(all[i])

\* The box that a cell of c leads to is the tokenizer of its request.
Holds(c, name) ==
  LET p == cell[<<c, name>>] IN
    /\ p # NULL
    /\ heap[p].is = "wrapper"
    /\ [vocab |-> heap[p].vocab, merges |-> heap[p].merges] = Api!Described(request[c])

\* No client has two boxes.
OneBox(c) ==
  \A m, n \in Local \cup {"tokenizer"} :
    cell[<<c, m>>] # NULL /\ cell[<<c, n>>] # NULL => m = n

\* What the call of a client has found out about its input, and what it owes.
Promises(c) ==
  LET r == request[c] IN
    /\ pc[c] \in {"idle", "enter", "vocab", "added", "done"} => merges[c] = << >>
    /\ pc[c] \in {"vocab", "added", "merges"} => Readable(r)
    /\ pc[c] = "vocab" => IdsFit(r.bpe.vocab.entries, todo[c])
    /\ pc[c] = "added" => /\ IdsFit(r.bpe.vocab.entries, {})
                          /\ IdsFit(r.bpe.added.entries, todo[c])
    /\ pc[c] = "merges" =>
         /\ r.bpe.vocab.is = "object" /\ r.bpe.added.is \in {"object", "empty"}
         /\ IdsFit(Api!Entries(r.bpe.vocab), {}) /\ IdsFit(Api!Entries(r.bpe.added), {})
         /\ \E n \in 0..Len(r.bpe.merges.lines) : LinesRead(c, n)
    /\ pc[c] = "build" =>
         /\ ~Api!Faulty(r) /\ Parses(r)
         /\ Api!Described(r) = [vocab |-> vocab[c], merges |-> merges[c]]
    /\ pc[c] = "returned" =>
         IF status[c] = "Ok" THEN Loaded \in Api!Answers(c, r) /\ Holds(c, "handle")
         ELSE Throw(status[c]) \in Api!Answers(c, r)
    /\ pc[c] = "construct" => Loaded \in Api!Answers(c, r) /\ Holds(c, "owner")
    /\ pc[c] = "unwind" =>
         /\ OneBox(c)
         /\ outcome[c] \in Api!Answers(c, r)
         /\ IF outcome[c] = Loaded THEN Holds(c, "tokenizer")
            ELSE cell[<<c, "tokenizer">>] = NULL

\* Every tokenizer there is was made from the input of some request, and the cell
\* for a tokenizer leads to nothing else.
MadeOf(r, w) ==
  /\ ~Api!Faulty(r) /\ ~Api!Panics(r)
  /\ Api!Described(r) = [vocab |-> w.vocab, merges |-> w.merges]
TokenizerKnown(c) == LET p == cell[<<c, "tokenizer">>] IN p # NULL => heap[p].is = "wrapper"
MadeFromInput ==
  /\ \A p \in Addr : heap[p].is = "wrapper" => \E r \in Request : MadeOf(r, heap[p])
  /\ \A c \in Client : TokenizerKnown(c)

RInv == MadeFromInput /\ \A c \in Client : Promises(c)


------------------------------------------------------------------------------
(* Merges and answers                                                        *)

\* FactoryApi speaks of the same data.
LEMMA SameData ==
  /\ Api!U32 = U32 /\ Api!Unreadable = Unreadable /\ Api!Malformed = Malformed
  /\ \A line : Api!IsComment(line) = IsComment(line)
  /\ \A v, m : Api!MergesKnown(v, m) = MergesKnown(v, m)
  /\ \A r : Api!BlobsOf(r) = BlobsOf(r)
  /\ Api!Loaded = Loaded /\ \A code : Api!Throw(code) = Throw(code)
BY DEF Api!U32, U32, Api!Unreadable, Unreadable, Api!Malformed, Malformed,
       Api!IsComment, IsComment, Api!MergesKnown, MergesKnown, Api!BlobsOf, BlobsOf,
       Api!Loaded, Loaded, Api!Throw, Throw

Kept1(line) == IF IsComment(line) THEN << >> ELSE <<line>>

LEMMA SameFold == \A s : Api!FlattenSeq(s) = FlattenSeq(s)
BY DEF Api!FlattenSeq, FlattenSeq

\* MergesOf as the fold that FoldProofs is about.
LEMMA MergesFold ==
  ASSUME NEW ls
  PROVE  Api!MergesOf(ls) = FlattenSeq([i \in 1..Len(ls) |-> Kept1(ls[i])])
BY SameData, SameFold DEF Api!MergesOf, Kept1

\* No lines, no merges.
LEMMA MergesOfNothing == Api!MergesOf(<< >>) = << >>
<1>1. [i \in 1..Len(<< >>) |-> Kept1(<< >>[i])] = << >>
  BY EmptySeq
<1> QED BY <1>1, MergesFold, FlattenEmpty

\* One more line is one more merge, or none.
LEMMA MergesOfAppend ==
  ASSUME NEW ls \in Seq(Seq(Token)), NEW line \in Seq(Token)
  PROVE  Api!MergesOf(Append(ls, line)) = Api!MergesOf(ls) \o Kept1(line)
<1> DEFINE n == Len(ls)
           more == Append(ls, line)
           s == [i \in 1..n |-> Kept1(ls[i])]
           t == [i \in 1..Len(more) |-> Kept1(more[i])]
<1>1. /\ n \in Nat /\ Len(more) = n + 1 /\ more[n + 1] = line
      /\ \A i \in 1..n : more[i] = ls[i] /\ ls[i] \in Seq(Token)
  BY LenProperties, AppendProperties, ElementOfSeq
<1>2. \A l \in Seq(Token) : Kept1(l) \in Seq(Seq(Token))
  BY DEF Kept1
<1>3. s \in Seq(Seq(Seq(Token))) /\ Len(s) = n
  BY <1>1, <1>2
<1>4. t = Append(s, Kept1(line))
  <2>1. Len(t) = n + 1 /\ DOMAIN t = 1..n + 1
    BY <1>1
  <2> HIDE DEF more
  <2> QED BY <1>1, <1>3, <2>1
<1>5. FlattenSeq(t) = FlattenSeq(s) \o Kept1(line)
  <2> HIDE DEF s, t
  <2> QED BY <1>2, <1>3, <1>4, FlattenAppend
<1> QED BY <1>5, MergesFold

\* The first n + 1 lines.
LEMMA NextLine ==
  ASSUME NEW all \in Seq(Seq(Token)), NEW n \in 0..Len(all) - 1
  PROVE  /\ Head(SubSeq(all, n + 1, Len(all))) = all[n + 1]
         /\ Tail(SubSeq(all, n + 1, Len(all))) = SubSeq(all, n + 2, Len(all))
         /\ all[n + 1] \in Seq(Token)
         /\ Api!MergesOf(SubSeq(all, 1, n + 1))
              = Api!MergesOf(SubSeq(all, 1, n)) \o Kept1(all[n + 1])
<1>1. Len(all) \in Nat /\ n + 1 \in 1..Len(all) /\ Len(all) \in n + 1..Len(all)
  BY LenProperties
<1>2. all[n + 1] \in Seq(Token)
  BY <1>1, ElementOfSeq
<1>3. SubSeq(all, 1, n) \in Seq(Seq(Token))
  <2>1. \A i \in 1..n : all[i] \in Seq(Token)
    BY <1>1, ElementOfSeq
  <2> QED BY <2>1, <1>1, SubSeqProperties
<1>4. SubSeq(all, 1, n + 1) = Append(SubSeq(all, 1, n), all[n + 1])
  <2>1. SubSeq(all, 1, n + 1) = SubSeq(all, 1, (n + 1) - 1) \o <<all[n + 1]>>
    BY <1>1, SubSeqRecursiveSecond
  <2>2. (n + 1) - 1 = n
    BY <1>1
  <2> QED BY <1>2, <1>3, <2>1, <2>2, AppendIsConcat
<1>5. (n + 1) + 1 = n + 2
  BY <1>1
<1> QED BY <1>1, <1>2, <1>3, <1>4, <1>5, HeadTailOfSubSeq, MergesOfAppend

\* The answers to a request, without the cases.
LEMMA AnswerFacts ==
  ASSUME NEW c \in Client, NEW r
  PROVE  /\ Api!Faulty(r) => Throw("InvalidArgument") \in Api!Answers(c, r)
         /\ ~Api!Faulty(r) =>
              IF Api!Panics(r) THEN Throw("Internal") \in Api!Answers(c, r)
              ELSE Loaded \in Api!Answers(c, r)
         /\ c \in CppClient => Throw("bad_alloc") \in Api!Answers(c, r)
         /\ \A code : Throw(code) # Loaded
<1>1. \A code : Throw(code).tag # Loaded.tag
  BY DEF Throw, Loaded
<1> QED BY <1>1, SameData DEF Api!Answers

------------------------------------------------------------------------------
(* A step of one client leaves the others alone                              *)

\* What the others own and know is not touched, and a tokenizer that appears is
\* made from some input.
Footprint(c) ==
  /\ OthersKept(c)
  /\ \A d \in Client \ {c} :
       merges'[d] = merges[d] /\ lines'[d] = lines[d] /\ outcome'[d] = outcome[d]
NoStrangeBox ==
  \A p \in Addr : heap'[p].is = "wrapper" =>
    heap'[p] = heap[p] \/ \E r \in Request : MadeOf(r, heap'[p])

\* What a cell of another client leads to.
LEMMA OthersCells ==
  ASSUME NEW c \in Client, NEW d \in Client \ {c}, OthersKept(c),
         NEW name \in Local \cup {"tokenizer"}
  PROVE  LET k == <<d, name>> IN
           cell'[k] = cell[k] /\ (cell[k] # NULL => heap'[cell[k]] = heap[cell[k]])
<1>1. <<d, name>> \in Cell \ CellsOf(c)
  BY DEF Cell, CellsOf
<1> QED BY <1>1 DEF OthersKept, Kept

LEMMA OthersPromise ==
  ASSUME RInv, NEW c \in Client, Footprint(c), NEW d \in Client \ {c}
  PROVE  Promises(d)' /\ TokenizerKnown(d)'
<1>1. Promises(d) /\ TokenizerKnown(d)
  BY DEF RInv, MadeFromInput, TokenizerKnown
<1>2. /\ pc'[d] = pc[d] /\ request'[d] = request[d] /\ vocab'[d] = vocab[d]
      /\ todo'[d] = todo[d] /\ status'[d] = status[d]
      /\ merges'[d] = merges[d] /\ lines'[d] = lines[d] /\ outcome'[d] = outcome[d]
  BY DEF Footprint, OthersKept
<1>3. \A name \in Local \cup {"tokenizer"} :
        LET k == <<d, name>> IN
          cell'[k] = cell[k] /\ (cell[k] # NULL => heap'[cell[k]] = heap[cell[k]])
  BY OthersCells DEF Footprint
<1>4. TokenizerKnown(d)'
  BY <1>1, <1>3 DEF TokenizerKnown
<1>5. \A name \in {"handle", "owner", "tokenizer"} : Holds(d, name) => Holds(d, name)'
  BY <1>2, <1>3 DEF Holds, Local
<1>6. \A n : LinesRead(d, n) => LinesRead(d, n)'
  BY <1>2 DEF LinesRead
<1>7. cell'[<<d, "tokenizer">>] = cell[<<d, "tokenizer">>]
  BY <1>3
<1>8. OneBox(d) => OneBox(d)'
  BY <1>3 DEF OneBox
<1> QED BY <1>1, <1>2, <1>4, <1>5, <1>6, <1>7, <1>8 DEF Promises

\* So a step has to be looked at for the client that takes it only.
LEMMA StepOfOneClient ==
  ASSUME RInv, NEW c \in Client, Footprint(c), NoStrangeBox, Promises(c)', TokenizerKnown(c)'
  PROVE  RInv'
<1>1. \A d \in Client : Promises(d)' /\ TokenizerKnown(d)'
  BY OthersPromise
<1>2. \A p \in Addr : heap'[p].is = "wrapper" => \E r \in Request : MadeOf(r, heap'[p])
  BY DEF NoStrangeBox, RInv, MadeFromInput
<1>3. MadeFromInput'
  BY <1>1, <1>2 DEF MadeFromInput, MadeOf
<1> QED BY <1>1, <1>3 DEF RInv

\* What the memory operators leave to the other clients.
LEMMA QuietFootprint ==
  ASSUME UNCHANGED memory
  PROVE  NoStrangeBox /\ cell' = cell /\ heap' = heap /\ \A c \in Client : Kept(CellsOf(c))
BY DEF memory, NoStrangeBox, Kept

LEMMA AllocateFootprint ==
  ASSUME IInv, NEW c \in Client, NEW k \in CellsOf(c), NEW content, Allocate(k, content)
  PROVE  /\ Kept(CellsOf(c))
         /\ cell'[k] # NULL /\ heap'[cell'[k]] = content
         /\ \A l \in Cell \ {k} : cell'[l] = cell[l]
         /\ \A p \in Addr : heap'[p] = heap[p] \/ heap'[p] = content
<1>1. PICK a \in Addr : /\ heap[a] = Free
                        /\ heap' = [heap EXCEPT ![a] = content]
                        /\ cell' = [cell EXCEPT ![k] = a]
  BY DEF Allocate
<1>2. MemoryType /\ NotDangling
  BY TypeParts DEF IInv, MemoryInv
<1>3. k \in Cell /\ a # NULL
  BY ClientAssumption DEF CellsOf, Cell
<1>4. \A l \in Cell : l # k => cell'[l] = cell[l] /\ cell[l] # a
  BY <1>1, <1>2, <1>3 DEF MemoryType, NotDangling
<1>5. \A l \in Cell : cell[l] # NULL => cell[l] \in Addr
  BY <1>2 DEF MemoryType
<1>6. \A b \in Addr : heap'[b] = IF b = a THEN content ELSE heap[b]
  BY <1>1, <1>2 DEF MemoryType
<1>7. Kept(CellsOf(c))
  BY <1>4, <1>5, <1>6 DEF Kept
<1>8. cell'[k] = a
  BY <1>1, <1>2, <1>3 DEF MemoryType
<1> QED BY <1>3, <1>4, <1>6, <1>7, <1>8

LEMMA MoveFootprint ==
  ASSUME IInv, NEW c \in Client, NEW from \in CellsOf(c), NEW to \in CellsOf(c), from # to,
         Move(from, to)
  PROVE  /\ Kept(CellsOf(c)) /\ NoStrangeBox /\ heap' = heap
         /\ cell'[to] = cell[from] /\ cell'[from] = NULL
         /\ \A l \in Cell \ {from, to} : cell'[l] = cell[l]
<1>1. heap' = heap /\ cell' = [cell EXCEPT ![to] = cell[from], ![from] = NULL]
  BY DEF Move
<1>2. cell \in [Cell -> Addr \cup {NULL}] /\ from \in Cell /\ to \in Cell
  BY DEF IInv, TypeOK, CellsOf, Cell
<1>3. \A l \in Cell \ {from, to} : cell'[l] = cell[l]
  BY <1>1, <1>2
<1> QED BY <1>1, <1>2, <1>3 DEF Kept, NoStrangeBox

LEMMA FreeFootprint ==
  ASSUME IInv, NEW c \in Client, NEW ks \in SUBSET CellsOf(c), FreeCells(ks)
  PROVE  /\ Kept(CellsOf(c)) /\ NoStrangeBox
         /\ \A k \in ks : cell'[k] = NULL
         /\ \A k \in Cell \ ks : cell'[k] = cell[k] /\ (cell[k] # NULL => heap'[cell[k]] = heap[cell[k]])
<1>1. MemoryType /\ MemoryInv /\ WrapperInv /\ ks \in SUBSET Cell
  BY TypeParts DEF IInv, CellsOf, Cell
<1>2. Kept(ks) /\ \A k \in ks : cell'[k] = NULL
  BY <1>1, FreeSafe
<1>3. Kept(CellsOf(c))
  BY <1>2, KeptMore
<1>4. NoStrangeBox
  <2>1. Free.is # "wrapper"
    BY DEF Free
  <2> QED BY <2>1 DEF FreeCells, NoStrangeBox
<1> QED BY <1>2, <1>3, <1>4 DEF Kept

------------------------------------------------------------------------------
(* How steps map                                                             *)

Maps == RInv' /\ (Api!Next \/ UNCHANGED Api!vars)

\* The tokenizers of the other clients, as FactoryApi sees them.
LEMMA OthersContents ==
  ASSUME NEW c \in Client, Footprint(c), NEW d \in Client \ {c}
  PROVE  /\ Contents(d)' = Contents(d)
         /\ Phase(d)' = Phase(d) /\ (pc'[d] = "done" <=> pc[d] = "done")
         /\ request'[d] = request[d] /\ outcome'[d] = outcome[d]
<1>1. /\ pc'[d] = pc[d] /\ request'[d] = request[d] /\ outcome'[d] = outcome[d]
  BY DEF Footprint, OthersKept
<1>2. LET k == <<d, "tokenizer">> IN
        cell'[k] = cell[k] /\ (cell[k] # NULL => heap'[cell[k]] = heap[cell[k]])
  BY OthersCells DEF Footprint
<1>3. Phase(d)' = Phase(d)
  BY <1>1 DEF Phase
<1>4. Contents(d)' = Contents(d)
  BY <1>2, <1>3 DEF Contents
<1> QED BY <1>1, <1>3, <1>4

\* A step in the middle of a load does not show.
LEMMA OnTheWay ==
  ASSUME RInv, NEW c \in Client, Footprint(c), NoStrangeBox, UNCHANGED request,
         pc[c] \notin {"idle", "done"}, pc'[c] \notin {"idle", "done"},
         Promises(c)', TokenizerKnown(c)'
  PROVE  Maps
<1>1. \A d \in Client : /\ Phase(d)' = Phase(d)
                        /\ Contents(d)' = Contents(d)
                        /\ pc'[d] = "done" <=> pc[d] = "done"
                        /\ pc[d] = "done" => outcome'[d] = outcome[d]
  <2>1. Phase(c) = "pending" /\ Phase(c)' = "pending"
    BY DEF Phase
  <2>2. Contents(c) = None /\ Contents(c)' = None
    BY <2>1 DEF Contents
  <2> QED BY <2>1, <2>2, OthersContents
<1>2. [d \in Client |-> Phase(d)]' = [d \in Client |-> Phase(d)]
  BY <1>1
<1>3. [d \in Client |-> Contents(d)]' = [d \in Client |-> Contents(d)]
  BY <1>1
<1>4. [d \in Client |-> IF pc[d] = "done" THEN outcome[d] ELSE NoOutcome]'
        = [d \in Client |-> IF pc[d] = "done" THEN outcome[d] ELSE NoOutcome]
  BY <1>1
<1>5. RInv'
  BY StepOfOneClient
<1> QED BY <1>2, <1>3, <1>4, <1>5 DEF Maps, Api!vars

\* A step that reads on: only what this client has read changes.
LEMMA ReadOnMaps ==
  ASSUME IInv, RInv, NEW c \in Client, pc[c] \in Building, pc'[c] \in Building,
         UNCHANGED <<memory, status, request, outcome>>,
         \A d \in Client \ {c} :
           /\ pc'[d] = pc[d] /\ vocab'[d] = vocab[d] /\ todo'[d] = todo[d]
           /\ merges'[d] = merges[d] /\ lines'[d] = lines[d],
         Promises(c)'
  PROVE  Maps
<1>1. NoStrangeBox /\ cell' = cell /\ heap' = heap /\ Kept(CellsOf(c))
  BY QuietFootprint
<1>2. Footprint(c)
  BY <1>1 DEF Footprint, OthersKept
<1>3. TokenizerKnown(c)'
  BY <1>1 DEF RInv, MadeFromInput, TokenizerKnown
<1>4. \A p \in Building : p \notin {"idle", "done"}
  BY DEF Building
<1> QED BY <1>1, <1>2, <1>3, <1>4, OnTheWay

\* A failure with an error that the input deserves.
LEMMA FailMaps ==
  ASSUME IInv, RInv, NEW c \in Client, pc[c] \in Building,
         NEW code \in {"InvalidArgument", "Internal"}, Fail(c, code),
         UNCHANGED <<request, reading, outcome>>,
         Throw(code) \in Api!Answers(c, request[c])
  PROVE  Maps
<1> DEFINE k == <<c, "message">>
<1>1. /\ LocalsType /\ cell[<<c, "tokenizer">>] = NULL
      /\ k \in CellsOf(c) /\ <<c, "tokenizer">> \in Cell \ {k}
  BY TypeParts, NothingOwned, OwnCells DEF IInv, Local
<1>2. /\ status' = [status EXCEPT ![c] = code]
      /\ pc' = [pc EXCEPT ![c] = "returned"]
  BY DEF Fail, GoTo
<1>3. /\ request' = request /\ vocab' = vocab /\ todo' = todo
      /\ merges' = merges /\ lines' = lines /\ outcome' = outcome
  BY DEF reading
<1>4. Kept(CellsOf(c)) /\ NoStrangeBox /\ cell'[<<c, "tokenizer">>] = NULL
  <2>1. CASE Given(c, "error")
    <3>1. Allocate(k, Message(code))
      BY <2>1 DEF Fail
    <3>2. Message(code).is # "wrapper"
      BY DEF Message
    <3> HIDE DEF k
    <3> QED BY <1>1, <3>1, <3>2, AllocateFootprint DEF NoStrangeBox
  <2>2. CASE ~Given(c, "error")
    BY <1>1, <2>2, QuietFootprint DEF Fail
  <2> QED BY <2>1, <2>2
<1>5. Footprint(c)
  BY <1>1, <1>2, <1>3, <1>4 DEF Footprint, OthersKept, LocalsType
<1>6. pc'[c] = "returned" /\ status'[c] = code /\ code # "Ok"
  BY <1>1, <1>2 DEF LocalsType
<1>7. Promises(c)'
  BY <1>3, <1>6 DEF Promises
<1>8. pc[c] \notin {"idle", "done"}
  BY DEF Building
<1> QED BY <1>3, <1>4, <1>5, <1>6, <1>7, <1>8, OnTheWay DEF TokenizerKnown

------------------------------------------------------------------------------
(* The steps of the C functions                                              *)

\* What the first checks refuse is at fault.
LEMMA EnterMaps ==
  ASSUME IInv, RInv, NEW c \in Client, Enter(c)
  PROVE  Maps
<1> DEFINE r == request[c]
           first == IF r.factory = "json" THEN r.json ELSE r.bpe.vocab
           rejected == \/ ~Given(c, "handle")
                       \/ \E blob \in BlobsOf(r) : blob.is \in Unreadable
                       \/ first.is \notin {"tokenizer", "panics", "object"}
<1>1. pc[c] = "enter" /\ pc[c] \in Building /\ UNCHANGED <<request, merges, lines, outcome>>
  BY DEF Enter, Building
<1>2. r \in Request /\ LocalsType /\ merges[c] = << >>
  BY <1>1, NothingOwned, TypeParts DEF IInv, RInv, Promises
<1>3. r.factory \in {"json", "bpe"}
  BY <1>2, FactoryOfRequest
<1>4. \/ rejected /\ Fail(c, "InvalidArgument") /\ UNCHANGED <<vocab, todo>>
      \/ ~rejected /\ first.is = "panics" /\ Fail(c, "Internal") /\ UNCHANGED <<vocab, todo>>
      \/ /\ ~rejected /\ r.factory = "json" /\ first.is = "tokenizer"
         /\ vocab' = [vocab EXCEPT ![c] = first.vocab]
         /\ pc' = [pc EXCEPT ![c] = "build"]
         /\ UNCHANGED <<memory, todo, status>>
      \/ /\ ~rejected /\ r.factory = "bpe"
         /\ todo' = [todo EXCEPT ![c] = DOMAIN first.entries]
         /\ pc' = [pc EXCEPT ![c] = "vocab"]
         /\ UNCHANGED <<memory, vocab, status>>
  <2>1. /\ first.is = "tokenizer" => r.factory = "json"
        /\ first.is = "object" => r.factory = "bpe"
    BY <1>2, FirstBlob
  <2> QED BY <2>1 DEF Enter, GoTo
<1>5. CASE rejected /\ Fail(c, "InvalidArgument") /\ UNCHANGED <<vocab, todo>>
  <2>1. Api!Faulty(r)
    <3>1. CASE ~Given(c, "handle")
      BY <3>1 DEF Given, Api!Faulty
    <3>2. CASE \E blob \in BlobsOf(r) : blob.is \in Unreadable
      BY <3>2, SameData DEF Api!Faulty
    <3>3. CASE first.is \notin {"tokenizer", "panics", "object"} /\ r.factory = "json"
      <4>1. r.json.is \in Unreadable \cup Malformed /\ r.json \in BlobsOf(r)
        BY <1>2, <3>3, JsonFacts DEF Malformed
      <4> QED BY <4>1, SameData DEF Api!Faulty
    <3>4. CASE first.is \notin {"tokenizer", "panics", "object"} /\ r.factory = "bpe"
      <4>1. /\ r.bpe.vocab.is \in Unreadable \cup Malformed \cup {"empty"}
            /\ r.bpe.vocab \in BlobsOf(r)
        BY <1>2, <3>4, BpeFacts DEF IsEntries
      <4> QED BY <3>4, <4>1, SameData DEF Api!Faulty
    <3> HIDE DEF first
    <3> QED BY <1>3, <1>5, <3>1, <3>2, <3>3, <3>4
  <2> QED BY <1>1, <1>5, <2>1, AnswerFacts, FailMaps DEF reading
<1>6. CASE /\ ~rejected /\ r.factory = "json" /\ first.is = "tokenizer"
           /\ vocab' = [vocab EXCEPT ![c] = first.vocab]
           /\ pc' = [pc EXCEPT ![c] = "build"]
           /\ UNCHANGED <<memory, todo, status>>
  <2>1. r.json.is = "tokenizer" /\ BlobsOf(r) = {r.json} /\ "handle" \in r.given
    BY <1>2, <1>6, JsonFacts DEF Unreadable, Given
  <2>2. ~Api!Faulty(r)
    BY <1>6, <2>1, SameData DEF Api!Faulty, Unreadable, Malformed
  <2>3. Api!Described(r) = [vocab |-> r.json.vocab, merges |-> << >>]
    BY <1>6 DEF Api!Described
  <2>4. pc'[c] = "build" /\ vocab'[c] = r.json.vocab /\ merges'[c] = << >> /\ request'[c] = r
    BY <1>1, <1>2, <1>6 DEF LocalsType
  <2>5. Promises(c)'
    BY <2>1, <2>2, <2>3, <2>4 DEF Promises, Parses
  <2>6. \A d \in Client \ {c} : pc'[d] = pc[d] /\ vocab'[d] = vocab[d]
    BY <1>2, <1>6 DEF LocalsType
  <2> QED BY <1>1, <1>6, <2>4, <2>5, <2>6, ReadOnMaps DEF Building
<1>7. CASE /\ ~rejected /\ r.factory = "bpe"
           /\ todo' = [todo EXCEPT ![c] = DOMAIN first.entries]
           /\ pc' = [pc EXCEPT ![c] = "vocab"]
           /\ UNCHANGED <<memory, vocab, status>>
  <2>1. Readable(r)
    BY <1>7 DEF Readable, Given
  <2>2. /\ pc'[c] = "vocab" /\ todo'[c] = DOMAIN r.bpe.vocab.entries
        /\ merges'[c] = << >> /\ request'[c] = r
    BY <1>1, <1>2, <1>7 DEF LocalsType
  <2>3. Promises(c)'
    BY <2>1, <2>2 DEF Promises, IdsFit
  <2>4. \A d \in Client \ {c} : pc'[d] = pc[d] /\ todo'[d] = todo[d]
    BY <1>2, <1>7 DEF LocalsType
  <2> HIDE DEF rejected
  <2> QED BY <1>1, <1>7, <2>2, <2>3, <2>4, ReadOnMaps DEF Building
<1>8. CASE ~rejected /\ first.is = "panics" /\ Fail(c, "Internal") /\ UNCHANGED <<vocab, todo>>
  <2>1. r.factory = "json" /\ r.json.is = "panics" /\ BlobsOf(r) = {r.json} /\ "handle" \in r.given
    BY <1>2, <1>8, FirstBlob, JsonFacts DEF Given
  <2>2. ~Api!Faulty(r) /\ Api!Panics(r)
    BY <2>1, SameData DEF Api!Faulty, Api!Panics, Unreadable, Malformed
  <2> HIDE DEF rejected, first
  <2> QED BY <1>1, <1>8, <2>2, AnswerFacts, FailMaps DEF reading
<1> QED BY <1>4, <1>5, <1>6, <1>7, <1>8

\* A round of a loop over entries: an id that is none is a fault of the input.
LEMMA InsertEntryMaps ==
  ASSUME IInv, RInv, NEW c \in Client, pc[c] \in Building,
         NEW entries, todo[c] \subseteq DOMAIN entries,
         InsertEntry(c, entries), UNCHANGED <<request, merges, lines, outcome>>,
         ~Api!AllIdsFit(entries) => Api!Faulty(request[c]),
         (/\ pc' = pc
          /\ \E t \in todo[c] : entries[t] \in U32 /\ todo'[c] = todo[c] \ {t})
           => Promises(c)'
  PROVE  Maps
<1>1. PICK t \in todo[c] : IF entries[t] \in U32 THEN Insert(c, t, entries[t]) ELSE Refuse(c)
  BY DEF InsertEntry
<1>2. LocalsType
  BY TypeParts DEF IInv
<1>3. CASE entries[t] \in U32
  <2>1. /\ vocab' = [vocab EXCEPT ![c] = Put(@, t, entries[t])]
        /\ todo' = [todo EXCEPT ![c] = @ \ {t}]
        /\ UNCHANGED <<memory, pc, status>>
    BY <1>1, <1>3 DEF Insert
  <2>2. todo'[c] = todo[c] \ {t}
    BY <1>2, <2>1 DEF LocalsType
  <2>3. \A d \in Client \ {c} : vocab'[d] = vocab[d] /\ todo'[d] = todo[d]
    BY <1>2, <2>1 DEF LocalsType
  <2> QED BY <1>1, <1>3, <2>1, <2>2, <2>3, ReadOnMaps
<1>4. CASE entries[t] \notin U32
  <2>1. Api!Faulty(request[c])
    BY <1>1, <1>4, SameData DEF Api!AllIdsFit
  <2> QED BY <1>1, <1>4, <2>1, AnswerFacts, FailMaps DEF Refuse, reading
<1> QED BY <1>3, <1>4

\* Before the first line, all lines are left.
LEMMA StartMerges ==
  ASSUME NEW c \in Client, LocalsType, lines' = [lines EXCEPT ![c] = request[c].bpe.merges.lines],
         request[c].bpe.merges.lines \in Seq(Seq(Token)),
         merges[c] = << >>, UNCHANGED <<request, merges>>
  PROVE  /\ 0 \in 0..Len(request[c].bpe.merges.lines) /\ LinesRead(c, 0)'
         /\ \A d \in Client \ {c} : lines'[d] = lines[d]
<1> DEFINE all == request[c].bpe.merges.lines
<1>1. Len(all) \in Nat /\ SubSeq(all, 1, Len(all)) = all
  BY LenProperties, SubSeqFull
<1>2. SubSeq(all, 1, 0) = << >>
  BY SubSeqEmpty
<1>3. lines'[c] = all /\ merges'[c] = << >> /\ request'[c].bpe.merges.lines = all
  BY DEF LocalsType
<1>4. 0 + 1 = 1
  OBVIOUS
<1>5. LinesRead(c, 0)'
  <2>1. lines'[c] = SubSeq(all, 0 + 1, Len(all))
    BY <1>1, <1>3, <1>4, Zenon
  <2>2. merges'[c] = Api!MergesOf(SubSeq(all, 1, 0))
    BY <1>2, <1>3, MergesOfNothing, Zenon
  <2>3. \A i \in 1..0 : GoodLine(all[i])
    OBVIOUS
  <2> QED BY <1>3, <2>1, <2>2, <2>3, Zenon DEF LinesRead
<1> QED BY <1>1, <1>5 DEF LocalsType

LEMMA ReadVocabMaps ==
  ASSUME IInv, RInv, NEW c \in Client, ReadVocab(c)
  PROVE  Maps
<1> DEFINE r == request[c]
           entries == r.bpe.vocab.entries
           added == r.bpe.added
<1>1. pc[c] = "vocab" /\ pc[c] \in Building /\ UNCHANGED <<request, merges, outcome>>
  BY DEF ReadVocab, Building
<1>2. /\ r \in Request /\ r.factory = "bpe" /\ r.bpe.merges.is = "lines"
      /\ r.bpe.vocab.is = "object" /\ added.is \notin Unreadable
      /\ todo[c] \subseteq DOMAIN entries
  BY <1>1 DEF IInv, Reads
<1>3. Readable(r) /\ IdsFit(entries, todo[c]) /\ merges[c] = << >> /\ LocalsType
  BY <1>1, TypeParts DEF IInv, RInv, Promises
<1>4. Api!Entries(r.bpe.vocab) = entries /\ added \in BlobsOf(r)
      /\ r.bpe.merges.lines \in Seq(Seq(Token))
  BY <1>2, BpeFacts DEF Api!Entries
<1>5. request'[c] = r /\ merges'[c] = << >>
  BY <1>1, <1>3
<1>6. CASE InsertEntry(c, entries) /\ UNCHANGED lines
  <2>1. ~Api!AllIdsFit(entries) => Api!Faulty(r)
    BY <1>2, <1>4 DEF Api!Faulty
  <2>2. ASSUME pc' = pc, \E t \in todo[c] : entries[t] \in U32 /\ todo'[c] = todo[c] \ {t}
        PROVE  Promises(c)'
    <3>1. IdsFit(entries, todo'[c])
      BY <1>3, <2>2 DEF IdsFit
    <3>2. pc'[c] = "vocab"
      BY <1>1, <2>2
    <3> QED BY <1>3, <1>5, <3>1, <3>2 DEF Promises, IdsFit
  <2> QED BY <1>1, <1>2, <1>6, <2>1, <2>2, InsertEntryMaps
<1>7. CASE todo[c] = {} /\ added.is = "empty" /\ lines' = [lines EXCEPT ![c] = r.bpe.merges.lines]
           /\ GoTo(c, "merges") /\ UNCHANGED <<memory, vocab, todo, status>>
  <2>1. pc'[c] = "merges" /\ \A d \in Client \ {c} : pc'[d] = pc[d]
    BY <1>3, <1>7 DEF GoTo, LocalsType
  <2>2. /\ 0 \in 0..Len(r.bpe.merges.lines) /\ LinesRead(c, 0)'
        /\ \A d \in Client \ {c} : lines'[d] = lines[d]
    BY <1>1, <1>3, <1>4, <1>7, StartMerges
  <2>3. IdsFit(Api!Entries(r.bpe.vocab), {}) /\ IdsFit(Api!Entries(added), {})
    BY <1>3, <1>4, <1>7 DEF IdsFit, Api!Entries
  <2>4. Promises(c)'
    BY <1>2, <1>3, <1>5, <1>7, <2>1, <2>2, <2>3 DEF Promises, IdsFit
  <2> QED BY <1>1, <1>7, <2>1, <2>2, <2>4, ReadOnMaps DEF Building
<1>8. CASE added.is \in Malformed /\ Fail(c, "InvalidArgument") /\ UNCHANGED <<vocab, todo, lines>>
  <2>1. Api!Faulty(r)
    BY <1>4, <1>8, SameData DEF Api!Faulty
  <2> QED BY <1>1, <1>8, <2>1, AnswerFacts, FailMaps DEF reading
<1>9. CASE todo[c] = {} /\ added.is = "object" /\ todo' = [todo EXCEPT ![c] = DOMAIN added.entries]
           /\ GoTo(c, "added") /\ UNCHANGED <<memory, vocab, status, lines>>
  <2>1. /\ pc'[c] = "added" /\ todo'[c] = DOMAIN added.entries
        /\ \A d \in Client \ {c} : pc'[d] = pc[d] /\ todo'[d] = todo[d]
    BY <1>3, <1>9 DEF GoTo, LocalsType
  <2>2. IdsFit(entries, {}) /\ IdsFit(added.entries, todo'[c])
    BY <1>3, <1>9, <2>1 DEF IdsFit
  <2>3. Promises(c)'
    BY <1>3, <1>5, <2>1, <2>2 DEF Promises, IdsFit
  <2> QED BY <1>1, <1>9, <2>1, <2>3, ReadOnMaps DEF Building
<1> QED BY <1>6, <1>7, <1>8, <1>9 DEF ReadVocab

LEMMA ReadAddedMaps ==
  ASSUME IInv, RInv, NEW c \in Client, ReadAdded(c)
  PROVE  Maps
<1> DEFINE r == request[c]
           entries == r.bpe.added.entries
<1>1. pc[c] = "added" /\ pc[c] \in Building /\ UNCHANGED <<request, merges, outcome>>
  BY DEF ReadAdded, Building
<1>2. /\ r \in Request /\ r.factory = "bpe" /\ r.bpe.merges.is = "lines"
      /\ r.bpe.vocab.is = "object" /\ r.bpe.added.is = "object"
      /\ todo[c] \subseteq DOMAIN entries
  BY <1>1 DEF IInv, Reads
<1>3. /\ Readable(r) /\ IdsFit(r.bpe.vocab.entries, {}) /\ IdsFit(entries, todo[c])
      /\ merges[c] = << >> /\ LocalsType
  BY <1>1, TypeParts DEF IInv, RInv, Promises
<1>4. /\ Api!Entries(r.bpe.vocab) = r.bpe.vocab.entries /\ Api!Entries(r.bpe.added) = entries
      /\ r.bpe.merges.lines \in Seq(Seq(Token))
  BY <1>2, BpeFacts DEF Api!Entries
<1>5. request'[c] = r /\ merges'[c] = << >>
  BY <1>1, <1>3
<1>6. CASE InsertEntry(c, entries) /\ UNCHANGED lines
  <2>1. ~Api!AllIdsFit(entries) => Api!Faulty(r)
    BY <1>2, <1>4 DEF Api!Faulty
  <2>2. ASSUME pc' = pc, \E t \in todo[c] : entries[t] \in U32 /\ todo'[c] = todo[c] \ {t}
        PROVE  Promises(c)'
    <3>1. IdsFit(entries, todo'[c])
      BY <1>3, <2>2 DEF IdsFit
    <3>2. pc'[c] = "added"
      BY <1>1, <2>2
    <3> QED BY <1>3, <1>5, <3>1, <3>2 DEF Promises, IdsFit
  <2> QED BY <1>1, <1>2, <1>6, <2>1, <2>2, InsertEntryMaps
<1>7. CASE todo[c] = {} /\ lines' = [lines EXCEPT ![c] = r.bpe.merges.lines]
           /\ GoTo(c, "merges") /\ UNCHANGED <<memory, vocab, todo, status>>
  <2>1. pc'[c] = "merges" /\ \A d \in Client \ {c} : pc'[d] = pc[d]
    BY <1>3, <1>7 DEF GoTo, LocalsType
  <2>2. /\ 0 \in 0..Len(r.bpe.merges.lines) /\ LinesRead(c, 0)'
        /\ \A d \in Client \ {c} : lines'[d] = lines[d]
    BY <1>1, <1>3, <1>4, <1>7, StartMerges
  <2>3. IdsFit(Api!Entries(r.bpe.vocab), {}) /\ IdsFit(Api!Entries(r.bpe.added), {})
    BY <1>3, <1>4, <1>7 DEF IdsFit
  <2>4. Promises(c)'
    BY <1>2, <1>3, <1>5, <1>7, <2>1, <2>2, <2>3 DEF Promises, IdsFit
  <2> QED BY <1>1, <1>7, <2>1, <2>2, <2>4, ReadOnMaps DEF Building
<1> QED BY <1>6, <1>7 DEF ReadAdded


\* One line of merges: a line that is neither a comment nor a pair is a fault.
LEMMA ReadMergeMaps ==
  ASSUME IInv, RInv, NEW c \in Client, ReadMerge(c)
  PROVE  Maps
<1> DEFINE r == request[c]
           all == r.bpe.merges.lines
           size == Len(all)
<1>1. pc[c] = "merges" /\ pc[c] \in Building /\ UNCHANGED <<request, vocab, todo, outcome>>
  BY DEF ReadMerge, Building
<1>2. /\ r \in Request /\ r.factory = "bpe" /\ r.bpe.merges.is = "lines"
      /\ vocab[c] = MergedOf(r)
  BY <1>1 DEF IInv, Reads
<1>3. /\ Readable(r) /\ r.bpe.vocab.is = "object" /\ r.bpe.added.is \in {"object", "empty"}
      /\ IdsFit(Api!Entries(r.bpe.vocab), {}) /\ IdsFit(Api!Entries(r.bpe.added), {})
      /\ LocalsType
  BY <1>1, TypeParts DEF IInv, RInv, Promises
<1>4. PICK n \in 0..size : LinesRead(c, n)
  BY <1>1 DEF RInv, Promises
<1>5. /\ lines[c] = SubSeq(all, n + 1, Len(all))
      /\ merges[c] = Api!MergesOf(SubSeq(all, 1, n))
      /\ \A i \in 1..n : GoodLine(all[i])
  BY <1>4 DEF LinesRead
<1>6. all \in Seq(Seq(Token)) /\ size \in Nat /\ n \in 0..size
  BY <1>2, BpeFacts, LenProperties
<1>7. request'[c] = r
  BY <1>1
<1>8. CASE lines[c] = << >> /\ GoTo(c, "build") /\ UNCHANGED <<memory, merges, lines, status>>
  <2>1. n = Len(all)
    <3> SUFFICES ASSUME n # Len(all) PROVE FALSE
      OBVIOUS
    <3>1. n + 1 \in 1..size /\ n + 1 \in Int /\ size \in Int /\ n + 1 <= size
      <4> HIDE DEF size
      <4> QED BY <1>6 DEF size
    <3>2. \A i \in n + 1..size : all[i] \in Seq(Token)
      BY <1>6, ElementOfSeq
    <3>3. Len(SubSeq(all, n + 1, size)) = size - (n + 1) + 1
      <4> HIDE DEF all, size
      <4> QED BY <3>1, <3>2, SubSeqProperties
    <3>4. Len(SubSeq(all, n + 1, size)) = 0
      BY <1>5, <1>8, EmptySeq
    <3>5. size - (n + 1) + 1 = 0
      BY <3>3, <3>4, Zenon
    <3> HIDE DEF size
    <3> QED BY <1>6, <3>1, <3>5
  <2>2. merges[c] = Api!MergesOf(all)
    BY <1>5, <1>6, <2>1, SubSeqFull
  <2>3. ~Api!Faulty(r)
    <3>1. \A blob \in BlobsOf(r) : blob.is \notin Unreadable \cup Malformed
      BY <1>2, <1>3, BpeFacts DEF Unreadable, Malformed
    <3>2. Api!AllIdsFit(Api!Entries(r.bpe.vocab)) /\ Api!AllIdsFit(Api!Entries(r.bpe.added))
      BY <1>3, SameData DEF IdsFit, Api!AllIdsFit
    <3>3. \A i \in 1..Len(all) : IsComment(all[i]) \/ Len(all[i]) = 2
      BY <1>5, <2>1 DEF GoodLine
    <3> QED BY <1>2, <1>3, <3>1, <3>2, <3>3, SameData DEF Api!Faulty, Readable
  <2>4. Api!Described(r) = [vocab |-> vocab[c], merges |-> merges[c]]
    BY <1>2, <2>2 DEF Api!Described, MergedOf
  <2>5. pc'[c] = "build" /\ \A d \in Client \ {c} : pc'[d] = pc[d]
    BY <1>3, <1>8 DEF GoTo, LocalsType
  <2>6. vocab'[c] = vocab[c] /\ merges'[c] = merges[c]
    BY <1>1, <1>8
  <2>7. Promises(c)'
    BY <1>2, <1>7, <2>3, <2>4, <2>5, <2>6 DEF Promises, Parses
  <2> QED BY <1>1, <1>8, <2>5, <2>7, ReadOnMaps DEF Building
<1>9. CASE lines[c] # << >>
  <2>1. n \in 0..Len(all) - 1 /\ n + 1 \in 0..Len(all) /\ n + 1 \in 1..Len(all)
    <3>1. n # size
      <4> SUFFICES ASSUME n = size PROVE FALSE
        OBVIOUS
      <4>1. n + 1 \in Int /\ size \in Int /\ size < n + 1
        <5> HIDE DEF size
        <5> QED BY <1>6
      <4> HIDE DEF all
      <4> QED BY <1>5, <1>9, <4>1, SubSeqEmpty
    <3> QED BY <1>6, <3>1
  <2> DEFINE line == all[n + 1]
  <2>2. /\ Head(lines[c]) = line /\ Tail(lines[c]) = SubSeq(all, n + 2, Len(all))
        /\ line \in Seq(Token)
        /\ Api!MergesOf(SubSeq(all, 1, n + 1)) = merges[c] \o Kept1(line)
    BY <1>5, <1>6, <2>1, NextLine
  <2>3. CASE /\ GoodLine(line)
             /\ merges' = [merges EXCEPT ![c] = IF IsComment(line) THEN @ ELSE Append(@, line)]
             /\ lines' = [lines EXCEPT ![c] = Tail(@)]
             /\ UNCHANGED <<memory, pc, status>>
    <3>1. merges[c] \in Seq(Seq(Token))
      BY <1>3 DEF LocalsType
    <3>2. merges'[c] = merges[c] \o Kept1(line)
      <4>1. merges'[c] = IF IsComment(line) THEN merges[c] ELSE Append(merges[c], line)
        BY <1>3, <2>3 DEF LocalsType
      <4> HIDE DEF line
      <4> QED BY <2>2, <3>1, <4>1, ConcatEmptySeq, AppendIsConcat DEF Kept1
    <3>3. lines'[c] = SubSeq(all, (n + 1) + 1, Len(all))
      <4>1. lines'[c] = Tail(lines[c])
        BY <1>3, <2>3 DEF LocalsType
      <4>2. (n + 1) + 1 = n + 2
        BY <1>6
      <4> QED BY <2>2, <4>1, <4>2, Zenon
    <3>4. \A i \in 1..n + 1 : GoodLine(all[i])
      <4>1. \A i \in 1..n + 1 : i \in 1..n \/ i = n + 1
        <5> HIDE DEF size
        <5> QED BY <1>6
      <4> QED BY <1>5, <2>3, <4>1
    <3>5. LinesRead(c, n + 1)'
      <4> HIDE DEF line, all
      <4>1. merges'[c] = Api!MergesOf(SubSeq(all, 1, n + 1))
        BY <2>2, <3>2
      <4> QED BY <1>7, <3>3, <3>4, <4>1, Zenon DEF LinesRead, all
    <3>6. pc'[c] = "merges"
      BY <1>1, <2>3
    <3>7. Promises(c)'
      BY <1>3, <1>7, <2>1, <3>5, <3>6 DEF Promises
    <3>8. \A d \in Client \ {c} : merges'[d] = merges[d] /\ lines'[d] = lines[d]
      BY <1>3, <2>3 DEF LocalsType
    <3> QED BY <1>1, <2>3, <3>7, <3>8, ReadOnMaps
  <2>4. CASE /\ ~GoodLine(line)
             /\ Fail(c, "InvalidArgument") /\ UNCHANGED <<merges, lines>>
    <3>1. Api!Faulty(r)
      BY <1>2, <2>1, <2>4, SameData DEF Api!Faulty, GoodLine
    <3> QED BY <1>1, <2>4, <3>1, AnswerFacts, FailMaps DEF reading
  <2> HIDE DEF line, all
  <2> QED BY <1>9, <2>2, <2>3, <2>4 DEF ReadMerge, GoodLine
<1> QED BY <1>8, <1>9 DEF ReadMerge

\* The merges of a request that parses are what is left to panic on.
LEMMA PanicsOnMerges ==
  ASSUME NEW r, Parses(r)
  PROVE  Api!Panics(r) <=> ~MergesKnown(Api!Described(r).vocab, Api!Described(r).merges)
<1>1. CASE r.factory = "json"
  <2>1. Api!Described(r).merges = << >> /\ ~Api!Panics(r)
    BY <1>1 DEF Api!Described, Api!Panics, Parses
  <2>2. 1..Len(<< >>) = {}
    BY EmptySeq
  <2> QED BY <2>1, <2>2 DEF MergesKnown
<1>2. CASE r.factory # "json"
  BY <1>2, SameData DEF Api!Panics
<1> QED BY <1>1, <1>2

\* The new tokenizer is the one that the request describes; merges outside its
\* vocabulary are the internal error.
LEMMA BuildMaps ==
  ASSUME IInv, RInv, NEW c \in Client, Build(c)
  PROVE  Maps
<1> DEFINE k == <<c, "handle">>
           r == request[c]
<1>1. pc[c] = "build" /\ pc[c] \in Building /\ UNCHANGED <<request, reading, outcome>>
  BY DEF Build, Building
<1>2. /\ ~Api!Faulty(r) /\ Parses(r)
      /\ Api!Described(r) = [vocab |-> vocab[c], merges |-> merges[c]]
  BY <1>1 DEF RInv, Promises
<1>3. Api!Panics(r) <=> ~MergesKnown(vocab[c], merges[c])
  BY <1>2, PanicsOnMerges
<1>4. CASE ~MergesKnown(vocab[c], merges[c]) /\ Fail(c, "Internal")
  <2>1. Throw("Internal") \in Api!Answers(c, r)
    BY <1>2, <1>4, <1>3, AnswerFacts
  <2> QED BY <1>1, <1>4, <2>1, FailMaps
<1>5. CASE MergesKnown(vocab[c], merges[c]) /\ HandOver(c)
  <2>1. Loaded \in Api!Answers(c, r)
    BY <1>2, <1>5, <1>3, AnswerFacts
  <2>2. PICK vocab_r \in Inverses(vocab[c]) :
          Allocate(k, Wrapper(vocab[c], vocab_r, merges[c]))
    BY <1>5 DEF HandOver
  <2> DEFINE w == Wrapper(vocab[c], vocab_r, merges[c])
  <2>3. w.is = "wrapper" /\ w.vocab = vocab[c] /\ w.merges = merges[c]
    BY DEF Wrapper
  <2>4. /\ LocalsType /\ r \in Request /\ cell[<<c, "tokenizer">>] = NULL
        /\ k \in CellsOf(c) /\ <<c, "tokenizer">> \in Cell \ {k}
    BY <1>1, TypeParts, NothingOwned, OwnCells DEF IInv, Local
  <2>5. /\ Kept(CellsOf(c))
        /\ cell'[k] # NULL /\ heap'[cell'[k]] = w
        /\ \A l \in Cell \ {k} : cell'[l] = cell[l]
        /\ \A p \in Addr : heap'[p] = heap[p] \/ heap'[p] = w
    <3> HIDE DEF k
    <3> QED BY <2>2, <2>4, AllocateFootprint
  <2>6. MadeOf(r, w)
    BY <1>2, <1>5, <1>3, <2>3 DEF MadeOf
  <2>7. NoStrangeBox
    <3> HIDE DEF w, r
    <3> QED BY <2>4, <2>5, <2>6 DEF NoStrangeBox
  <2>8. /\ request' = request /\ vocab' = vocab /\ todo' = todo
        /\ merges' = merges /\ lines' = lines /\ outcome' = outcome
        /\ status' = [status EXCEPT ![c] = "Ok"]
        /\ pc' = [pc EXCEPT ![c] = "returned"]
    BY <1>1, <1>5 DEF reading, HandOver, GoTo
  <2>9. Footprint(c)
    BY <2>4, <2>5, <2>8 DEF Footprint, OthersKept, LocalsType
  <2>10. pc'[c] = "returned" /\ status'[c] = "Ok" /\ request'[c] = r
    BY <2>4, <2>8 DEF LocalsType
  <2>11. Holds(c, "handle")'
    <3> HIDE DEF w
    <3> QED BY <1>2, <2>3, <2>5, <2>10 DEF Holds
  <2>12. Promises(c)'
    BY <2>1, <2>10, <2>11 DEF Promises
  <2>13. TokenizerKnown(c)'
    BY <2>4, <2>5 DEF TokenizerKnown
  <2>14. pc[c] \notin {"idle", "done"} /\ pc'[c] \notin {"idle", "done"} /\ UNCHANGED request
    BY <1>1, <2>8, <2>10
  <2> QED BY <2>7, <2>9, <2>12, <2>13, <2>14, OnTheWay
<1> QED BY <1>4, <1>5 DEF Build

------------------------------------------------------------------------------
(* The steps of the caller                                                   *)

\* What every step of the caller leaves alone, up to the memory.
LEMMA CallerFootprint ==
  ASSUME IInv, NEW c \in Client, Kept(CellsOf(c)),
         UNCHANGED <<request, reading, status>>, NEW step \in PC, GoTo(c, step),
         outcome' = outcome \/ \E answer : outcome' = [outcome EXCEPT ![c] = answer]
  PROVE  /\ Footprint(c) /\ pc'[c] = step
         /\ request'[c] = request[c] /\ merges'[c] = merges[c] /\ status'[c] = status[c]
<1>1. LocalsType
  BY TypeParts DEF IInv
<1>2. /\ request' = request /\ vocab' = vocab /\ todo' = todo
      /\ merges' = merges /\ lines' = lines /\ status' = status
  BY DEF reading
<1>3. pc'[c] = step /\ \A d \in Client \ {c} : pc'[d] = pc[d]
  BY <1>1 DEF LocalsType, GoTo
<1>4. \A d \in Client \ {c} : outcome'[d] = outcome[d]
  BY <1>1 DEF LocalsType
<1> QED BY <1>2, <1>3, <1>4 DEF Footprint, OthersKept

\* Outside the way out, where each pointer is tells that there is one box.
LEMMA OneBoxElsewhere ==
  ASSUME IInv, NEW c \in Client, pc[c] # "unwind"
  PROVE  OneBox(c)
<1>1. pc[c] \in PC /\ Owns(c)
  BY TypeParts DEF IInv, LocalsType
<1> QED BY <1>1 DEF Owns, OneBox, PC, Local

\* An error on its way: there is no tokenizer, and the error is an answer.
LEMMA ThrowMaps ==
  ASSUME IInv, RInv, NEW c \in Client, pc[c] \in {"returned", "construct"},
         NEW code, Throw(code) \in Api!Answers(c, request[c]),
         Finish(c, Throw(code)), UNCHANGED <<memory, request, reading, status>>
  PROVE  Maps
<1>1. /\ cell' = cell /\ Kept(CellsOf(c)) /\ NoStrangeBox
  BY QuietFootprint
<1>2. /\ Footprint(c) /\ pc'[c] = "unwind" /\ request'[c] = request[c]
  BY <1>1, CallerFootprint DEF Finish, PC
<1>3. outcome'[c] = Throw(code) /\ cell'[<<c, "tokenizer">>] = NULL
  BY <1>1, TypeParts DEF IInv, Owns, Finish, LocalsType
<1>4. Promises(c)'
  <2>1. OneBox(c)'
    BY <1>1, OneBoxElsewhere DEF OneBox
  <2> QED BY <1>2, <1>3, <2>1, AnswerFacts DEF Promises
<1>5. TokenizerKnown(c)'
  BY <1>3 DEF TokenizerKnown
<1> QED BY <1>1, <1>2, <1>4, <1>5, OnTheWay

\* The handle moves on to its next owner.
LEMMA HandleMaps ==
  ASSUME IInv, RInv, NEW c \in Client, pc[c] \in {"returned", "construct"},
         NEW from \in {"handle", "owner"}, NEW to \in {"owner", "tokenizer"}, from # to,
         Holds(c, from), Loaded \in Api!Answers(c, request[c]),
         to = "owner" => cell[<<c, "tokenizer">>] = NULL,
         Move(<<c, from>>, <<c, to>>), UNCHANGED <<request, reading, status>>,
         IF to = "owner" THEN GoTo(c, "construct") /\ UNCHANGED outcome ELSE Finish(c, Loaded)
  PROVE  Maps
<1> DEFINE f == <<c, from>>
           t == <<c, to>>
<1>1. f \in CellsOf(c) /\ t \in CellsOf(c) /\ f # t /\ <<c, "tokenizer">> \in Cell
  BY OwnCells DEF Local
<1>2. /\ Kept(CellsOf(c)) /\ NoStrangeBox /\ heap' = heap
      /\ cell'[t] = cell[f]
      /\ \A l \in Cell \ {f, t} : cell'[l] = cell[l]
  <2> HIDE DEF f, t
  <2> QED BY <1>1, MoveFootprint DEF f, t
<1>3. Holds(c, to)' \/ request'[c] # request[c]
  BY <1>2 DEF Holds
<1>4. CASE to = "owner"
  <2>1. Footprint(c) /\ pc'[c] = "construct" /\ request'[c] = request[c]
    BY <1>2, <1>4, CallerFootprint DEF PC
  <2>2. cell'[<<c, "tokenizer">>] = NULL
    BY <1>1, <1>2, <1>4
  <2>3. Promises(c)'
    BY <1>3, <1>4, <2>1 DEF Promises
  <2> QED BY <1>2, <2>1, <2>2, <2>3, OnTheWay DEF TokenizerKnown
<1>5. CASE to = "tokenizer"
  <2>1. Footprint(c) /\ pc'[c] = "unwind" /\ request'[c] = request[c]
    BY <1>2, <1>5, CallerFootprint DEF PC, Finish
  <2>2. outcome'[c] = Loaded
    BY <1>5, TypeParts DEF IInv, Finish, LocalsType
  <2>3. Promises(c)'
    <3>1. \A n \in Local \cup {"tokenizer"} : cell[<<c, n>>] # NULL => n = from
      BY OneBoxElsewhere DEF OneBox, Holds, Local
    <3>2. cell'[f] = NULL
      BY <1>1, MoveFootprint
    <3>3. \A n \in Local \cup {"tokenizer"} : cell'[<<c, n>>] # NULL => n = to
      <4>1. \A n \in Local \cup {"tokenizer"} : n # from /\ n # to =>
              <<c, n>> \in Cell \ {f, t}
        BY OwnCells
      <4> QED BY <1>2, <3>1, <3>2, <4>1
    <3>4. OneBox(c)'
      BY <3>3 DEF OneBox
    <3> QED BY <1>3, <1>5, <2>1, <2>2, <3>4 DEF Promises
  <2>4. TokenizerKnown(c)'
    BY <1>3, <1>5, <2>1 DEF TokenizerKnown, Holds
  <2> QED BY <1>2, <2>1, <2>3, <2>4, OnTheWay
<1> QED BY <1>4, <1>5

LEMMA CheckStatusMaps ==
  ASSUME IInv, RInv, NEW c \in Client, CheckStatus(c)
  PROVE  Maps
<1>1. pc[c] = "returned" /\ UNCHANGED <<request, reading, status>>
  BY DEF CheckStatus
<1>2. /\ IF status[c] = "Ok" THEN Loaded \in Api!Answers(c, request[c]) /\ Holds(c, "handle")
         ELSE Throw(status[c]) \in Api!Answers(c, request[c])
      /\ cell[<<c, "tokenizer">>] = NULL
  BY <1>1 DEF IInv, Owns, RInv, Promises
<1>3. CASE status[c] # "Ok" /\ Finish(c, Throw(status[c])) /\ UNCHANGED memory
  BY <1>1, <1>2, <1>3, ThrowMaps
<1>4. CASE /\ status[c] = "Ok" /\ Move(<<c, "handle">>, <<c, "owner">>)
           /\ GoTo(c, "construct") /\ UNCHANGED outcome
  BY <1>1, <1>2, <1>4, HandleMaps
<1>5. CASE status[c] = "Ok" /\ Move(<<c, "handle">>, <<c, "tokenizer">>) /\ Finish(c, Loaded)
  BY <1>1, <1>2, <1>5, HandleMaps
<1> QED BY <1>3, <1>4, <1>5 DEF CheckStatus

LEMMA ConstructMaps ==
  ASSUME IInv, RInv, NEW c \in Client, Construct(c)
  PROVE  Maps
<1>1. /\ pc[c] = "construct" /\ UNCHANGED <<request, reading, status>>
      /\ Move(<<c, "owner">>, <<c, "tokenizer">>) /\ Finish(c, Loaded)
  BY DEF Construct
<1>2. Loaded \in Api!Answers(c, request[c]) /\ Holds(c, "owner")
  BY <1>1 DEF RInv, Promises
<1> QED BY <1>1, <1>2, HandleMaps

LEMMA OutOfMemoryMaps ==
  ASSUME IInv, RInv, NEW c \in Client, OutOfMemory(c)
  PROVE  Maps
<1>1. /\ c \in CppClient /\ pc[c] \in {"returned", "construct"}
      /\ Finish(c, Throw("bad_alloc")) /\ UNCHANGED <<memory, request, reading, status>>
  BY DEF OutOfMemory
<1> QED BY <1>1, AnswerFacts, ThrowMaps

------------------------------------------------------------------------------
(* The steps that a caller sees                                              *)

LEMMA SameRequests ==
  /\ Api!Request = Request /\ Api!NoRequest = NoRequest /\ Api!NoOutcome = NoOutcome
  /\ \A r : Api!IsCppRequest(r) = IsCppRequest(r)
BY SameData DEF Api!Request, Api!JsonRequest, Api!BpeRequest, Api!OutParameter, Request,
     JsonRequest, BpeRequest, OutParameter, Api!NoRequest, NoRequest, Api!NoOutcome, NoOutcome,
     Api!IsCppRequest, IsCppRequest

Visible(d) == IF pc[d] = "done" THEN outcome[d] ELSE NoOutcome

\* A step of c shows in what FactoryApi keeps for c, and nowhere else.
LEMMA Seen ==
  ASSUME NEW c \in Client, Footprint(c)
  PROVE  /\ [d \in Client |-> Phase(d)]'
              = [[d \in Client |-> Phase(d)] EXCEPT ![c] = Phase(c)']
         /\ [d \in Client |-> IF pc[d] = "done" THEN outcome[d] ELSE NoOutcome]'
              = [[d \in Client |-> IF pc[d] = "done" THEN outcome[d] ELSE NoOutcome]
                   EXCEPT ![c] = Visible(c)']
         /\ [d \in Client |-> Contents(d)]'
              = [[d \in Client |-> Contents(d)] EXCEPT ![c] = Contents(c)']
<1>1. \A d \in Client \ {c} : /\ Phase(d)' = Phase(d) /\ Contents(d)' = Contents(d)
                              /\ pc'[d] = "done" <=> pc[d] = "done"
                              /\ outcome'[d] = outcome[d]
  BY OthersContents
<1>2. \A d \in Client \ {c} :
        (IF pc'[d] = "done" THEN outcome'[d] ELSE NoOutcome)
          = (IF pc[d] = "done" THEN outcome[d] ELSE NoOutcome)
  BY <1>1
<1> QED BY <1>1, <1>2 DEF Visible

\* A call that unwinds responds with what it owes.
LEMMA UnwindMaps ==
  ASSUME IInv, RInv, NEW c \in Client, Unwind(c)
  PROVE  Maps
<1> DEFINE ks == {<<c, "owner">>, <<c, "message">>}
           t == <<c, "tokenizer">>
<1>1. /\ pc[c] = "unwind" /\ FreeCells(ks) /\ GoTo(c, "done") /\ Forget(c)
      /\ request' = request /\ outcome' = outcome
  BY DEF Unwind
<1>2. LocalsType
  BY TypeParts DEF IInv
<1>3. ks \in SUBSET CellsOf(c) /\ t \in Cell \ ks
  BY OwnCells DEF Local
<1>4. /\ Kept(CellsOf(c)) /\ NoStrangeBox
      /\ cell'[t] = cell[t] /\ (cell[t] # NULL => heap'[cell[t]] = heap[cell[t]])
  <2> HIDE DEF ks, t
  <2> QED BY <1>1, <1>3, FreeFootprint
<1>5. Footprint(c) /\ pc'[c] = "done" /\ merges'[c] = << >>
  BY <1>1, <1>2, <1>4 DEF Footprint, OthersKept, GoTo, Forget, LocalsType
<1>6. /\ outcome[c] \in Api!Answers(c, request[c])
      /\ IF outcome[c] = Loaded THEN Holds(c, "tokenizer") ELSE cell[t] = NULL
      /\ TokenizerKnown(c)
  BY <1>1 DEF RInv, Promises, MadeFromInput
<1>7. RInv'
  <2>1. Promises(c)'
    BY <1>5 DEF Promises
  <2>2. TokenizerKnown(c)'
    BY <1>4, <1>6 DEF TokenizerKnown
  <2> QED BY <1>4, <1>5, <2>1, <2>2, StepOfOneClient
<1>8. Phase(c) = "pending" /\ Phase(c)' = "done" /\ Visible(c)' = outcome[c]
  BY <1>1, <1>5 DEF Phase, Visible
<1>9. Contents(c)' = IF outcome[c] = Loaded THEN Api!Described(request[c]) ELSE None
  BY <1>4, <1>6, <1>8 DEF Contents, Holds
<1>10. Api!Respond(c)
  BY <1>1, <1>5, <1>6, <1>8, <1>9, Seen, SameData DEF Api!Respond
<1> QED BY <1>7, <1>10 DEF Maps, Api!Next

LEMMA ReturnMaps ==
  ASSUME IInv, RInv, NEW c \in Client, Return(c)
  PROVE  Maps
<1>1. /\ pc[c] = "done" /\ GoTo(c, "idle") /\ UNCHANGED <<memory, reading, status>>
      /\ request' = [request EXCEPT ![c] = NoRequest]
      /\ outcome' = [outcome EXCEPT ![c] = NoOutcome]
  BY DEF Return
<1>2. LocalsType /\ merges[c] = << >> /\ TokenizerKnown(c)
  BY <1>1, TypeParts DEF IInv, RInv, Promises, MadeFromInput
<1>3. NoStrangeBox /\ cell' = cell /\ heap' = heap /\ Kept(CellsOf(c))
  BY <1>1, QuietFootprint
<1>4. Footprint(c) /\ pc'[c] = "idle" /\ merges'[c] = << >>
  BY <1>1, <1>2, <1>3 DEF Footprint, OthersKept, GoTo, LocalsType, reading
<1>5. RInv'
  <2>1. Promises(c)'
    BY <1>4 DEF Promises
  <2>2. TokenizerKnown(c)'
    BY <1>2, <1>3 DEF TokenizerKnown
  <2> QED BY <1>3, <1>4, <2>1, <2>2, StepOfOneClient
<1>6. Phase(c) = "done" /\ Phase(c)' = "idle" /\ Visible(c)' = NoOutcome
  BY <1>1, <1>4 DEF Phase, Visible
<1>7. Contents(c)' = Contents(c)
  BY <1>3, <1>6 DEF Contents
<1>8. Api!Return(c)
  BY <1>1, <1>4, <1>6, <1>7, Seen, SameRequests DEF Api!Return
<1> QED BY <1>5, <1>8 DEF Maps, Api!Next

LEMMA LoadMaps ==
  ASSUME IInv, RInv, NEW c \in Client, NEW r \in Request, Load(c, r)
  PROVE  Maps
<1>1. /\ pc[c] = "idle" /\ cell[<<c, "tokenizer">>] = NULL /\ GoTo(c, "enter")
      /\ c \in CppClient => IsCppRequest(r)
      /\ request' = [request EXCEPT ![c] = r]
      /\ UNCHANGED <<memory, reading, status, outcome>>
  BY DEF Load
<1>2. LocalsType /\ merges[c] = << >>
  BY <1>1, TypeParts DEF IInv, RInv, Promises
<1>3. NoStrangeBox /\ cell' = cell /\ heap' = heap /\ Kept(CellsOf(c))
  BY <1>1, QuietFootprint
<1>4. Footprint(c) /\ pc'[c] = "enter" /\ merges'[c] = << >>
  BY <1>1, <1>2, <1>3 DEF Footprint, OthersKept, GoTo, LocalsType, reading
<1>5. RInv'
  <2>1. Promises(c)'
    BY <1>4 DEF Promises
  <2>2. TokenizerKnown(c)'
    BY <1>1, <1>3 DEF TokenizerKnown
  <2> QED BY <1>3, <1>4, <2>1, <2>2, StepOfOneClient
<1>6. /\ Phase(c) = "idle" /\ Phase(c)' = "pending"
      /\ Visible(c) = NoOutcome /\ Visible(c)' = NoOutcome
  BY <1>1, <1>4 DEF Phase, Visible
<1>7. Contents(c) = None /\ Contents(c)' = None
  BY <1>1, <1>6 DEF Contents
<1>8. Api!Load(c, r)
  BY <1>1, <1>4, <1>6, <1>7, Seen, SameRequests DEF Api!Load, Visible
<1> QED BY <1>5, <1>8, SameRequests DEF Maps, Api!Next

\* What is dropped was a tokenizer.
LEMMA DropMaps ==
  ASSUME IInv, RInv, NEW c \in Client, Drop(c)
  PROVE  Maps
<1> DEFINE t == <<c, "tokenizer">>
           p == cell[t]
<1>1. /\ pc[c] = "idle" /\ p # NULL /\ FreeCells({t})
      /\ UNCHANGED <<pc, request, reading, status, outcome>>
  BY DEF Drop
<1>2. LocalsType /\ MemoryType /\ merges[c] = << >> /\ TokenizerKnown(c)
  BY <1>1, TypeParts DEF IInv, RInv, Promises, MadeFromInput
<1>3. t \in Cell /\ {t} \in SUBSET CellsOf(c)
  BY OwnCells
<1>4. Kept(CellsOf(c)) /\ NoStrangeBox /\ cell'[t] = NULL
  <2> HIDE DEF t
  <2> QED BY <1>1, <1>3, FreeFootprint
<1>5. Footprint(c) /\ pc'[c] = "idle" /\ merges'[c] = << >>
  BY <1>1, <1>2, <1>4 DEF Footprint, OthersKept, reading
<1>6. RInv'
  <2>1. Promises(c)'
    BY <1>5 DEF Promises
  <2>2. TokenizerKnown(c)'
    BY <1>4 DEF TokenizerKnown
  <2> QED BY <1>4, <1>5, <2>1, <2>2, StepOfOneClient
<1>7. Phase(c) = "idle" /\ Phase(c)' = "idle"
  BY <1>1, <1>5 DEF Phase
<1>8. Contents(c) # None /\ Contents(c)' = None
  <2>1. p \in Addr /\ heap[p] \in Content /\ heap[p].is = "wrapper"
    BY <1>1, <1>2, <1>3 DEF MemoryType, TokenizerKnown
  <2>2. heap[p].vocab \in PartialMap(Token, U32) /\ heap[p].merges \in Seq(Seq(Token))
    BY <2>1 DEF Content, Free
  <2>3. [vocab |-> heap[p].vocab, merges |-> heap[p].merges] # None
    BY <2>2, NoneAssumption
  <2> QED BY <1>1, <1>4, <1>7, <2>3 DEF Contents
<1>9. Api!Drop(c)
  BY <1>1, <1>5, <1>7, <1>8, Seen DEF Api!Drop
<1> QED BY <1>6, <1>9 DEF Maps, Api!Next

------------------------------------------------------------------------------
(* The theorems                                                              *)

LEMMA InitMaps == Init => RInv /\ Api!Init
<1> SUFFICES ASSUME Init PROVE RInv /\ Api!Init
  OBVIOUS
<1>1. \A c \in Client : Promises(c) /\ TokenizerKnown(c)
  BY DEF Init, Promises, TokenizerKnown, Cell
<1>2. \A p \in Addr : heap[p].is # "wrapper"
  BY DEF Init, Free
<1>3. \A c \in Client : Phase(c) = "idle" /\ Contents(c) = None /\ pc[c] = "idle"
  BY DEF Init, Phase, Contents, Cell
<1>4. Api!Init
  BY <1>3, SameRequests DEF Init, Api!Init
<1> QED BY <1>1, <1>2, <1>4 DEF RInv, MadeFromInput

LEMMA StepMaps == IInv /\ RInv /\ [Next]_vars => RInv' /\ [Api!Next]_(Api!vars)
<1> SUFFICES ASSUME IInv, RInv, [Next]_vars PROVE Maps
  BY DEF Maps
<1>1. ASSUME NEW c \in Client, NEW r \in Request, Load(c, r) PROVE Maps
  BY <1>1, LoadMaps
<1>2. ASSUME NEW c \in Client, InCall(c) PROVE Maps
  BY <1>2, EnterMaps, ReadVocabMaps, ReadAddedMaps, ReadMergeMaps, BuildMaps, CheckStatusMaps,
     ConstructMaps, OutOfMemoryMaps, UnwindMaps, ReturnMaps DEF InCall
<1>3. ASSUME NEW c \in Client, Drop(c) PROVE Maps
  BY <1>3, DropMaps
<1>4. CASE UNCHANGED vars
  <2>1. /\ heap' = heap /\ cell' = cell /\ pc' = pc /\ request' = request /\ vocab' = vocab
        /\ todo' = todo /\ merges' = merges /\ lines' = lines /\ status' = status
        /\ outcome' = outcome
    BY <1>4 DEF vars
  <2>2. ASSUME NEW c \in Client PROVE Promises(c)' /\ TokenizerKnown(c)'
    <3>1. Promises(c) /\ TokenizerKnown(c)
      BY DEF RInv, MadeFromInput
    <3>2. \A n : LinesRead(c, n) => LinesRead(c, n)'
      BY <2>1 DEF LinesRead
    <3>3. \A name : Holds(c, name) => Holds(c, name)'
      BY <2>1 DEF Holds
    <3>4. OneBox(c) => OneBox(c)'
      BY <2>1 DEF OneBox
    <3> QED BY <2>1, <3>1, <3>2, <3>3, <3>4 DEF Promises, TokenizerKnown
  <2>3. RInv'
    BY <2>1, <2>2 DEF RInv, MadeFromInput, MadeOf
  <2>4. UNCHANGED Api!vars
    BY <2>1 DEF Api!vars, Phase, Contents
  <2> QED BY <2>3, <2>4 DEF Maps
<1> QED BY <1>1, <1>2, <1>3, <1>4 DEF Next

\* The factories do what their callers may rely on: FromBlobJSON,
\* FromBlobByteLevelBPE and the C functions behind them implement FactoryApi, for
\* any number of threads that load tokenizers at the same time, from any blobs.
THEOREM Implements == Spec => ImplementsFactoryApi
<1>1. Spec => Api!Init /\ [][Api!Next]_(Api!vars)
  BY InitSafe, StepSafe, InitMaps, StepMaps, PTL DEF Spec
<1> QED BY <1>1 DEF ImplementsFactoryApi, Api!Spec

\* A load that reads its input has an address to hand its answer over at, if there
\* are as many addresses as clients: every client has one box at most, and this
\* one has none.
THEOREM RoomForEveryLoad ==
  ASSUME IsFiniteSet(Addr), IsFiniteSet(Client), Cardinality(Client) <= Cardinality(Addr)
  PROVE  Spec => []RoomToAnswer
<1>1. IInv /\ RInv => RoomToAnswer
  <2> SUFFICES ASSUME IInv, RInv, NEW c \in Client, pc[c] \in Building,
                      \A p \in Addr : heap[p] # Free
               PROVE  FALSE
    BY DEF RoomToAnswer, Building
  <2> DEFINE owner == [p \in Addr |-> CHOOSE d \in Client :
                                       \E n \in Local \cup {"tokenizer"} : cell[<<d, n>>] = p]
  <2>1. \A p \in Addr : p # NULL
    BY ClientAssumption
  <2>2. ASSUME NEW p \in Addr
        PROVE  /\ owner[p] \in Client \ {c}
               /\ \E n \in Local \cup {"tokenizer"} : cell[<<owner[p], n>>] = p
    <3>1. \E d \in Client : \E n \in Local \cup {"tokenizer"} : cell[<<d, n>>] = p
      <4>1. PICK k \in Cell : cell[k] = p
        BY DEF IInv, MemoryInv, NotLeaked
      <4>2. PICK d \in Client, n \in Local \cup {"tokenizer"} : k = <<d, n>>
        BY DEF Cell
      <4> QED BY <4>1, <4>2
    <3>2. owner[p] \in Client /\ \E n \in Local \cup {"tokenizer"} : cell[<<owner[p], n>>] = p
      BY <3>1
    <3>3. owner[p] # c
      BY <2>1, <3>2, NothingOwned
    <3> QED BY <3>2, <3>3
  <2>3. \A d \in Client : OneBox(d)
    BY OneBoxElsewhere DEF RInv, Promises
  <2>4. owner \in [Addr -> Client \ {c}]
    BY <2>2
  <2>5. \A p, q \in Addr : owner[p] = owner[q] => p = q
    <3> HIDE DEF owner
    <3> SUFFICES ASSUME NEW p \in Addr, NEW q \in Addr, owner[p] = owner[q] PROVE p = q
      OBVIOUS
    <3> DEFINE d == owner[p]
    <3>1. PICK m \in Local \cup {"tokenizer"} : cell[<<d, m>>] = p
      BY <2>2
    <3>2. PICK n \in Local \cup {"tokenizer"} : cell[<<d, n>>] = q
      BY <2>2
    <3>3. OneBox(d) /\ p # NULL /\ q # NULL
      BY <2>1, <2>2, <2>3
    <3> HIDE DEF d
    <3>4. m = n
      BY <3>1, <3>2, <3>3, Zenon DEF OneBox
    <3> QED BY <3>1, <3>2, <3>4
  <2>6. IsFiniteSet(Client \ {c}) /\ Cardinality(Client \ {c}) < Cardinality(Addr)
    <3>1. /\ Cardinality(Client) \in Nat /\ Cardinality(Addr) \in Nat
          /\ Cardinality(Client \ {c}) = Cardinality(Client) - 1
      BY FS_RemoveElement, FS_CardinalityType
    <3> QED BY <3>1, FS_RemoveElement
  <2> HIDE DEF owner
  <2> QED BY <2>4, <2>5, <2>6, FS_PigeonHole
<1> QED BY InitSafe, StepSafe, InitMaps, StepMaps, <1>1, PTL DEF Spec

\* Every tokenizer there is was made of the input of some request, an input that
\* is not at fault.
LEMMA MadeFromInputHolds == Spec => []MadeFromInput
<1>1. RInv => MadeFromInput
  BY DEF RInv
<1> QED BY InitSafe, StepSafe, InitMaps, StepMaps, <1>1, PTL DEF Spec

\* The vocabulary that a request describes is finite.
LEMMA DescribedFinite ==
  ASSUME NEW r \in Request, ~Api!Faulty(r), ~Api!Panics(r)
  PROVE  IsFiniteSet(DOMAIN Api!Described(r).vocab)
<1>1. CASE r.factory = "json"
  <2>1. r.json.is \notin Unreadable \cup Malformed
    BY <1>1, JsonFacts, SameData DEF Api!Faulty
  <2>2. r.json.is = "tokenizer"
    BY <1>1, <2>1, JsonFacts DEF Malformed, Api!Panics
  <2> QED BY <1>1, <2>2, JsonFacts DEF Api!Described
<1>2. CASE r.factory = "bpe"
  <2>1. \A blob \in {r.bpe.vocab, r.bpe.added} : IsFiniteSet(DOMAIN Api!Entries(blob))
    <3>1. IsFiniteSet(DOMAIN [t \in {} |-> 0])
      BY FS_EmptySet
    <3> QED BY <1>2, <3>1, BpeFacts DEF IsEntries, Api!Entries
  <2>2. DOMAIN Api!Described(r).vocab
          = DOMAIN Api!Entries(r.bpe.vocab) \cup DOMAIN Api!Entries(r.bpe.added)
    BY <1>2 DEF Api!Described, Api!Merged
  <2> QED BY <2>1, <2>2, FS_Union
<1> QED BY <1>1, <1>2, FactoryOfRequest

\* The assertion of HFTokenizer::GetVocabSize holds as long as no input that the
\* factories accept describes an empty vocabulary; nothing else can break it.
THEOREM VocabSizeDependsOnInput ==
  ASSUME \A r \in Request :
           ~Api!Faulty(r) /\ ~Api!Panics(r) => DOMAIN Api!Described(r).vocab # {}
  PROVE  Spec => []VocabSizePositive
<1>1. MadeFromInput => VocabSizePositive
  <2> SUFFICES ASSUME MadeFromInput, NEW p \in Addr, heap[p].is = "wrapper"
               PROVE  GetVocabSize(heap[p]) > 0
    BY DEF VocabSizePositive
  <2>1. PICK r \in Request : MadeOf(r, heap[p])
    BY DEF MadeFromInput
  <2> DEFINE tokens == DOMAIN heap[p].vocab
  <2>2. ~Api!Faulty(r) /\ ~Api!Panics(r) /\ tokens = DOMAIN Api!Described(r).vocab
    BY <2>1 DEF MadeOf
  <2>3. IsFiniteSet(tokens) /\ tokens # {}
    BY <2>2, DescribedFinite
  <2> HIDE DEF tokens
  <2>4. Cardinality(tokens) \in Nat /\ Cardinality(tokens) # 0
    BY <2>3, FS_CardinalityType, FS_EmptySet
  <2> QED BY <2>4 DEF GetVocabSize, tokens
<1> QED BY <1>1, MadeFromInputHolds, PTL
==============================================================================

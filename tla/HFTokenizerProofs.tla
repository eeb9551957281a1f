-------------------------- MODULE HFTokenizerProofs --------------------------
(***************************************************************************)
(* Proofs about HFTokenizer, for any number of threads, addresses, texts   *)
(* and vocabularies.                                                       *)
(*                                                                         *)
(* No conjunct of the inductive invariant stands alone: what a buffer      *)
(* holds is known only because no other cell owns its address, the types   *)
(* of the answers depend on what the buffers hold, and that a call does    *)
(* not overwrite an owned pointer depends on where every thread is.        *)
(***************************************************************************)
EXTENDS HFTokenizer, SequenceTheorems, TLAPS

------------------------------------------------------------------------------
(* The inductive invariant                                                   *)

\* What a cell may own: the wrapper's are strings, a call's first cell is its
\* message and the others are its buffers of ids.
ContentOf(k) ==
  IF k[1] = Wrapper THEN {"string"} \X String
  ELSE IF k[2] = 0 THEN {Message(code) : code \in ErrorCode}
  ELSE {"ids"} \X Seq(Id)

OwnsItsKind(k) == cell[k] # NULL => heap[cell[k]] \in ContentOf(k)

MemoryInv ==
  /\ heap \in [Addr -> Content \cup {Free}]
  /\ cell \in [Cell -> Addr \cup {NULL}]
  /\ NotLeaked
  /\ NotShared
  /\ \A k \in Cell : OwnsItsKind(k)

\* The views a call can choose exist.
WrapperInv ==
  /\ wrapper \in [ViewName -> View \cup {None}]
  /\ supports_encode_flags \in BOOLEAN
  /\ open \in BOOLEAN
  /\ wrapper.tokenizer \in View
  /\ wrapper.ignore_added_tokens # None =>
       wrapper.ignore_added_tokens \in View /\ wrapper.ignore_special_tokens \in View

LocalsInv ==
  /\ pc \in [Client -> PC]
  /\ request \in [Client -> Request \cup {NoRequest}]
  /\ view \in [Client -> ViewName]
  /\ status \in [Client -> Status]
  /\ data \in [Client -> Addr \cup {NULL}]
  /\ outcome \in [Client -> Outcome]

\* What is known of a thread by where it is.
AtPC(c) ==
  /\ pc[c] = "idle" <=> request[c] = NoRequest
  /\ pc[c] \in {"validate", "enter", "tokenize", "returned"} => request[c] \in EncodeRequest
  /\ pc[c] \in {"decode", "get_decode_str"} => request[c] \in DecodeRequest
  /\ pc[c] = "lookup" => request[c] \in TokenRequest
  /\ pc[c] = "copy" => request[c] \in DecodeRequest \cup TokenRequest
  /\ pc[c] = "tokenize" =>
       /\ wrapper[view[c]] \in View
       /\ \A i \in 1..Len(request[c].texts) : request[c].texts[i] # MalformedText
  /\ pc[c] \notin {"returned", "release"} => \A k \in CallCells(c) : cell[k] = NULL

ScratchOf(r) == Scratch(IF r.op = "decode" THEN "decode_str" ELSE "id_to_token_result")

\* The scratch string a thread is about to read holds its own answer.
HoldsAnswer(c) ==
  pc[c] \in {"get_decode_str", "copy"} =>
    LET k == ScratchOf(request[c]) IN
      /\ cell[k] # NULL
      /\ heap[cell[k]] \in {Str(string) : string \in StringAnswers(request[c])}
      /\ pc[c] = "copy" => data[c] = cell[k]

\* A thread whose call came back from Rust knows what it has to free.
TellsWhatToFree(c) ==
  pc[c] = "returned" =>
    /\ (status[c] = "Ok") <=> (cell[ErrorCell(c)] = NULL)
    /\ \A i \in 1..Len(request[c].texts) :
         (status[c] = "Ok") <=> (cell[ResultCell(c, i)] # NULL)

Thread(c) == AtPC(c) /\ HoldsAnswer(c) /\ TellsWhatToFree(c)

\* No two calls go through the same scratch string.
ScratchExclusion ==
  \A c, d \in Client :
    UsesScratch(request[c]) /\ request[c].op = request[d].op => c = d

IInv ==
  /\ MemoryInv
  /\ WrapperInv
  /\ LocalsInv
  /\ ScratchExclusion
  /\ \A c \in Client : Thread(c)

------------------------------------------------------------------------------
(* What the library functions return                                         *)

\* Encoding a valid text gives a sequence of ids, whatever view is used.
LEMMA EncodeTextType ==
  ASSUME NEW v \in View, NEW text \in Utf8Text, NEW add \in BOOLEAN
  PROVE  EncodeText(v, text, add) \in Seq(Id)
<1>1. text \in Seq(Piece)
  BY VocabularyAssumption
<1>2. \A p \in Piece : IdOfPiece(Recognised(v), p) \in Id
  BY DEF IdOfPiece, Id
<1>3. [i \in 1..Len(text) |-> IdOfPiece(Recognised(v), text[i])] \in Seq(Id)
  <2>1. Len(text) \in Nat /\ \A i \in 1..Len(text) : text[i] \in Piece
    BY <1>1, LenProperties, ElementOfSeq
  <2> QED
    BY <1>2, <2>1, IsASeq
<1>4. (IF add THEN v.post_processor ELSE << >>) \in Seq(Id)
  BY VocabularyAssumption, EmptySeq DEF View
<1> QED
  BY <1>3, <1>4, ConcatProperties DEF EncodeText

\* Decoding any ids gives a string.
LEMMA DecodeIdsType ==
  ASSUME NEW v \in View, NEW ids \in Seq(Id), NEW skip \in BOOLEAN
  PROVE  DecodeIds(v, ids, skip) \in String
<1>1. Len(ids) \in Nat /\ \A i \in 1..Len(ids) : ids[i] \in Id
  BY LenProperties, ElementOfSeq
<1>2. \A i \in 1..Len(ids) : ids[i][2] \in Piece
  BY <1>1 DEF Id
<1>3. \A p \in Piece : <<p>> \in Seq(Piece)
  OBVIOUS
<1>4. << >> \in Seq(Piece)
  BY EmptySeq
<1> DEFINE Part(i) == IF NamesToken(v, ids[i])
                         /\ ~(skip /\ ids[i][1] = "added" /\ ids[i][2] \in SpecialToken)
                      THEN <<ids[i][2]>> ELSE << >>
<1>5. \A i \in 1..Len(ids) : Part(i) \in Seq(Piece)
  BY <1>2, <1>3, <1>4
<1>6. [i \in 1..Len(ids) |-> Part(i)] \in Seq(Seq(Piece))
  <2> HIDE DEF Part
  <2> QED
    BY <1>1, <1>5, IsASeq
<1> QED
  BY <1>6 DEF DecodeIds, String

\* A token lookup gives a string.
LEMMA TokenStringType ==
  ASSUME NEW v \in View, NEW id \in Id
  PROVE  TokenString(v, id) \in String
<1>1. id[2] \in Piece
  BY DEF Id
<1>2. <<id[2]>> \in Seq(Piece)
  BY <1>1
<1>3. << <<id[2]>> >> \in Seq(Seq(Piece))
  BY <1>2
<1> QED
  BY <1>3, EmptySeq DEF TokenString, String

------------------------------------------------------------------------------
(* What the memory operators preserve                                        *)

\* The cells outside K keep their pointers, and these what they point to.
Kept(K) ==
  \A k \in Cell \ K : /\ cell'[k] = cell[k]
                      /\ cell[k] # NULL => heap'[cell[k]] = heap[cell[k]]

\* What a cell may own is never taken for a freed address.
LEMMA ContentNotFree ==
  /\ Free \notin Content
  /\ \A k \in Cell : ContentOf(k) \subseteq Content
BY DEF Free, Content, Message, ContentOf, Cell

\* The cells of calls and of the wrapper are all different.
LEMMA CellFacts ==
  /\ \A c \in Client : CallCells(c) \subseteq Cell
  /\ \A c, d \in Client : c # d => CallCells(c) \cap CallCells(d) = {}
  /\ \A c \in Client : \A k \in CallCells(c) : k[1] = c /\ k[1] # Wrapper
  /\ \A c \in Client : ErrorCell(c) \in CallCells(c)
  /\ \A c \in Client : \A i \in 1..MaxBatch :
       ResultCell(c, i) \in CallCells(c) /\ ResultCell(c, i) # ErrorCell(c)
  /\ \A name \in {"decode_str", "id_to_token_result"} :
       /\ Scratch(name) \in Cell
       /\ \A c \in Client : Scratch(name) \notin CallCells(c)
  /\ Scratch("decode_str") # Scratch("id_to_token_result")
BY OwnersAssumption, BoundsAssumption
   DEF CallCells, Cell, ErrorCell, ResultCell, Scratch

\* A pointer in a cell is an address that is allocated.
LEMMA OwnedIsAllocated ==
  ASSUME MemoryInv, NEW k \in Cell, cell[k] # NULL
  PROVE  cell[k] \in Addr /\ heap[cell[k]] # Free
BY ContentNotFree DEF MemoryInv, OwnsItsKind

\* A cell whose pointer stays, as does what it points to, owns what it did.
LEMMA OwnsItsKindKept ==
  ASSUME MemoryInv, NEW k \in Cell, cell'[k] = cell[k],
         cell[k] # NULL => heap'[cell[k]] = heap[cell[k]]
  PROVE  OwnsItsKind(k)'
<1>1. cell[k] # NULL => heap'[cell[k]] \in ContentOf(k)
  BY DEF MemoryInv, OwnsItsKind
<1> QED
  BY <1>1 DEF OwnsItsKind, ContentOf

\* Handing out new boxes to a call whose cells are null keeps every allocation
\* owned once, and leaves all other cells alone.
LEMMA HandOutSafe ==
  ASSUME MemoryInv, NEW c \in Client, NEW content,
         DOMAIN content \subseteq CallCells(c),
         \A k \in DOMAIN content : content[k] \in ContentOf(k),
         \A k \in CallCells(c) : cell[k] = NULL,
         HandOut(c, content)
  PROVE  /\ MemoryInv'
         /\ Kept(CallCells(c))
         /\ \A k \in CallCells(c) : cell'[k] # NULL <=> k \in DOMAIN content
<1> DEFINE D == DOMAIN content
<1>0. PICK at \in Injection(D, FreeAddr) :
        /\ heap' = [a \in Addr |-> IF \E k \in D : at[k] = a
                                   THEN content[CHOOSE k \in D : at[k] = a]
                                   ELSE heap[a]]
        /\ cell' = [k \in Cell |-> IF k \in D THEN at[k]
                                   ELSE IF k \in CallCells(c) THEN NULL ELSE cell[k]]
  BY DEF HandOut
<1>1. /\ at \in [D -> FreeAddr]
      /\ \A k, l \in D : at[k] = at[l] => k = l
  BY DEF Injection, IsInjective
<1> HIDE DEF D
<1>2. D \subseteq CallCells(c) /\ CallCells(c) \subseteq Cell
  BY CellFacts DEF D
<1>3. \A k \in D : at[k] \in Addr /\ heap[at[k]] = Free
  BY <1>1 DEF FreeAddr
<1>4. \A k \in D : heap'[at[k]] = content[k]
  <2> SUFFICES ASSUME NEW k \in D PROVE heap'[at[k]] = content[k]
    OBVIOUS
  <2>1. (CHOOSE l \in D : at[l] = at[k]) = k
    BY <1>1
  <2> QED
    BY <1>0, <1>3, <2>1
<1>5. \A a \in Addr : heap[a] # Free => heap'[a] = heap[a]
  BY <1>0, <1>3
<1>6. \A k \in Cell : cell[k] # NULL => cell[k] \in Addr /\ heap[cell[k]] # Free
  BY OwnedIsAllocated
<1>7. Kept(CallCells(c))
  BY <1>0, <1>2, <1>5, <1>6 DEF Kept
<1>8. \A k \in CallCells(c) : cell'[k] = IF k \in D THEN at[k] ELSE NULL
  BY <1>0, <1>2
<1>9. \A k \in D : at[k] # NULL
  BY <1>3, OwnersAssumption
<1>10. \A k \in Cell \ D : cell'[k] = cell[k]
  BY <1>0, <1>2
<1>11. heap' \in [Addr -> Content \cup {Free}]
  <2>1. \A a \in Addr : heap'[a] \in Content \cup {Free}
    <3> SUFFICES ASSUME NEW a \in Addr PROVE heap'[a] \in Content \cup {Free}
      OBVIOUS
    <3>1. CASE \E k \in D : at[k] = a
      BY <3>1, <1>2, <1>4, ContentNotFree DEF D
    <3>2. CASE ~ \E k \in D : at[k] = a
      BY <3>2, <1>0 DEF MemoryInv
    <3> QED
      BY <3>1, <3>2
  <2> QED
    BY <1>0, <2>1
<1>12. cell' \in [Cell -> Addr \cup {NULL}]
  BY <1>0, <1>3 DEF MemoryInv
<1>13. NotLeaked'
  <2> SUFFICES ASSUME NEW a \in Addr, heap'[a] # Free
               PROVE  \E k \in Cell : cell'[k] = a
    BY DEF NotLeaked
  <2>1. CASE \E k \in D : at[k] = a
    BY <2>1, <1>2, <1>8
  <2>2. CASE ~ \E k \in D : at[k] = a
    <3>1. heap[a] # Free
      BY <2>2, <1>0
    <3>2. PICK k \in Cell : cell[k] = a
      BY <3>1 DEF MemoryInv, NotLeaked
    <3>3. k \notin D
      BY <3>2, <1>2, OwnersAssumption
    <3> QED
      BY <3>2, <3>3, <1>10
  <2> QED
    BY <2>1, <2>2
<1>14. NotShared'
  <2> SUFFICES ASSUME NEW k \in Cell, NEW l \in Cell,
                      cell'[k] # NULL, cell'[k] = cell'[l]
               PROVE  k = l
    BY DEF NotShared
  <2>1. CASE k \in D /\ l \in D
    BY <2>1, <1>1, <1>2, <1>8
  <2>2. CASE k \notin D /\ l \notin D
    BY <2>2, <1>10 DEF MemoryInv, NotShared
  <2>3. CASE k \in D /\ l \notin D
    BY <2>3, <1>2, <1>3, <1>6, <1>8, <1>10
  <2>4. CASE k \notin D /\ l \in D
    BY <2>4, <1>2, <1>3, <1>6, <1>8, <1>10
  <2> QED
    BY <2>1, <2>2, <2>3, <2>4
<1>15. ASSUME NEW k \in Cell PROVE OwnsItsKind(k)'
  <2>1. CASE k \in D
    <3>1. cell'[k] = at[k]
      BY <2>1, <1>2, <1>8
    <3>2. heap'[at[k]] \in ContentOf(k)
      BY <2>1, <1>4 DEF D
    <3> QED
      BY <3>1, <3>2 DEF OwnsItsKind, ContentOf
  <2>2. CASE k \notin D
    BY <2>2, <1>5, <1>6, <1>10, OwnsItsKindKept
  <2> QED
    BY <2>1, <2>2
<1>16. MemoryInv'
  BY <1>11, <1>12, <1>13, <1>14, <1>15 DEF MemoryInv
<1>17. \A k \in CallCells(c) : cell'[k] # NULL <=> k \in D
  BY <1>8, <1>9
<1> QED
  BY <1>7, <1>16, <1>17 DEF D

\* Nulling out parameters that are null already changes nothing.
LEMMA NullOutSafe ==
  ASSUME MemoryInv, NEW c \in Client, \A k \in CallCells(c) : cell[k] = NULL, NullOut(c)
  PROVE  heap' = heap /\ cell' = cell
<1>1. \A k \in Cell : cell'[k] = cell[k]
  BY DEF NullOut
<1>2. cell \in [Cell -> Addr \cup {NULL}]
  BY DEF MemoryInv
<1>3. cell' \in [Cell -> Addr \cup {NULL}]
  BY <1>1, <1>2 DEF NullOut
<1>4. cell' = cell
  BY <1>1, <1>2, <1>3
<1> QED
  BY <1>4 DEF NullOut

\* Freeing some cells leaves the memory of all others alone.
LEMMA FreeCellsSafe ==
  ASSUME MemoryInv, NEW K \in SUBSET Cell, FreeCells(K)
  PROVE  /\ MemoryInv'
         /\ Kept(K)
         /\ \A k \in K : cell'[k] = NULL
<1>1. /\ heap' = [a \in Addr |-> IF \E k \in K : cell[k] = a THEN Free ELSE heap[a]]
      /\ cell' = [k \in Cell |-> IF k \in K THEN NULL ELSE cell[k]]
  BY DEF FreeCells
<1>2. \A k \in Cell : cell[k] # NULL => cell[k] \in Addr /\ heap[cell[k]] # Free
  BY OwnedIsAllocated
<1>3. \A k \in Cell \ K : cell'[k] = cell[k]
  BY <1>1
<1>4. \A k \in Cell \ K : cell[k] # NULL => heap'[cell[k]] = heap[cell[k]]
  <2> SUFFICES ASSUME NEW k \in Cell \ K, cell[k] # NULL
               PROVE  heap'[cell[k]] = heap[cell[k]]
    OBVIOUS
  <2>1. ~ \E l \in K : cell[l] = cell[k]
    BY DEF MemoryInv, NotShared
  <2> QED
    BY <1>1, <1>2, <2>1
<1>5. Kept(K)
  BY <1>3, <1>4 DEF Kept
<1>6. \A k \in K : cell'[k] = NULL
  BY <1>1
<1>7. heap' \in [Addr -> Content \cup {Free}]
  BY <1>1 DEF MemoryInv
<1>8. cell' \in [Cell -> Addr \cup {NULL}]
  BY <1>1 DEF MemoryInv
<1>9. NotLeaked'
  <2> SUFFICES ASSUME NEW a \in Addr, heap'[a] # Free
               PROVE  \E k \in Cell : cell'[k] = a
    BY DEF NotLeaked
  <2>1. heap[a] # Free /\ ~ \E k \in K : cell[k] = a
    BY <1>1
  <2>2. PICK k \in Cell : cell[k] = a
    BY <2>1 DEF MemoryInv, NotLeaked
  <2> QED
    BY <2>1, <2>2, <1>3
<1>10. NotShared'
  BY <1>3, <1>6 DEF MemoryInv, NotShared
<1>11. ASSUME NEW k \in Cell PROVE OwnsItsKind(k)'
  <2>1. CASE k \in K
    BY <2>1, <1>6 DEF OwnsItsKind
  <2>2. CASE k \notin K
    BY <2>2, <1>3, <1>4, OwnsItsKindKept
  <2> QED
    BY <2>1, <2>2
<1> QED
  BY <1>5, <1>6, <1>7, <1>8, <1>9, <1>10, <1>11 DEF MemoryInv

\* Assigning a scratch string moves it to a new address and leaves the memory
\* of all other cells alone.
LEMMA AssignStringSafe ==
  ASSUME MemoryInv, NEW name \in {"decode_str", "id_to_token_result"},
         NEW string \in String, AssignString(Scratch(name), string)
  PROVE  /\ MemoryInv'
         /\ Kept({Scratch(name)})
         /\ cell'[Scratch(name)] # NULL
         /\ heap'[cell'[Scratch(name)]] = Str(string)
<1> DEFINE s == Scratch(name)
<1>0. s \in Cell /\ s[1] = Wrapper
  BY CellFacts DEF Scratch
<1>1. PICK new \in FreeAddr :
        /\ heap' = [a \in Addr |-> IF a = new THEN Str(string)
                                   ELSE IF a = cell[s] THEN Free ELSE heap[a]]
        /\ cell' = [cell EXCEPT ![s] = new]
  BY DEF AssignString
<1> HIDE DEF s
<1>2. new \in Addr /\ heap[new] = Free /\ new # NULL
  BY OwnersAssumption DEF FreeAddr
<1>3. cell \in [Cell -> Addr \cup {NULL}]
  BY DEF MemoryInv
<1>4. cell'[s] = new /\ \A k \in Cell \ {s} : cell'[k] = cell[k]
  BY <1>0, <1>1, <1>3
<1>5. heap'[new] = Str(string)
  BY <1>1, <1>2
<1>6. \A k \in Cell : cell[k] # NULL => cell[k] \in Addr /\ heap[cell[k]] # Free
  BY OwnedIsAllocated
<1>7. \A k \in Cell \ {s} : cell[k] # NULL => heap'[cell[k]] = heap[cell[k]]
  <2> SUFFICES ASSUME NEW k \in Cell \ {s}, cell[k] # NULL
               PROVE  heap'[cell[k]] = heap[cell[k]]
    OBVIOUS
  <2>1. cell[k] # cell[s]
    BY <1>0 DEF MemoryInv, NotShared
  <2>2. cell[k] # new /\ cell[k] \in Addr
    BY <1>2, <1>6
  <2> QED
    BY <1>1, <2>1, <2>2
<1>8. Kept({s})
  BY <1>4, <1>7 DEF Kept
<1>9. Str(string) \in Content /\ Str(string) \in ContentOf(s)
  BY <1>0 DEF Str, Content, ContentOf
<1>10. heap' \in [Addr -> Content \cup {Free}]
  BY <1>1, <1>9 DEF MemoryInv
<1>11. cell' \in [Cell -> Addr \cup {NULL}]
  BY <1>1, <1>2, <1>3
<1>12. NotLeaked'
  <2> SUFFICES ASSUME NEW a \in Addr, heap'[a] # Free
               PROVE  \E k \in Cell : cell'[k] = a
    BY DEF NotLeaked
  <2>1. CASE a = new
    BY <2>1, <1>0, <1>4
  <2>2. CASE a # new
    <3>1. heap[a] # Free /\ a # cell[s]
      BY <2>2, <1>1
    <3>2. PICK k \in Cell : cell[k] = a
      BY <3>1 DEF MemoryInv, NotLeaked
    <3> QED
      BY <3>1, <3>2, <1>4
  <2> QED
    BY <2>1, <2>2
<1>13. NotShared'
  <2> SUFFICES ASSUME NEW k \in Cell, NEW l \in Cell,
                      cell'[k] # NULL, cell'[k] = cell'[l]
               PROVE  k = l
    BY DEF NotShared
  <2>1. CASE k = s \/ l = s
    BY <2>1, <1>2, <1>4, <1>6
  <2>2. CASE k # s /\ l # s
    BY <2>2, <1>4 DEF MemoryInv, NotShared
  <2> QED
    BY <2>1, <2>2
<1>14. ASSUME NEW k \in Cell PROVE OwnsItsKind(k)'
  <2>1. CASE k = s
    <3>1. heap'[cell'[k]] \in ContentOf(k)
      BY <2>1, <1>4, <1>5, <1>9
    <3> QED
      BY <3>1 DEF OwnsItsKind, ContentOf
  <2>2. CASE k # s
    BY <2>2, <1>4, <1>7, OwnsItsKindKept
  <2> QED
    BY <2>1, <2>2
<1>15. MemoryInv'
  BY <1>10, <1>11, <1>12, <1>13, <1>14 DEF MemoryInv
<1> QED
  BY <1>2, <1>4, <1>5, <1>8, <1>15 DEF s

------------------------------------------------------------------------------
(* What the steps of a thread leave alone                                    *)

\* The fields of a request follow from its operation.
LEMMA RequestFacts ==
  /\ \A r \in EncodeRequest :
       /\ r.op = "encode" /\ r.texts \in Batch /\ r.add_special_tokens \in BOOLEAN
       /\ r.flags \in FlagWord
       /\ r \in Request /\ r # NoRequest /\ ~UsesScratch(r)
  /\ \A r \in DecodeRequest :
       /\ r.op = "decode" /\ r.ids \in IdSeq /\ r.skip_special_tokens \in BOOLEAN
       /\ r \in Request /\ r # NoRequest /\ UsesScratch(r)
       /\ ScratchOf(r) = Scratch("decode_str")
  /\ \A r \in TokenRequest :
       /\ r.op = "id_to_token" /\ r.id \in LookupId
       /\ r \in Request /\ r # NoRequest /\ UsesScratch(r)
       /\ ScratchOf(r) = Scratch("id_to_token_result")
  /\ NoRequest.op = "none" /\ ~UsesScratch(NoRequest)
BY DEF EncodeRequest, DecodeRequest, TokenRequest, Request, NoRequest, UsesScratch, ScratchOf

\* The texts of an encode request fit the cells of a call.
LEMMA TextFacts ==
  ASSUME NEW r \in EncodeRequest
  PROVE  /\ Len(r.texts) \in Nat
         /\ 1..Len(r.texts) \subseteq 1..MaxBatch
         /\ \A i \in 1..Len(r.texts) : r.texts[i] \in Text
<1>1. r.texts \in Batch /\ r.texts \in Seq(Text) /\ Len(r.texts) <= MaxBatch
  BY RequestFacts, BoundsAssumption
<1>2. Len(r.texts) \in Nat /\ MaxBatch \in Nat
  BY <1>1, LenProperties, BoundsAssumption
<1>3. \A i \in 1..Len(r.texts) : r.texts[i] \in Text
  BY <1>1, ElementOfSeq
<1> QED
  BY <1>1, <1>2, <1>3

\* A step of c that touches no local of another thread and no cell outside K.
Frame(c, K) ==
  /\ wrapper' = wrapper /\ supports_encode_flags' = supports_encode_flags
  /\ \A d \in Client \ {c} :
       /\ pc'[d] = pc[d] /\ request'[d] = request[d] /\ view'[d] = view[d]
       /\ status'[d] = status[d] /\ data'[d] = data[d]
  /\ Kept(K)

\* What is known of the other threads survives a step of c that keeps out of
\* their cells and of the scratch strings they are reading.
LEMMA OtherThreads ==
  ASSUME IInv, NEW c \in Client, NEW K, Frame(c, K),
         NEW d \in Client \ {c}, K \cap CallCells(d) = {},
         pc[d] \in {"get_decode_str", "copy"} => ScratchOf(request[d]) \notin K
  PROVE  Thread(d)'
<1>1. Thread(d)
  BY DEF IInv
<1>2. \A k \in CallCells(d) : cell'[k] = cell[k]
  BY CellFacts DEF Frame, Kept
<1>3. AtPC(d)'
  BY <1>1, <1>2 DEF Thread, AtPC, Frame, CallCells
<1>4. HoldsAnswer(d)'
  <2> SUFFICES ASSUME pc[d] \in {"get_decode_str", "copy"}
               PROVE  HoldsAnswer(d)'
    BY DEF HoldsAnswer, Frame
  <2> DEFINE k == ScratchOf(request[d])
  <2>1. k \in Cell \ K
    BY CellFacts DEF ScratchOf
  <2>2. cell'[k] = cell[k] /\ (cell[k] # NULL => heap'[cell[k]] = heap[cell[k]])
    BY <2>1 DEF Frame, Kept
  <2>3. /\ cell[k] # NULL
        /\ heap[cell[k]] \in {Str(string) : string \in StringAnswers(request[d])}
        /\ pc[d] = "copy" => data[d] = cell[k]
    BY <1>1 DEF Thread, HoldsAnswer
  <2>4. StringAnswers(request[d])' = StringAnswers(request[d])
    BY DEF Frame, StringAnswers
  <2>5. ScratchOf(request[d])' = k
    BY DEF Frame, ScratchOf, Scratch
  <2> HIDE DEF k
  <2> QED
    BY <2>2, <2>3, <2>4, <2>5 DEF HoldsAnswer, Frame, Str
<1>5. TellsWhatToFree(d)'
  <2>1. pc[d] = "returned" => 1..Len(request[d].texts) \subseteq 1..MaxBatch
    BY <1>1, TextFacts DEF Thread, AtPC
  <2>2. cell'[ErrorCell(d)] = cell[ErrorCell(d)]
    BY <1>2, CellFacts
  <2>3. \A i \in 1..MaxBatch : cell'[ResultCell(d, i)] = cell[ResultCell(d, i)]
    BY <1>2, CellFacts
  <2> QED
    BY <1>1, <2>1, <2>2, <2>3 DEF Thread, TellsWhatToFree, Frame, ErrorCell, ResultCell
<1> QED
  BY <1>3, <1>4, <1>5 DEF Thread

\* A step that keeps to the cells of its own call, or to the scratch string its
\* call has exclusively, needs to be looked at for its own thread only.
OwnCells(c, K) ==
  \/ K \subseteq CallCells(c)
  \/ UsesScratch(request[c]) /\ request[c] \in DecodeRequest \cup TokenRequest
       /\ K = {ScratchOf(request[c])}

\* What a step of c may touch, in one formula.
Footprint(c) == \E K \in SUBSET Cell : Frame(c, K) /\ OwnCells(c, K)

\* A step of one thread that stays in its footprint keeps the invariant of all.
LEMMA StepOfOneThread ==
  ASSUME IInv, NEW c \in Client, NEW K, Frame(c, K), OwnCells(c, K),
         MemoryInv', LocalsInv', ScratchExclusion', open' = open, Thread(c)'
  PROVE  IInv' /\ Footprint(c)
<1>1. ASSUME NEW d \in Client \ {c} PROVE Thread(d)'
  <2>1. K \cap CallCells(d) = {}
    BY CellFacts DEF OwnCells, ScratchOf
  <2>2. ASSUME pc[d] \in {"get_decode_str", "copy"} PROVE ScratchOf(request[d]) \notin K
    <3>1. request[d] \in DecodeRequest \cup TokenRequest
      BY <2>2 DEF IInv, Thread, AtPC
    <3>2. CASE K \subseteq CallCells(c)
      BY <3>2, CellFacts DEF ScratchOf
    <3>3. CASE UsesScratch(request[c]) /\ request[c] \in DecodeRequest \cup TokenRequest
                 /\ K = {ScratchOf(request[c])}
      <4>1. request[c].op # request[d].op
        BY <3>3 DEF IInv, ScratchExclusion
      <4>2. ScratchOf(request[c]) # ScratchOf(request[d])
        BY <3>1, <3>3, <4>1, RequestFacts, CellFacts
      <4> QED
        BY <3>3, <4>2
    <3> QED
      BY <3>2, <3>3 DEF OwnCells
  <2> QED
    BY <2>1, <2>2, OtherThreads
<1>2. \A d \in Client : Thread(d)'
  BY <1>1
<1>3. WrapperInv'
  BY DEF IInv, WrapperInv, Frame
<1>4. K \in SUBSET Cell
  BY CellFacts DEF OwnCells, ScratchOf
<1>5. Footprint(c)
  BY <1>4 DEF Footprint
<1> QED
  BY <1>2, <1>3, <1>5 DEF IInv

------------------------------------------------------------------------------
(* Each action preserves the invariant                                       *)

\* The memory invariant depends on the heap and the cells alone.
LEMMA MemoryUnchanged ==
  ASSUME MemoryInv, UNCHANGED memory
  PROVE  MemoryInv' /\ Kept({})
BY DEF MemoryInv, memory, Kept, NotLeaked, NotShared, OwnsItsKind, ContentOf

\* Scratch exclusion depends on the requests alone.
LEMMA RequestsUnchanged ==
  ASSUME IInv, request' = request
  PROVE  ScratchExclusion'
BY DEF IInv, ScratchExclusion, UsesScratch

\* Starting a call is safe: the guard of Invoke is what keeps scratch exclusion.
LEMMA InvokeSafe ==
  ASSUME IInv, NEW c \in Client, NEW r \in Request, Invoke(c, r)
  PROVE  IInv' /\ Footprint(c)
<1> USE DEF Invoke
<1>1. LocalsInv /\ AtPC(c)
  BY DEF IInv, Thread
<1>2. request'[c] = r /\ pc'[c] = FirstStep(c, r)
  BY <1>1 DEF LocalsInv
<1>3. r \in EncodeRequest \/ r \in DecodeRequest \/ r \in TokenRequest
  BY DEF Request
<1>4. FirstStep(c, r) \in {"validate", "enter", "decode", "lookup"}
  BY <1>3, RequestFacts DEF FirstStep
<1>5. MemoryInv' /\ Kept({})
  BY MemoryUnchanged DEF IInv
<1>6. LocalsInv'
  <2>1. FirstStep(c, r) \in PC
    BY <1>4 DEF PC
  <2> QED
    BY <1>1, <2>1 DEF LocalsInv, locals
<1>7. ScratchExclusion'
  <2> SUFFICES ASSUME NEW d \in Client, NEW e \in Client,
                      UsesScratch(request'[d]), request'[d].op = request'[e].op
               PROVE  d = e
    BY DEF ScratchExclusion, UsesScratch
  <2>1. \A x \in Client : x # c => request'[x] = request[x]
    BY <1>1 DEF LocalsInv
  <2>2. CASE d # c /\ e # c
    BY <2>1, <2>2 DEF IInv, ScratchExclusion
  <2>3. CASE d = c /\ e # c
    BY <2>1, <2>3, <1>2
  <2>4. CASE d # c /\ e = c
    BY <2>1, <2>4, <1>2 DEF UsesScratch
  <2> QED
    BY <2>2, <2>3, <2>4
<1>8. Frame(c, {})
  BY <1>1, <1>5 DEF Frame, LocalsInv, loaded, locals
<1>9. Thread(c)'
  <2>1. AtPC(c)'
    <3>1. \A k \in CallCells(c) : cell'[k] = NULL
      BY <1>1 DEF AtPC, memory
    <3>2. /\ FirstStep(c, r) \in {"validate", "enter"} => r \in EncodeRequest
          /\ FirstStep(c, r) = "decode" => r \in DecodeRequest
          /\ FirstStep(c, r) = "lookup" => r \in TokenRequest
          /\ r # NoRequest
      BY <1>3, RequestFacts DEF FirstStep
    <3> HIDE DEF Invoke
    <3> QED
      BY <1>2, <1>4, <3>1, <3>2 DEF AtPC, CallCells
  <2>2. HoldsAnswer(c)' /\ TellsWhatToFree(c)'
    BY <1>2, <1>4 DEF HoldsAnswer, TellsWhatToFree
  <2> QED
    BY <2>1, <2>2 DEF Thread
<1> QED
  <2> HIDE DEF Invoke
  <2>1. open' = open
    BY DEF Invoke
  <2> QED
    BY <1>5, <1>6, <1>7, <1>8, <1>9, <2>1, StepOfOneThread DEF OwnCells

\* An exception code is an outcome, and so is a batch of encodings.
LEMMA OutcomeFacts ==
  /\ \A code \in ErrorCode : Throw(code) \in Outcome
  /\ \A v \in Seq(Seq(Id)) : Value(v) \in Outcome
  /\ \A v \in String : Value(v) \in Outcome
  /\ NoOutcome \in Outcome
BY DEF Throw, Value, NoOutcome, Outcome

\* Tokenizer::Encode and EncodeBatch, before the call into Rust.
LEMMA ValidateSafe ==
  ASSUME IInv, NEW c \in Client, Validate(c)
  PROVE  IInv' /\ Footprint(c)
<1>1. LocalsInv /\ AtPC(c)
  BY DEF IInv, Thread
<1>2. /\ pc[c] = "validate"
      /\ UNCHANGED <<loaded, open, memory, request, locals>>
  BY DEF Validate
<1>3. MemoryInv' /\ Kept({})
  BY <1>2, MemoryUnchanged DEF IInv
<1>4. ValidateEncodeOptions(request[c].flags) \in {"Ok", "InvalidArgument", "Unsupported"}
  BY DEF ValidateEncodeOptions
<1>5. \/ \E answer \in Outcome : Finish(c, answer)
      \/ pc' = [pc EXCEPT ![c] = "enter"] /\ outcome' = outcome
  <2> DEFINE code == ValidateEncodeOptions(request[c].flags)
  <2>1. CASE code # "Ok" /\ Finish(c, Throw(code))
    BY <2>1, <1>4, OutcomeFacts DEF ErrorCode
  <2>2. CASE Finish(c, Value(<< >>))
    BY <2>2, EmptySeq, OutcomeFacts
  <2>3. CASE pc' = [pc EXCEPT ![c] = "enter"] /\ UNCHANGED outcome
    BY <2>3
  <2> QED
    BY <2>1, <2>2, <2>3 DEF Validate
<1>6. /\ pc'[c] \in {"done", "enter"} /\ pc' = [pc EXCEPT ![c] = pc'[c]]
      /\ outcome' \in [Client -> Outcome]
  BY <1>1, <1>5 DEF LocalsInv, Finish
<1>7. LocalsInv'
  BY <1>1, <1>2, <1>6 DEF LocalsInv, locals, PC
<1>8. Frame(c, {})
  BY <1>1, <1>2, <1>3, <1>6 DEF Frame, LocalsInv, loaded, locals
<1>9. Thread(c)'
  BY <1>1, <1>2, <1>6, RequestFacts
     DEF Thread, AtPC, HoldsAnswer, TellsWhatToFree, memory, CallCells
<1> QED
  BY <1>2, <1>3, <1>7, <1>8, <1>9, RequestsUnchanged, StepOfOneThread DEF OwnCells

\* A call that fails inside Rust hands out its message and nothing else.
LEMMA FailWithSafe ==
  ASSUME IInv, NEW c \in Client, pc[c] \in {"enter", "tokenize"},
         NEW code \in {"InvalidArgument", "Unsupported", "Internal"},
         FailWith(c, code),
         UNCHANGED <<loaded, open, request, view, data, outcome>>
  PROVE  IInv' /\ Footprint(c)
<1> DEFINE content == [k \in {ErrorCell(c)} |-> Message(code)]
<1>1. /\ LocalsInv /\ MemoryInv /\ AtPC(c)
      /\ \A k \in CallCells(c) : cell[k] = NULL
  BY DEF IInv, Thread, AtPC
<1>2. /\ HandOut(c, content)
      /\ status' = [status EXCEPT ![c] = code]
      /\ pc' = [pc EXCEPT ![c] = "returned"]
  BY DEF FailWith
<1>3. DOMAIN content = {ErrorCell(c)} /\ content[ErrorCell(c)] = Message(code)
  OBVIOUS
<1>4. Message(code) \in ContentOf(ErrorCell(c))
  BY OwnersAssumption DEF ContentOf, ErrorCell, ErrorCode
<1> HIDE DEF content
<1>5. /\ MemoryInv' /\ Kept(CallCells(c))
      /\ \A k \in CallCells(c) : cell'[k] # NULL <=> k = ErrorCell(c)
  BY <1>1, <1>2, <1>3, <1>4, CellFacts, HandOutSafe
<1>6. LocalsInv'
  BY <1>1, <1>2 DEF LocalsInv, PC, Status
<1>7. Frame(c, CallCells(c))
  BY <1>1, <1>2, <1>5 DEF Frame, LocalsInv, loaded
<1>8. request[c] \in EncodeRequest /\ pc'[c] = "returned" /\ status'[c] = code
  BY <1>1, <1>2 DEF AtPC, LocalsInv
<1>9. Thread(c)'
  <2>1. AtPC(c)'
    BY <1>8, RequestFacts DEF AtPC
  <2>2. HoldsAnswer(c)'
    BY <1>8 DEF HoldsAnswer
  <2>3. TellsWhatToFree(c)'
    <3>1. cell'[ErrorCell(c)] # NULL
      BY <1>5, CellFacts
    <3>2. \A i \in 1..Len(request[c].texts) : cell'[ResultCell(c, i)] = NULL
      BY <1>5, <1>8, TextFacts, CellFacts
    <3> QED
      BY <1>8, <3>1, <3>2 DEF TellsWhatToFree, ErrorCell, ResultCell
  <2> QED
    BY <2>1, <2>2, <2>3 DEF Thread
<1> QED
  BY <1>5, <1>6, <1>7, <1>9, RequestsUnchanged, StepOfOneThread DEF OwnCells

\* tokenizers_encode(_batch): the view chosen exists, or a message is handed out.
LEMMA EnterSafe ==
  ASSUME IInv, NEW c \in Client, Enter(c)
  PROVE  IInv' /\ Footprint(c)
<1> DEFINE malformed == \E i \in 1..Len(request[c].texts) : request[c].texts[i] = MalformedText
           choice == IF malformed THEN "InvalidArgument"
                     ELSE tokenizer_for_encode(request[c].flags)
<1>1. LocalsInv /\ MemoryInv /\ WrapperInv /\ AtPC(c)
  BY DEF IInv, Thread
<1>2. pc[c] = "enter" /\ UNCHANGED <<loaded, open, request, data, outcome>>
  BY DEF Enter
<1>3. choice \in {"InvalidArgument", "Unsupported"} \cup ViewName
  BY DEF tokenizer_for_encode, ViewName
<1>4. choice \in ViewName => wrapper[choice] \in View /\ ~malformed
  BY <1>1 DEF tokenizer_for_encode, ViewName, WrapperInv
<1>5. \/ choice \in ErrorCode /\ FailWith(c, choice) /\ UNCHANGED view
      \/ /\ choice \in ViewName /\ NullOut(c) /\ UNCHANGED status
         /\ view' = [view EXCEPT ![c] = choice]
         /\ pc' = [pc EXCEPT ![c] = "tokenize"]
  BY DEF Enter
<1> HIDE DEF choice, malformed
<1>6. CASE choice \in ErrorCode /\ FailWith(c, choice) /\ UNCHANGED view
  <2>1. choice \in {"InvalidArgument", "Unsupported", "Internal"}
    BY <1>3, <1>6 DEF ErrorCode, ViewName
  <2> QED
    BY <1>2, <1>6, <2>1, FailWithSafe
<1>7. CASE /\ choice \in ViewName /\ NullOut(c) /\ UNCHANGED status
           /\ view' = [view EXCEPT ![c] = choice]
           /\ pc' = [pc EXCEPT ![c] = "tokenize"]
  <2>1. \A k \in CallCells(c) : cell[k] = NULL
    BY <1>1, <1>2 DEF AtPC
  <2>2. UNCHANGED memory
    BY <1>1, <1>7, <2>1, NullOutSafe DEF memory
  <2>3. MemoryInv' /\ Kept({})
    BY <1>1, <2>2, MemoryUnchanged
  <2>4. LocalsInv'
    BY <1>1, <1>2, <1>7 DEF LocalsInv, PC
  <2>5. Frame(c, {})
    BY <1>1, <1>2, <1>7, <2>3 DEF Frame, LocalsInv, loaded
  <2>6. pc'[c] = "tokenize" /\ view'[c] = choice
    BY <1>1, <1>7 DEF LocalsInv
  <2>7. Thread(c)'
    <3>1. AtPC(c)'
      <4>1. request[c] \in EncodeRequest /\ request[c] # NoRequest
        BY <1>1, <1>2, RequestFacts DEF AtPC
      <4>2. wrapper'[view'[c]] \in View
        BY <1>2, <1>4, <1>7, <2>6 DEF loaded
      <4>3. \A i \in 1..Len(request[c].texts) : request[c].texts[i] # MalformedText
        BY <1>4, <1>7 DEF malformed
      <4>4. \A k \in CallCells(c) : cell'[k] = NULL
        BY <2>1, <2>2 DEF memory
      <4> QED
        BY <1>2, <2>6, <4>1, <4>2, <4>3, <4>4 DEF AtPC, CallCells
    <3> QED
      BY <2>6, <3>1 DEF Thread, HoldsAnswer, TellsWhatToFree
  <2> QED
    BY <1>2, <2>3, <2>4, <2>5, <2>7, RequestsUnchanged, StepOfOneThread DEF OwnCells
<1> QED
  BY <1>5, <1>6, <1>7

\* A batch that succeeds hands out one buffer per text and no message.
LEMMA TokenizeSafe ==
  ASSUME IInv, NEW c \in Client, Tokenize(c)
  PROVE  IInv' /\ Footprint(c)
<1> DEFINE r == request[c]
           cells == {ResultCell(c, i) : i \in 1..Len(r.texts)}
           content == [k \in cells |->
                         Ids(EncodeText(wrapper[view[c]], r.texts[k[2]], r.add_special_tokens))]
<1>1. /\ LocalsInv /\ MemoryInv /\ AtPC(c) /\ pc[c] = "tokenize"
      /\ UNCHANGED <<loaded, open, request, view, data, outcome>>
  BY DEF IInv, Thread, Tokenize
<1>2. /\ HandOut(c, content)
      /\ status' = [status EXCEPT ![c] = "Ok"]
      /\ pc' = [pc EXCEPT ![c] = "returned"]
  BY DEF Tokenize
<1>3. /\ r \in EncodeRequest /\ wrapper[view[c]] \in View
      /\ \A i \in 1..Len(r.texts) : r.texts[i] # MalformedText
      /\ \A k \in CallCells(c) : cell[k] = NULL
  BY <1>1 DEF AtPC
<1>4. DOMAIN content = cells /\ cells \subseteq CallCells(c)
  <2>1. cells \subseteq CallCells(c)
    BY <1>3, TextFacts, CellFacts
  <2> QED
    BY <2>1
<1>5. ASSUME NEW k \in cells PROVE content[k] \in ContentOf(k)
  <2>1. PICK i \in 1..Len(r.texts) : k = ResultCell(c, i)
    OBVIOUS
  <2>2. k[1] # Wrapper /\ k[2] = i /\ i # 0 /\ i \in 1..MaxBatch
    BY <1>3, <2>1, OwnersAssumption, BoundsAssumption, TextFacts DEF ResultCell
  <2>3. r.texts[i] \in Utf8Text /\ r.add_special_tokens \in BOOLEAN
    BY <1>3, TextFacts, RequestFacts DEF Text
  <2>4. EncodeText(wrapper[view[c]], r.texts[i], r.add_special_tokens) \in Seq(Id)
    BY <1>3, <2>3, EncodeTextType
  <2>5. content[k] = Ids(EncodeText(wrapper[view[c]], r.texts[i], r.add_special_tokens))
    BY <2>2
  <2> QED
    BY <2>2, <2>4, <2>5 DEF ContentOf, Ids
<1> HIDE DEF content
<1>6. /\ MemoryInv' /\ Kept(CallCells(c))
      /\ \A k \in CallCells(c) : cell'[k] # NULL <=> k \in cells
  <2> HIDE DEF cells
  <2> QED
    BY <1>1, <1>2, <1>3, <1>4, <1>5, HandOutSafe
<1>7. LocalsInv'
  BY <1>1, <1>2 DEF LocalsInv, PC, Status
<1>8. Frame(c, CallCells(c))
  BY <1>1, <1>2, <1>6 DEF Frame, LocalsInv, loaded
<1>9. pc'[c] = "returned" /\ status'[c] = "Ok"
  BY <1>1, <1>2 DEF LocalsInv
<1>10. Thread(c)'
  <2>1. AtPC(c)'
    BY <1>1, <1>3, <1>9, RequestFacts DEF AtPC
  <2>2. TellsWhatToFree(c)'
    <3>1. cell'[ErrorCell(c)] = NULL
      <4>1. ErrorCell(c) \in CallCells(c) /\ ErrorCell(c) \notin cells
        BY <1>3, TextFacts, CellFacts
      <4> QED
        BY <1>6, <4>1
    <3>2. \A i \in 1..Len(r.texts) : cell'[ResultCell(c, i)] # NULL
      BY <1>4, <1>6
    <3> QED
      BY <1>1, <1>9, <3>1, <3>2 DEF TellsWhatToFree, ErrorCell, ResultCell
  <2> QED
    BY <1>9, <2>1, <2>2 DEF Thread, HoldsAnswer
<1> QED
  BY <1>1, <1>6, <1>7, <1>8, <1>10, RequestsUnchanged, StepOfOneThread DEF OwnCells

\* A batch that fails hands out a message and no buffer.
LEMMA TokenizeFailsSafe ==
  ASSUME IInv, NEW c \in Client, TokenizeFails(c)
  PROVE  IInv' /\ Footprint(c)
BY FailWithSafe DEF TokenizeFails

\* What a thread reads through its result cells are sequences of ids.
LEMMA ResultsType ==
  ASSUME IInv, NEW c \in Client, pc[c] = "returned"
  PROVE  Results(c) \in Seq(Seq(Id))
<1>1. request[c] \in EncodeRequest /\ MemoryInv
  BY DEF IInv, Thread, AtPC
<1>2. ASSUME NEW i \in 1..Len(request[c].texts)
      PROVE  IdsAt(cell[ResultCell(c, i)]) \in Seq(Id)
  <2> DEFINE k == ResultCell(c, i)
  <2>1. k \in Cell /\ k[1] # Wrapper /\ k[2] # 0
    BY <1>1, TextFacts, CellFacts, BoundsAssumption, OwnersAssumption DEF ResultCell
  <2>2. CASE cell[k] = NULL
    BY <2>2, EmptySeq DEF IdsAt
  <2>3. CASE cell[k] # NULL
    <3>1. heap[cell[k]] \in {"ids"} \X Seq(Id)
      BY <1>1, <2>1, <2>3 DEF MemoryInv, OwnsItsKind, ContentOf
    <3> QED
      BY <2>3, <3>1 DEF IdsAt
  <2> QED
    BY <2>2, <2>3
<1>3. Len(request[c].texts) \in Nat
  BY <1>1, TextFacts
<1> QED
  BY <1>2, <1>3, IsASeq DEF Results

\* What a caller reads through its pointers is an answer of the right type.
LEMMA ReadResultSafe ==
  ASSUME IInv, NEW c \in Client, ReadResult(c)
  PROVE  IInv' /\ Footprint(c)
<1>1. /\ LocalsInv /\ AtPC(c) /\ pc[c] = "returned"
      /\ UNCHANGED <<loaded, open, memory, request, locals>>
      /\ pc' = [pc EXCEPT ![c] = "release"]
  BY DEF IInv, Thread, ReadResult
<1>2. outcome' \in [Client -> Outcome]
  <2>1. PICK answer : outcome' = [outcome EXCEPT ![c] = answer] /\ answer \in Outcome
    <3>1. status[c] # "Ok" => status[c] \in ErrorCode
      BY <1>1 DEF LocalsInv, Status, ErrorCode
    <3> QED
      BY <1>1, <3>1, ResultsType, OutcomeFacts DEF ReadResult, ErrorCode
  <2> QED
    BY <1>1, <2>1 DEF LocalsInv
<1>3. MemoryInv' /\ Kept({})
  BY <1>1, MemoryUnchanged DEF IInv
<1>4. LocalsInv'
  BY <1>1, <1>2 DEF LocalsInv, locals, PC
<1>5. Frame(c, {})
  BY <1>1, <1>3 DEF Frame, LocalsInv, loaded, locals
<1>6. Thread(c)'
  <2>1. pc'[c] = "release" /\ request'[c] # NoRequest
    BY <1>1, RequestFacts DEF LocalsInv, AtPC
  <2> QED
    BY <2>1 DEF Thread, AtPC, HoldsAnswer, TellsWhatToFree
<1> QED
  BY <1>1, <1>3, <1>4, <1>5, <1>6, RequestsUnchanged, StepOfOneThread DEF OwnCells

\* Freeing the cells of a call leaves nothing behind and nobody else without.
LEMMA ReleaseSafe ==
  ASSUME IInv, NEW c \in Client, Release(c)
  PROVE  IInv' /\ Footprint(c)
<1>1. /\ LocalsInv /\ MemoryInv /\ AtPC(c) /\ pc[c] \in {"release", "done"}
      /\ FreeCells(CallCells(c))
      /\ pc' = [pc EXCEPT ![c] = "done"]
      /\ view' = [view EXCEPT ![c] = "tokenizer"]
      /\ status' = [status EXCEPT ![c] = "Ok"]
      /\ UNCHANGED <<loaded, open, request, data, outcome>>
  BY DEF IInv, Thread, Release
<1>2. /\ MemoryInv' /\ Kept(CallCells(c))
      /\ \A k \in CallCells(c) : cell'[k] = NULL
  BY <1>1, CellFacts, FreeCellsSafe
<1>3. LocalsInv'
  BY <1>1 DEF LocalsInv, PC, Status, ViewName
<1>4. Frame(c, CallCells(c))
  BY <1>1, <1>2 DEF Frame, LocalsInv, loaded
<1>5. Thread(c)'
  <2>1. pc'[c] = "done" /\ request'[c] # NoRequest
    BY <1>1 DEF LocalsInv, AtPC
  <2> QED
    BY <1>2, <2>1 DEF Thread, AtPC, HoldsAnswer, TellsWhatToFree, CallCells
<1> QED
  BY <1>1, <1>2, <1>3, <1>4, <1>5, RequestsUnchanged, StepOfOneThread DEF OwnCells

\* A C++ allocation that fails still leaves the way to Release open.
LEMMA OutOfMemorySafe ==
  ASSUME IInv, NEW c \in Client, OutOfMemory(c)
  PROVE  IInv' /\ Footprint(c)
<1>1. /\ LocalsInv /\ AtPC(c) /\ pc[c] \in {"validate", "enter", "returned", "copy"}
      /\ UNCHANGED <<loaded, open, memory, request, view, status>>
      /\ pc' = [pc EXCEPT ![c] = IF pc[c] = "returned" THEN "release" ELSE "done"]
      /\ outcome' = [outcome EXCEPT ![c] = Throw("bad_alloc")]
      /\ data' = [data EXCEPT ![c] = NULL]
  BY DEF IInv, Thread, OutOfMemory
<1>2. MemoryInv' /\ Kept({})
  BY <1>1, MemoryUnchanged DEF IInv
<1>3. LocalsInv'
  BY <1>1, OutcomeFacts DEF LocalsInv, PC, ErrorCode
<1>4. Frame(c, {})
  BY <1>1, <1>2 DEF Frame, LocalsInv, loaded
<1>5. Thread(c)'
  <2>1. /\ request'[c] # NoRequest
        /\ \/ pc[c] = "returned" /\ pc'[c] = "release"
           \/ pc[c] # "returned" /\ pc'[c] = "done"
    BY <1>1 DEF LocalsInv, AtPC
  <2>2. pc[c] # "returned" => \A k \in CallCells(c) : cell'[k] = NULL
    BY <1>1 DEF AtPC, memory
  <2> QED
    BY <2>1, <2>2 DEF Thread, AtPC, HoldsAnswer, TellsWhatToFree, CallCells
<1> QED
  BY <1>1, <1>2, <1>3, <1>4, <1>5, RequestsUnchanged, StepOfOneThread DEF OwnCells

\* A call that is over owns nothing.
LEMMA ReturnSafe ==
  ASSUME IInv, NEW c \in Client, Return(c)
  PROVE  IInv' /\ Footprint(c)
<1>1. /\ LocalsInv /\ AtPC(c) /\ pc[c] = "done"
      /\ UNCHANGED <<loaded, open, memory, locals>>
      /\ pc' = [pc EXCEPT ![c] = "idle"]
      /\ request' = [request EXCEPT ![c] = NoRequest]
      /\ outcome' = [outcome EXCEPT ![c] = NoOutcome]
  BY DEF IInv, Thread, Return
<1>2. MemoryInv' /\ Kept({})
  BY <1>1, MemoryUnchanged DEF IInv
<1>3. LocalsInv'
  BY <1>1, OutcomeFacts DEF LocalsInv, PC, locals
<1>4. Frame(c, {})
  BY <1>1, <1>2 DEF Frame, LocalsInv, loaded, locals
<1>5. pc'[c] = "idle" /\ request'[c] = NoRequest
  BY <1>1 DEF LocalsInv
<1>6. ScratchExclusion'
  <2>1. \A d \in Client : request'[d] = request[d] \/ request'[d] = NoRequest
    BY <1>1 DEF LocalsInv
  <2> QED
    BY <2>1, RequestFacts DEF IInv, ScratchExclusion, UsesScratch
<1>7. Thread(c)'
  <2>1. \A k \in CallCells(c) : cell'[k] = NULL
    BY <1>1 DEF AtPC, memory
  <2> QED
    BY <1>5, <2>1 DEF Thread, AtPC, HoldsAnswer, TellsWhatToFree, CallCells
<1> QED
  BY <1>1, <1>2, <1>3, <1>4, <1>6, <1>7, StepOfOneThread DEF OwnCells

\* tokenizers_decode replaces the scratch string of a call that has it for itself.
LEMMA DecodeSafe ==
  ASSUME IInv, NEW c \in Client, Decode(c)
  PROVE  IInv' /\ Footprint(c)
<1> DEFINE s == Scratch("decode_str")
           ids == DecodeIds(wrapper.tokenizer, request[c].ids, request[c].skip_special_tokens)
<1>1. /\ LocalsInv /\ MemoryInv /\ WrapperInv /\ AtPC(c) /\ pc[c] = "decode"
      /\ pc' = [pc EXCEPT ![c] = "get_decode_str"]
      /\ UNCHANGED <<loaded, open, request, locals, outcome>>
  BY DEF IInv, Thread, Decode
<1>2. request[c] \in DecodeRequest
  BY <1>1 DEF AtPC
<1>3. ids \in String /\ << >> \in String
  <2>1. request[c].ids \in Seq(Id) /\ request[c].skip_special_tokens \in BOOLEAN
    BY <1>2, RequestFacts, BoundsAssumption
  <2> QED
    BY <1>1, <2>1, DecodeIdsType, EmptySeq DEF WrapperInv, String
<1>4. PICK string \in {ids, << >>} : AssignString(s, string)
  BY DEF Decode
<1>5. string \in StringAnswers(request[c])
  BY <1>2, RequestFacts DEF StringAnswers
<1> HIDE DEF ids
<1>6. /\ MemoryInv' /\ Kept({s})
      /\ cell'[s] # NULL /\ heap'[cell'[s]] = Str(string)
  BY <1>1, <1>3, <1>4, AssignStringSafe
<1>7. LocalsInv'
  BY <1>1 DEF LocalsInv, PC, locals
<1>8. Frame(c, {s})
  BY <1>1, <1>6 DEF Frame, LocalsInv, loaded, locals
<1>9. pc'[c] = "get_decode_str" /\ request'[c] = request[c]
  BY <1>1 DEF LocalsInv
<1>10. Thread(c)'
  <2>1. \A k \in CallCells(c) : cell'[k] = NULL
    BY <1>1, <1>6, CellFacts DEF AtPC, Kept
  <2>2. AtPC(c)'
    BY <1>2, <1>9, <2>1, RequestFacts DEF AtPC, CallCells
  <2>3. HoldsAnswer(c)'
    <3>1. ScratchOf(request'[c]) = s
      BY <1>2, <1>9, RequestFacts
    <3>2. StringAnswers(request[c])' = StringAnswers(request[c])
      BY <1>1 DEF StringAnswers, loaded
    <3>3. ScratchOf(request[c])' = s
      BY <3>1 DEF ScratchOf, Scratch
    <3> HIDE DEF s
    <3> QED
      BY <1>5, <1>6, <1>9, <3>2, <3>3 DEF HoldsAnswer, Str
  <2> QED
    BY <1>9, <2>2, <2>3 DEF Thread, TellsWhatToFree
<1> QED
  <2>1. OwnCells(c, {s})
    BY <1>2, RequestFacts DEF OwnCells
  <2> QED
    BY <1>1, <1>6, <1>7, <1>8, <1>10, <2>1, RequestsUnchanged, StepOfOneThread

\* The pointer to the decoded string leads to the string just decoded.
LEMMA GetDecodeStrSafe ==
  ASSUME IInv, NEW c \in Client, GetDecodeStr(c)
  PROVE  IInv' /\ Footprint(c)
<1> DEFINE s == Scratch("decode_str")
<1>1. /\ LocalsInv /\ MemoryInv /\ AtPC(c) /\ HoldsAnswer(c) /\ pc[c] = "get_decode_str"
      /\ data' = [data EXCEPT ![c] = cell[s]]
      /\ pc' = [pc EXCEPT ![c] = "copy"]
      /\ UNCHANGED <<loaded, open, memory, request, view, status, outcome>>
  BY DEF IInv, Thread, GetDecodeStr
<1>2. request[c] \in DecodeRequest
  BY <1>1 DEF AtPC
<1>3. ScratchOf(request[c]) = s /\ s \in Cell
  BY <1>2, RequestFacts, CellFacts
<1> HIDE DEF s
<1>4. MemoryInv' /\ Kept({})
  BY <1>1, MemoryUnchanged
<1>5. LocalsInv'
  BY <1>1, <1>3 DEF LocalsInv, MemoryInv, PC
<1>6. Frame(c, {})
  BY <1>1, <1>4 DEF Frame, LocalsInv, loaded
<1>7. pc'[c] = "copy" /\ data'[c] = cell[s]
  BY <1>1 DEF LocalsInv
<1>8. Thread(c)'
  <2>1. AtPC(c)'
    BY <1>1, <1>2, <1>7, RequestFacts DEF AtPC, memory, CallCells
  <2>2. HoldsAnswer(c)'
    <3>1. ScratchOf(request[c])' = s
      BY <1>1, <1>3 DEF ScratchOf, Scratch
    <3>2. StringAnswers(request[c])' = StringAnswers(request[c])
      BY <1>1 DEF StringAnswers, loaded
    <3> QED
      BY <1>1, <1>3, <1>7, <3>1, <3>2 DEF HoldsAnswer, Str, memory
  <2> QED
    BY <1>7, <2>1, <2>2 DEF Thread, TellsWhatToFree
<1> QED
  BY <1>1, <1>4, <1>5, <1>6, <1>8, RequestsUnchanged, StepOfOneThread DEF OwnCells

\* tokenizers_id_to_token replaces the other scratch string.
LEMMA LookupTokenSafe ==
  ASSUME IInv, NEW c \in Client, LookupToken(c)
  PROVE  IInv' /\ Footprint(c)
<1> DEFINE s == Scratch("id_to_token_result")
           string == TokenString(wrapper.tokenizer, request[c].id)
<1>1. /\ LocalsInv /\ MemoryInv /\ WrapperInv /\ AtPC(c) /\ pc[c] = "lookup"
      /\ AssignString(s, string)
      /\ data' = [data EXCEPT ![c] = cell'[s]]
      /\ pc' = [pc EXCEPT ![c] = "copy"]
      /\ UNCHANGED <<loaded, open, request, view, status, outcome>>
  BY DEF IInv, Thread, LookupToken
<1>2. request[c] \in TokenRequest
  BY <1>1 DEF AtPC
<1>3. string \in String
  <2>1. request[c].id \in Id
    BY <1>2, RequestFacts, BoundsAssumption
  <2> QED
    BY <1>1, <2>1, TokenStringType DEF WrapperInv
<1>4. string \in StringAnswers(request[c])
  BY <1>2, RequestFacts DEF StringAnswers
<1>5. ScratchOf(request[c]) = s /\ s \in Cell
  BY <1>2, RequestFacts, CellFacts
<1> HIDE DEF string
<1>6. /\ MemoryInv' /\ Kept({s})
      /\ cell'[s] # NULL /\ heap'[cell'[s]] = Str(string)
  BY <1>1, <1>3, AssignStringSafe
<1>7. LocalsInv'
  BY <1>1, <1>5, <1>6 DEF LocalsInv, MemoryInv, PC
<1>8. Frame(c, {s})
  BY <1>1, <1>6 DEF Frame, LocalsInv, loaded
<1>9. pc'[c] = "copy" /\ data'[c] = cell'[s]
  BY <1>1 DEF LocalsInv
<1>10. Thread(c)'
  <2>1. \A k \in CallCells(c) : cell'[k] = NULL
    BY <1>1, <1>6, CellFacts DEF AtPC, Kept
  <2>2. AtPC(c)'
    BY <1>1, <1>2, <1>9, <2>1, RequestFacts DEF AtPC, CallCells
  <2>3. HoldsAnswer(c)'
    <3>1. ScratchOf(request[c])' = s
      BY <1>1, <1>5 DEF ScratchOf, Scratch
    <3>2. StringAnswers(request[c])' = StringAnswers(request[c])
      BY <1>1 DEF StringAnswers, loaded
    <3> HIDE DEF s
    <3> QED
      BY <1>4, <1>6, <1>9, <3>1, <3>2 DEF HoldsAnswer, Str
  <2> QED
    BY <1>9, <2>2, <2>3 DEF Thread, TellsWhatToFree
<1> QED
  <2>1. OwnCells(c, {s})
    BY <1>2, <1>5, RequestFacts DEF OwnCells
  <2> QED
    BY <1>1, <1>6, <1>7, <1>8, <1>10, <2>1, RequestsUnchanged, StepOfOneThread

\* Copying a string out of the scratch string changes no memory.
LEMMA CopyStringSafe ==
  ASSUME IInv, NEW c \in Client, CopyString(c)
  PROVE  IInv' /\ Footprint(c)
<1>1. /\ LocalsInv /\ MemoryInv /\ AtPC(c) /\ HoldsAnswer(c) /\ pc[c] = "copy"
      /\ Finish(c, Value(heap[data[c]][2]))
      /\ data' = [data EXCEPT ![c] = NULL]
      /\ UNCHANGED <<loaded, open, memory, request, view, status>>
  BY DEF IInv, Thread, CopyString
<1>2. Value(heap[data[c]][2]) \in Outcome
  <2>1. ScratchOf(request[c]) \in Cell /\ ScratchOf(request[c])[1] = Wrapper
    BY CellFacts DEF ScratchOf, Scratch
  <2>2. /\ cell[ScratchOf(request[c])] # NULL
        /\ data[c] = cell[ScratchOf(request[c])]
    BY <1>1 DEF HoldsAnswer
  <2>3. heap[data[c]] \in {"string"} \X String
    BY <1>1, <2>1, <2>2 DEF MemoryInv, OwnsItsKind, ContentOf
  <2> QED
    BY <2>3, OutcomeFacts
<1>3. MemoryInv' /\ Kept({})
  BY <1>1, MemoryUnchanged
<1>4. LocalsInv'
  BY <1>1, <1>2 DEF LocalsInv, PC, Finish
<1>5. Frame(c, {})
  BY <1>1, <1>3 DEF Frame, LocalsInv, loaded, Finish
<1>6. Thread(c)'
  <2>1. pc'[c] = "done" /\ request'[c] # NoRequest
    BY <1>1 DEF LocalsInv, AtPC, Finish
  <2>2. \A k \in CallCells(c) : cell'[k] = NULL
    BY <1>1 DEF AtPC, memory
  <2> QED
    BY <2>1, <2>2 DEF Thread, AtPC, HoldsAnswer, TellsWhatToFree, CallCells
<1> QED
  BY <1>1, <1>3, <1>4, <1>5, <1>6, RequestsUnchanged, StepOfOneThread DEF OwnCells

\* Destroying the tokenizer frees the scratch strings, which no thread reads.
LEMMA CloseSafe ==
  ASSUME IInv, Close
  PROVE  IInv'
<1> DEFINE K == {Scratch("decode_str"), Scratch("id_to_token_result")}
<1>1. /\ LocalsInv /\ MemoryInv /\ WrapperInv
      /\ \A c \in Client : pc[c] = "idle"
      /\ open' = FALSE
      /\ FreeCells(K)
      /\ UNCHANGED <<loaded, pc, request, locals, outcome>>
  BY DEF IInv, Close
<1>2. K \subseteq Cell /\ \A c \in Client : K \cap CallCells(c) = {}
  BY CellFacts
<1> HIDE DEF K
<1>3. MemoryInv' /\ Kept(K)
  BY <1>1, <1>2, FreeCellsSafe
<1>4. LocalsInv' /\ WrapperInv'
  BY <1>1 DEF LocalsInv, WrapperInv, locals, loaded
<1>5. ASSUME NEW c \in Client PROVE Thread(c)'
  <2>1. AtPC(c)
    BY DEF IInv, Thread
  <2>2. \A k \in CallCells(c) : cell'[k] = NULL
    BY <1>1, <1>2, <1>3, <2>1, CellFacts DEF AtPC, Kept
  <2> QED
    BY <1>1, <2>1, <2>2 DEF Thread, AtPC, HoldsAnswer, TellsWhatToFree, CallCells
<1> QED
  BY <1>1, <1>3, <1>4, <1>5, RequestsUnchanged DEF IInv

------------------------------------------------------------------------------
(* The theorems                                                              *)

\* Both factories establish the invariant.
LEMMA InitSafe == Init => IInv
<1> SUFFICES ASSUME Init PROVE IInv
  OBVIOUS
<1> USE DEF Init
<1>1. MemoryInv
  <2>1. \A a \in Addr : heap[a] = Free
    OBVIOUS
  <2>2. \A k \in Cell : cell[k] = NULL
    OBVIOUS
  <2> QED
    BY <2>1, <2>2 DEF MemoryInv, NotLeaked, NotShared, OwnsItsKind
<1>2. WrapperInv
  <2>1. JsonView \in View /\ [JsonView EXCEPT !.encode_special_tokens = TRUE] \in View
        /\ [JsonView EXCEPT !.added_vocabulary = {}] \in View
    BY DEF JsonView, View
  <2>2. [added_vocabulary |-> {}, encode_special_tokens |-> FALSE,
         post_processor |-> << >>] \in View
    BY DEF View
  <2>3. supports_encode_flags \in BOOLEAN /\ open \in BOOLEAN
    BY DEF FromJson, FromByteLevelBpe
  <2>4. CASE FromJson
    <3> DEFINE special == [JsonView EXCEPT !.encode_special_tokens = TRUE]
               added == [JsonView EXCEPT !.added_vocabulary = {}]
    <3>1. wrapper = [tokenizer |-> JsonView, ignore_special_tokens |-> special,
                     ignore_added_tokens |-> added]
      BY <2>4 DEF FromJson
    <3>2. special \in View /\ added \in View /\ JsonView \in View
      BY <2>1
    <3> HIDE DEF special, added
    <3> QED
      BY <2>3, <3>1, <3>2 DEF WrapperInv, ViewName
  <2>5. CASE FromByteLevelBpe
    <3> DEFINE base == [added_vocabulary |-> {}, encode_special_tokens |-> FALSE,
                        post_processor |-> << >>]
    <3>1. wrapper = [tokenizer |-> base, ignore_special_tokens |-> None,
                     ignore_added_tokens |-> None]
      BY <2>5 DEF FromByteLevelBpe
    <3>2. base \in View
      BY <2>2
    <3> HIDE DEF base
    <3> QED
      BY <2>3, <3>1, <3>2 DEF WrapperInv, ViewName
  <2> QED
    BY <2>4, <2>5
<1>3. LocalsInv
  BY OutcomeFacts DEF LocalsInv, PC, ViewName, Status
<1>4. ScratchExclusion
  BY RequestFacts DEF ScratchExclusion
<1>5. ASSUME NEW c \in Client PROVE Thread(c)
  <2>1. \A k \in CallCells(c) : cell[k] = NULL
    BY CellFacts
  <2> QED
    BY <2>1 DEF Thread, AtPC, HoldsAnswer, TellsWhatToFree
<1> QED
  BY <1>1, <1>2, <1>3, <1>4, <1>5 DEF IInv

\* Every step of a thread preserves the invariant and keeps to what is its own.
LEMMA ThreadSafe ==
  ASSUME IInv, NEW c \in Client, Step(c) \/ \E r \in Request : Invoke(c, r)
  PROVE  IInv' /\ Footprint(c)
BY InvokeSafe, ValidateSafe, EnterSafe, TokenizeSafe, TokenizeFailsSafe, ReadResultSafe,
   ReleaseSafe, DecodeSafe, GetDecodeStrSafe, LookupTokenSafe, CopyStringSafe,
   OutOfMemorySafe, ReturnSafe DEF Step

\* Every step keeps the invariant: this is what makes it inductive.
LEMMA StepSafe == IInv /\ [Next]_vars => IInv'
<1> SUFFICES ASSUME IInv, [Next]_vars PROVE IInv'
  OBVIOUS
<1>1. ASSUME NEW c \in Client, (\E r \in Request : Invoke(c, r)) \/ Step(c) PROVE IInv'
  BY <1>1, ThreadSafe
<1>2. CASE Close
  BY <1>2, CloseSafe
<1>3. CASE UNCHANGED vars
  <2>1. UNCHANGED memory /\ UNCHANGED <<wrapper, supports_encode_flags, open, pc, request,
                                       view, status, data, outcome>>
    BY <1>3 DEF vars, memory
  <2>2. MemoryInv' /\ ScratchExclusion'
    BY <2>1, MemoryUnchanged, RequestsUnchanged DEF IInv
  <2>3. WrapperInv' /\ LocalsInv'
    BY <2>1 DEF IInv, WrapperInv, LocalsInv
  <2>4. ASSUME NEW c \in Client PROVE Thread(c)'
    <3>1. Thread(c)
      BY DEF IInv
    <3>2. StringAnswers(request[c])' = StringAnswers(request[c])
      BY <2>1 DEF StringAnswers
    <3>3. ScratchOf(request[c])' = ScratchOf(request[c])
      BY <2>1 DEF ScratchOf, Scratch
    <3>4. AtPC(c)' /\ TellsWhatToFree(c)'
      BY <2>1, <3>1 DEF Thread, AtPC, TellsWhatToFree, memory, CallCells, ErrorCell, ResultCell
    <3>5. HoldsAnswer(c)'
      BY <2>1, <3>1, <3>2, <3>3 DEF Thread, HoldsAnswer, memory, Str
    <3> QED
      BY <3>4, <3>5 DEF Thread
  <2> QED
    BY <2>2, <2>3, <2>4 DEF IInv
<1> QED
  BY <1>1, <1>2, <1>3 DEF Next

\* The inductive invariant holds in every reachable state.
THEOREM InvariantHolds == Spec => []IInv
BY InitSafe, StepSafe, PTL DEF Spec

\* Every variable keeps its type, however many threads share the tokenizer.
THEOREM TypeCorrect == Spec => []TypeOK
<1>1. IInv => TypeOK
  BY DEF IInv, MemoryInv, WrapperInv, LocalsInv, TypeOK
<1> QED
  BY <1>1, InvariantHolds, PTL

\* Every box handed over the ABI is freed by one owner and used by nobody
\* afterwards: rust/src/lib.rs with its callers in src/huggingface_tokenizer.cc.
THEOREM OwnershipSafe == Spec => []MemoryOwnedOnce
<1>1. IInv => MemoryOwnedOnce
  <2> SUFFICES ASSUME IInv PROVE MemoryOwnedOnce
    OBVIOUS
  <2>1. NotDangling
    BY OwnedIsAllocated DEF IInv, NotDangling
  <2> QED
    BY <2>1 DEF IInv, MemoryInv, MemoryOwnedOnce
<1> QED
  BY <1>1, InvariantHolds, PTL

\* The status of a call tells its caller exactly which pointers it was given.
THEOREM StatusContract == Spec => []StatusTellsWhatToFree
<1>1. IInv => StatusTellsWhatToFree
  BY DEF IInv, Thread, TellsWhatToFree, StatusTellsWhatToFree
<1> QED
  BY <1>1, InvariantHolds, PTL

\* The pointers Decode and IdToToken copy from lead to their own answers, when
\* callers exclude each other per scratch string and not otherwise.
THEOREM ScratchStringsSafe == Spec => []PointerStaysValid
<1>1. IInv => PointerStaysValid
  BY DEF IInv, Thread, HoldsAnswer, PointerStaysValid
<1> QED
  BY <1>1, InvariantHolds, PTL

\* A step that moves or changes a box of a call moves the thread of that call.
LEMMA StepKeepsBuffers ==
  ASSUME IInv, Next, NEW c \in Client, NEW k \in CallCells(c),
         cell[k] # NULL, pc'[c] = pc[c]
  PROVE  cell'[k] = cell[k] /\ heap'[cell[k]] = heap[cell[k]]
<1>1. k \in Cell
  BY CellFacts
<1>2. AtPC(c) /\ LocalsInv /\ MemoryInv
  BY DEF IInv, Thread
<1>3. pc[c] \in {"returned", "release"}
  BY <1>2 DEF AtPC
<1>4. ASSUME NEW d \in Client, (\E r \in Request : Invoke(d, r)) \/ Step(d), d # c
      PROVE  cell'[k] = cell[k] /\ heap'[cell[k]] = heap[cell[k]]
  <2>1. PICK K \in SUBSET Cell : Frame(d, K) /\ OwnCells(d, K)
    BY <1>4, ThreadSafe DEF Footprint
  <2>2. k \notin K
    BY <1>4, <2>1, CellFacts DEF OwnCells, ScratchOf
  <2> QED
    BY <1>1, <2>1, <2>2 DEF Frame, Kept
<1>5. ~ ((\E r \in Request : Invoke(c, r)) \/ Step(c))
  BY <1>2, <1>3
     DEF Step, Invoke, Validate, Enter, Tokenize, TokenizeFails, ReadResult, Release, Decode,
         GetDecodeStr, LookupToken, CopyString, OutOfMemory, Return, LocalsInv
<1>6. CASE Close
  BY <1>3, <1>6 DEF Close
<1> QED
  BY <1>4, <1>5, <1>6 DEF Next

\* What one call was handed is out of reach of every other call, for any number
\* of them in flight.
THEOREM BuffersSafe == Spec => BuffersStayPut
<1> DEFINE A == \A c \in Client : \A k \in CallCells(c) :
                  cell[k] # NULL /\ UNCHANGED pc[c] =>
                    cell'[k] = cell[k] /\ heap'[cell[k]] = heap[cell[k]]
<1>1. IInv /\ [Next]_vars => [A]_vars
  BY StepKeepsBuffers
<1>2. Spec => [][A]_vars
  BY <1>1, InvariantHolds, PTL DEF Spec
<1> QED
  BY <1>2 DEF BuffersStayPut
==============================================================================

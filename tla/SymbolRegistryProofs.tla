------------------------ MODULE SymbolRegistryProofs ------------------------
(***************************************************************************)
(* Theorems about SymbolRegistry, for any symbols, threads and runs of the *)
(* process.                                                                *)
(***************************************************************************)
EXTENDS SymbolRegistry, TLAPS

(* symbol_to_id_ and symbols_ agree: what the first has, the second leads  *)
(* back from.                                                              *)
TablesAgree ==
    \A s \in Symbols :
        idOf[s] # 0 => idOf[s] \in DOMAIN names /\ names[idOf[s]] = s

(* The distributor looks up frames of this run, so it finds their slots.   *)
ViewKnown ==
    reader["live"].busy =>
        reader["live"].frame \in frames /\ reader["live"].known

(* A view that was found has its slot for as long as it is held: names     *)
(* only grows.                                                             *)
ViewInRange ==
    \A r \in Readers :
        reader[r].busy /\ reader[r].known =>
            reader[r].frame.id \in DOMAIN names

IInv ==
    /\ TypeOK /\ TablesAgree /\ IdsAgree
    /\ ViewKnown /\ ViewInRange /\ LiveTopicRight

LEMMA InitIInv == Init => IInv
  <1> SUFFICES ASSUME Init PROVE IInv
    OBVIOUS
  <1>1. TypeOK
    BY RegistryAssumption
    DEF Init, TypeOK, FirstId, Readers, Idle, Nothing
  <1>2. TablesAgree /\ IdsAgree
    BY DEF Init, TablesAgree, IdsAgree
  <1>3. ViewKnown /\ ViewInRange /\ LiveTopicRight
    BY DEF Init, ViewKnown, ViewInRange, LiveTopicRight, Readers, Idle, Nothing
  <1> QED
    BY <1>1, <1>2, <1>3 DEF IInv

-----------------------------------------------------------------------------
(* What get_or_add, with its lock taken twice, does in each of its steps.  *)

(* The lookup that finds the symbol, under either lock.                    *)
LEMMA FoundStep ==
    ASSUME TypeOK, TablesAgree, IdsAgree, NEW s \in Symbols, idOf[s] # 0,
           Answer(s, idOf[s]), UNCHANGED registry
    PROVE  /\ TablesAgree' /\ IdsAgree'
           /\ frames' \subseteq Frame /\ frames \subseteq frames'
  <1>1. idOf[s] \in Nat \ {0} /\ [symbol |-> s, id |-> idOf[s]] \in Frame
    BY DEF TypeOK, Frame
  <1>2. frames' \subseteq Frame /\ frames \subseteq frames'
    BY <1>1 DEF Answer, TypeOK
  <1>3. TablesAgree'
    BY DEF TablesAgree, registry
  <1>4. IdsAgree'
    <2> SUFFICES ASSUME NEW f \in frames'
                 PROVE  /\ idOf[f.symbol] = f.id
                        /\ f.id \in DOMAIN names /\ names[f.id] = f.symbol
      BY DEF IdsAgree, registry
    <2>1. CASE f \in frames
      BY <2>1 DEF IdsAgree
    <2>2. CASE f = [symbol |-> s, id |-> idOf[s]]
      BY <2>2 DEF TablesAgree
    <2> QED
      BY <2>1, <2>2 DEF Answer
  <1> QED
    BY <1>2, <1>3, <1>4

(* A new identifier: no other symbol has it, nothing that was there moves, *)
(* and symbols_ has room for it.                                           *)
LEMMA RegisterStep ==
    ASSUME TypeOK, TablesAgree, IdsAgree, NEW s \in Symbols, idOf[s] = 0,
           Register(s)
    PROVE  /\ TablesAgree' /\ IdsAgree'
           /\ frames' \subseteq Frame /\ frames \subseteq frames'
           /\ idOf' \in [Symbols -> Nat] /\ names' \in Seq(Symbols)
           /\ nextId' \in Nat \ {0} /\ nextId' = Len(names') + 1
           /\ capacity' \in Nat /\ capacity' >= nextId'
           /\ storage' \in Nat
           /\ \A i \in DOMAIN names : i \in DOMAIN names'
                                       /\ names'[i] = names[i]
  <1>1. /\ nextId' \in Nat \ {0} /\ nextId' = Len(names') + 1
        /\ names' \in Seq(Symbols)
    BY DEF TypeOK, Register
  <1>2. /\ capacity' \in Nat /\ capacity' >= nextId'
        /\ storage' \in Nat
    <2>1. CASE nextId + 1 > capacity
      BY <2>1 DEF TypeOK, Register
    <2>2. CASE ~(nextId + 1 > capacity)
      BY <2>2 DEF TypeOK, Register
    <2> QED
      BY <2>1, <2>2
  <1>3. idOf' \in [Symbols -> Nat]
    BY DEF TypeOK, Register
  <1>4. /\ \A i \in DOMAIN names : i \in DOMAIN names'
                                    /\ names'[i] = names[i]
        /\ nextId \in DOMAIN names' /\ names'[nextId] = s
    BY DEF TypeOK, Register
  <1>5. /\ idOf'[s] = nextId
        /\ \A o \in Symbols : o # s => idOf'[o] = idOf[o]
    BY DEF TypeOK, Register
  <1>6. TablesAgree'
    <2> SUFFICES ASSUME NEW o \in Symbols, idOf'[o] # 0
                 PROVE  idOf'[o] \in DOMAIN names' /\ names'[idOf'[o]] = o
      BY DEF TablesAgree
    <2>1. CASE o = s
      BY <2>1, <1>4, <1>5
    <2>2. CASE o # s
      BY <2>2, <1>4, <1>5 DEF TablesAgree
    <2> QED
      BY <2>1, <2>2
  <1>7. [symbol |-> s, id |-> nextId] \in Frame
    BY DEF TypeOK, Frame
  <1>8. frames' \subseteq Frame /\ frames \subseteq frames'
    BY <1>7 DEF Register, Answer, TypeOK
  <1>9. IdsAgree'
    <2> SUFFICES ASSUME NEW f \in frames'
                 PROVE  /\ idOf'[f.symbol] = f.id
                        /\ f.id \in DOMAIN names' /\ names'[f.id] = f.symbol
      BY DEF IdsAgree
    <2>1. CASE f \in frames
      <3>1. f.symbol \in Symbols /\ f.id \in Nat \ {0}
        BY <2>1 DEF TypeOK, Frame
      <3>2. /\ idOf[f.symbol] = f.id
            /\ f.id \in DOMAIN names /\ names[f.id] = f.symbol
        BY <2>1 DEF IdsAgree
      <3>3. f.symbol # s
        BY <3>1, <3>2
      <3> QED
        BY <3>1, <3>2, <3>3, <1>4, <1>5
    <2>2. CASE f = [symbol |-> s, id |-> nextId]
      BY <2>2, <1>4, <1>5
    <2> QED
      BY <2>1, <2>2 DEF Register, Answer
  <1> QED
    BY <1>1, <1>2, <1>3, <1>4, <1>6, <1>8, <1>9

-----------------------------------------------------------------------------
LEMMA LookupIInv ==
    ASSUME IInv, NEW w \in Workers, NEW s \in Symbols, Lookup(w, s)
    PROVE  IInv'
  <1> USE DEF IInv
  <1>1. CASE idOf[s] # 0
    <2>1. Answer(s, idOf[s]) /\ UNCHANGED <<registry, adding, disk, reader,
                                             topic, run>>
      BY <1>1 DEF Lookup
    <2>2. /\ TablesAgree' /\ IdsAgree'
          /\ frames' \subseteq Frame /\ frames \subseteq frames'
      BY <1>1, <2>1, FoundStep
    <2>3. TypeOK'
      BY <2>1, <2>2 DEF TypeOK, registry
    <2>4. ViewKnown' /\ ViewInRange' /\ LiveTopicRight'
      BY <2>1, <2>2 DEF ViewKnown, ViewInRange, LiveTopicRight, registry
    <2> QED
      BY <2>2, <2>3, <2>4
  <1>2. CASE idOf[s] = 0
    <2>1. /\ adding' = [adding EXCEPT ![w] = s]
          /\ UNCHANGED <<registry, frames, disk, reader, topic, run>>
      BY <1>2 DEF Lookup
    <2>2. TypeOK'
      BY <2>1 DEF TypeOK, registry
    <2>3. /\ TablesAgree' /\ IdsAgree'
          /\ ViewKnown' /\ ViewInRange' /\ LiveTopicRight'
      BY <2>1 DEF TablesAgree, IdsAgree, ViewKnown, ViewInRange, LiveTopicRight,
                  registry
    <2> QED
      BY <2>2, <2>3
  <1> QED
    BY <1>1, <1>2

LEMMA AddIInv ==
    ASSUME IInv, NEW w \in Workers, Add(w)
    PROVE  IInv'
  <1> USE DEF IInv
  <1> DEFINE s == adding[w]
  <1>1. s \in Symbols
    BY DEF Add, TypeOK
  <1>2. /\ adding' = [adding EXCEPT ![w] = Unknown]
        /\ UNCHANGED <<disk, reader, topic, run>>
    BY DEF Add
  <1>3. adding' \in [Workers -> Symbols \union {Unknown}]
    BY <1>2 DEF TypeOK
  <1> HIDE DEF s
  <1>4. CASE idOf[s] # 0
    <2>1. Answer(s, idOf[s]) /\ UNCHANGED registry
      BY <1>4 DEF Add, s
    <2>2. /\ TablesAgree' /\ IdsAgree'
          /\ frames' \subseteq Frame /\ frames \subseteq frames'
      BY <1>1, <1>4, <2>1, FoundStep
    <2>3. TypeOK'
      BY <1>2, <1>3, <2>1, <2>2 DEF TypeOK, registry
    <2>4. ViewKnown' /\ ViewInRange' /\ LiveTopicRight'
      BY <1>2, <2>1, <2>2 DEF ViewKnown, ViewInRange, LiveTopicRight, registry
    <2> QED
      BY <2>2, <2>3, <2>4
  <1>5. CASE idOf[s] = 0
    <2>1. Register(s)
      BY <1>5 DEF Add, s
    <2>2. /\ TablesAgree' /\ IdsAgree'
          /\ frames' \subseteq Frame /\ frames \subseteq frames'
          /\ idOf' \in [Symbols -> Nat] /\ names' \in Seq(Symbols)
          /\ nextId' \in Nat \ {0} /\ nextId' = Len(names') + 1
          /\ capacity' \in Nat /\ capacity' >= nextId'
          /\ storage' \in Nat
          /\ \A i \in DOMAIN names : i \in DOMAIN names'
      BY <1>1, <1>5, <2>1, RegisterStep
    <2>3. TypeOK'
      BY <1>2, <1>3, <2>2 DEF TypeOK
    <2>4. ViewKnown' /\ LiveTopicRight'
      BY <1>2, <2>2 DEF ViewKnown, LiveTopicRight
    <2>5. ViewInRange'
      BY <1>2, <2>2 DEF ViewInRange
    <2> QED
      BY <2>2, <2>3, <2>4, <2>5
  <1> QED
    BY <1>4, <1>5

LEMMA ByIdIInv ==
    ASSUME IInv, NEW r \in Readers, NEW f \in frames \union disk, ById(r, f)
    PROVE  IInv'
  <1> USE DEF IInv
  <1> DEFINE v == [busy |-> TRUE, frame |-> f, storage |-> storage,
                   known |-> f.id <= Len(names)]
  <1>1. /\ reader' = [reader EXCEPT ![r] = v]
        /\ UNCHANGED <<registry, adding, frames, disk, topic, run>>
    BY DEF ById
  <1>2. v \in View
    BY DEF View, TypeOK
  <1>3. TypeOK'
    BY <1>1, <1>2 DEF TypeOK, registry
  <1>4. TablesAgree' /\ IdsAgree' /\ LiveTopicRight'
    BY <1>1 DEF TablesAgree, IdsAgree, LiveTopicRight, registry
  <1>5. ViewKnown'
    <2>1. CASE r = "live"
      <3>1. f \in frames
        BY <2>1 DEF ById
      <3>2. f.id \in DOMAIN names
        BY <3>1 DEF IdsAgree
      <3>3. f.id <= Len(names)
        BY <3>2 DEF TypeOK
      <3>4. reader'["live"] = v
        BY <1>1, <2>1 DEF TypeOK, Readers
      <3>5. (f.id <= Len(names)) = TRUE
        BY <3>3
      <3>6. v = [busy |-> TRUE, frame |-> f, storage |-> storage, known |-> TRUE]
        BY <3>5, Zenon
      <3>7. reader'["live"] = [busy |-> TRUE, frame |-> f, storage |-> storage,
                               known |-> TRUE]
        BY <3>4, <3>6
      <3>8. reader'["live"].frame = f /\ reader'["live"].known
        BY <3>7
      <3> QED
        BY <1>1, <3>1, <3>8 DEF ViewKnown
    <2>2. CASE r # "live"
      <3>1. reader'["live"] = reader["live"]
        BY <1>1, <2>2 DEF TypeOK, Readers
      <3> QED
        BY <1>1, <3>1 DEF ViewKnown
    <2> QED
      BY <2>1, <2>2
  <1>6. ViewInRange'
    <2> SUFFICES ASSUME NEW q \in Readers, reader'[q].busy, reader'[q].known
                 PROVE  reader'[q].frame.id \in DOMAIN names
      BY <1>1 DEF ViewInRange, registry
    <2>1. CASE q = r
      <3>1. reader'[q] = v
        BY <1>1, <2>1 DEF TypeOK
      <3>2. f.id <= Len(names)
        <4> SUFFICES ASSUME ~(f.id <= Len(names)) PROVE FALSE
          OBVIOUS
        <4>1. (f.id <= Len(names)) = FALSE
          OBVIOUS
        <4>2. v = [busy |-> TRUE, frame |-> f, storage |-> storage,
                   known |-> FALSE]
          BY <4>1, Zenon
        <4>3. reader'[q] = [busy |-> TRUE, frame |-> f, storage |-> storage,
                            known |-> FALSE]
          BY <3>1, <4>2
        <4>4. ~reader'[q].known
          BY <4>3
        <4> QED
          BY <4>4
      <3>3. f.id \in Nat \ {0}
        BY DEF TypeOK, Frame
      <3> QED
        BY <3>1, <3>2, <3>3 DEF TypeOK
    <2>2. CASE q # r
      <3>1. reader'[q] = reader[q]
        BY <1>1, <2>2 DEF TypeOK
      <3> QED
        BY <3>1 DEF ViewInRange
    <2> QED
      BY <2>1, <2>2
  <1> QED
    BY <1>3, <1>4, <1>5, <1>6

(* A topic is named by a good view of the frame's own slot, or not at all. *)
LEMMA PublishIInv ==
    ASSUME IInv, NEW r \in Readers, Publish(r)
    PROVE  IInv'
  <1> USE DEF IInv
  <1> DEFINE v == reader[r]
             dangling == v.known /\ v.storage # storage
  <1>1. v \in View
    BY DEF Publish, TypeOK, Idle
  <1>2. PICK n \in IF dangling THEN Symbols \union {Unknown} ELSE {NameOf(v)} :
            /\ topic' = [topic EXCEPT ![r] =
                   [sent |-> TRUE, symbol |-> v.frame.symbol, name |-> n,
                    dangling |-> dangling]]
            /\ disk' = IF r = "live" THEN disk \union {v.frame} ELSE disk
    BY DEF Publish
  <1>3. /\ reader' = [reader EXCEPT ![r] = Idle]
        /\ UNCHANGED <<registry, adding, frames, run>>
    BY DEF Publish
  <1>4. /\ v.frame \in Frame /\ v.frame.symbol \in Symbols
        /\ v.frame.id \in Nat \ {0} /\ v.storage \in Nat
        /\ v.known \in BOOLEAN /\ dangling \in BOOLEAN
    BY <1>1 DEF View, Frame
  <1> HIDE DEF dangling
  <1>5. TablesAgree' /\ IdsAgree'
    BY <1>3 DEF TablesAgree, IdsAgree, registry
  <1>6. ViewKnown'
    <2>1. CASE r = "live"
      BY <1>3, <2>1 DEF ViewKnown, TypeOK, Readers, Idle
    <2>2. CASE r # "live"
      BY <1>3, <2>2 DEF ViewKnown, TypeOK, Readers
    <2> QED
      BY <2>1, <2>2
  <1>7. LiveTopicRight'
    <2>1. CASE r = "live"
      <3>1. v.frame \in frames /\ v.known
        BY <2>1 DEF Publish, ViewKnown
      <3>2. NameOf(v) = v.frame.symbol
        BY <3>1 DEF NameOf, IdsAgree
      <3>3. ~dangling => n = v.frame.symbol
        BY <1>2, <3>2
      <3>4. topic'["live"] = [sent |-> TRUE, symbol |-> v.frame.symbol,
                              name |-> n, dangling |-> dangling]
        BY <1>2, <2>1 DEF TypeOK, Readers
      <3> QED
        BY <1>4, <3>3, <3>4 DEF LiveTopicRight
    <2>2. CASE r # "live"
      <3>1. topic'["live"] = topic["live"]
        BY <1>2, <2>2 DEF TypeOK, Readers
      <3> QED
        BY <3>1 DEF LiveTopicRight
    <2> QED
      BY <2>1, <2>2
  <1>8. TypeOK'
    <2>1. n \in Symbols \union {Unknown}
      <3>1. CASE dangling
        BY <1>2, <3>1
      <3>2. CASE ~dangling
        <4>1. n = NameOf(v)
          BY <1>2, <3>2
        <4>2. CASE v.known
          <5>1. v.frame.id \in DOMAIN names
            BY <4>2 DEF ViewInRange, Publish
          <5> QED
            BY <4>1, <4>2, <5>1 DEF NameOf, TypeOK
        <4>3. CASE ~v.known
          BY <4>1, <4>3 DEF NameOf
        <4> QED
          BY <4>2, <4>3
      <3> QED
        BY <3>1, <3>2
    <2>2. [sent |-> TRUE, symbol |-> v.frame.symbol, name |-> n,
           dangling |-> dangling] \in Topic
      BY <1>4, <2>1 DEF Topic
    <2>3. topic' \in [Readers -> Topic \union {Nothing}]
      BY <1>2, <2>2 DEF TypeOK
    <2>4. disk' \subseteq Frame
      BY <1>2, <1>4 DEF TypeOK
    <2>5. reader' \in [Readers -> View \union {Idle}]
      BY <1>3 DEF TypeOK
    <2> QED
      BY <1>3, <2>3, <2>4, <2>5 DEF TypeOK, registry
  <1>9. ViewInRange'
    <2> SUFFICES ASSUME NEW q \in Readers, reader'[q].busy, reader'[q].known
                 PROVE  reader'[q].frame.id \in DOMAIN names
      BY <1>3 DEF ViewInRange, registry
    <2>1. q # r
      BY <1>3 DEF TypeOK, Idle
    <2>2. reader'[q] = reader[q]
      BY <1>3, <2>1 DEF TypeOK
    <2> QED
      BY <2>2 DEF ViewInRange
  <1> QED
    BY <1>5, <1>6, <1>7, <1>8, <1>9

LEMMA RestartIInv ==
    ASSUME IInv, Restart
    PROVE  IInv'
  <1>1. TypeOK'
    BY RegistryAssumption
    DEF IInv, Restart, TypeOK, FirstId, Readers, Idle, Nothing
  <1>2. TablesAgree' /\ IdsAgree'
    BY DEF Restart, TablesAgree, IdsAgree
  <1>3. ViewKnown' /\ ViewInRange' /\ LiveTopicRight'
    BY DEF Restart, ViewKnown, ViewInRange, LiveTopicRight, Readers, Idle, Nothing
  <1> QED
    BY <1>1, <1>2, <1>3 DEF IInv

LEMMA NextIInv == IInv /\ [Next]_vars => IInv'
  <1> SUFFICES ASSUME IInv, [Next]_vars PROVE IInv'
    OBVIOUS
  <1>1. CASE Restart
    BY <1>1, RestartIInv
  <1>2. ASSUME NEW w \in Workers, Add(w) PROVE IInv'
    BY <1>2, AddIInv
  <1>3. ASSUME NEW w \in Workers, NEW s \in Symbols, Lookup(w, s) PROVE IInv'
    BY <1>3, LookupIInv
  <1>4. ASSUME NEW r \in Readers, Publish(r) PROVE IInv'
    BY <1>4, PublishIInv
  <1>5. ASSUME NEW r \in Readers, NEW f \in frames \union disk, ById(r, f)
        PROVE  IInv'
    BY <1>5, ByIdIInv
  <1>6. CASE UNCHANGED vars
    BY <1>6 DEF IInv, TypeOK, TablesAgree, IdsAgree, ViewKnown, ViewInRange,
                LiveTopicRight, vars, registry
  <1> QED
    BY <1>1, <1>2, <1>3, <1>4, <1>5, <1>6 DEF Next

LEMMA Inductive == Spec => []IInv
  BY InitIInv, NextIInv, PTL DEF Spec

(* Every variable of the registry, and of the threads that use it, keeps   *)
(* to its type; symbols_ has no hole and never outgrows its capacity.      *)
THEOREM TypeCorrect == Spec => []TypeOK
  <1>1. IInv => TypeOK
    BY DEF IInv
  <1> QED
    BY <1>1, Inductive, PTL

(* get_or_add gives all threads of a run the same identifier for the same  *)
(* symbol and different ones for different symbols, although it looks for  *)
(* the symbol under a lock that it releases before it adds it.             *)
THEOREM IdentifiersAgree == Spec => []IdsAgree
  <1>1. IInv => IdsAgree
    BY DEF IInv
  <1> QED
    BY <1>1, Inductive, PTL

(* generate_topic names a live frame after its own symbol, whatever is     *)
(* registered meanwhile, unless symbols_ moved under the view by_id gave.  *)
THEOREM LiveTopicsRight == Spec => []LiveTopicRight
  <1>1. IInv => LiveTopicRight
    BY DEF IInv
  <1> QED
    BY <1>1, Inductive, PTL

-----------------------------------------------------------------------------
(* The registry implements SymbolIds.                                      *)

LEMMA RefineInit == Init => Ids!Init
  BY DEF Init, Ids!Init

(* An identifier that was there is answered as it is.                      *)
LEMMA FoundRefines ==
    ASSUME TypeOK, NEW s \in Symbols, idOf[s] # 0, Answer(s, idOf[s]),
           UNCHANGED registry
    PROVE  Ids!Ask(s)
  <1>1. idOf' = idOf /\ idOf' = [idOf EXCEPT ![s] = idOf'[s]]
    BY DEF TypeOK, registry
  <1> QED
    BY <1>1 DEF Ids!Ask, Answer, TypeOK

(* A new identifier is above every identifier in use.                      *)
LEMMA RegisterRefines ==
    ASSUME TypeOK, TablesAgree, NEW s \in Symbols, idOf[s] = 0, Register(s)
    PROVE  Ids!Ask(s)
  <1>1. idOf' = [idOf EXCEPT ![s] = nextId] /\ idOf'[s] = nextId
    BY DEF TypeOK, Register
  <1>2. nextId \in Nat \ {0}
    BY DEF TypeOK
  <1>3. \A o \in Symbols : idOf[o] # nextId
    BY DEF TypeOK, TablesAgree
  <1>4. frames' = frames \union {[symbol |-> s, id |-> idOf'[s]]}
    BY <1>1 DEF Register, Answer
  <1> QED
    BY <1>1, <1>2, <1>3, <1>4 DEF Ids!Ask

LEMMA RefineStep == IInv /\ [Next]_vars => [Ids!Next]_<<idOf, frames>>
  <1> SUFFICES ASSUME IInv, [Next]_vars
               PROVE  Ids!Next \/ UNCHANGED <<idOf, frames>>
    OBVIOUS
  <1> USE DEF IInv
  <1>1. CASE Restart
    BY <1>1 DEF Restart, Ids!Next, Ids!Forget
  <1>2. ASSUME NEW w \in Workers, Add(w) PROVE Ids!Next
    <2>1. adding[w] \in Symbols
      BY <1>2 DEF Add, TypeOK
    <2>2. CASE idOf[adding[w]] # 0
      BY <1>2, <2>1, <2>2, FoundRefines DEF Add, Ids!Next
    <2>3. CASE idOf[adding[w]] = 0
      BY <1>2, <2>1, <2>3, RegisterRefines DEF Add, Ids!Next
    <2> QED
      BY <2>2, <2>3
  <1>3. ASSUME NEW w \in Workers, NEW s \in Symbols, Lookup(w, s)
        PROVE  Ids!Next \/ UNCHANGED <<idOf, frames>>
    <2>1. CASE idOf[s] # 0
      BY <1>3, <2>1, FoundRefines DEF Lookup, Ids!Next
    <2>2. CASE idOf[s] = 0
      BY <1>3, <2>2 DEF Lookup, registry
    <2> QED
      BY <2>1, <2>2
  <1>4. ASSUME NEW r \in Readers, Publish(r) PROVE UNCHANGED <<idOf, frames>>
    BY <1>4 DEF Publish, registry
  <1>5. ASSUME NEW r \in Readers, NEW f \in frames \union disk, ById(r, f)
        PROVE  UNCHANGED <<idOf, frames>>
    BY <1>5 DEF ById, registry
  <1>6. CASE UNCHANGED vars
    BY <1>6 DEF vars, registry
  <1> QED
    BY <1>1, <1>2, <1>3, <1>4, <1>5, <1>6 DEF Next

(* get_or_add, with its two locks and any interleaving of its callers,    *)
(* does what SymbolIds says: it asks in one step.                          *)
THEOREM Refinement == Spec => ImplementsIds
  BY Inductive, RefineInit, RefineStep, PTL
  DEF Spec, ImplementsIds, Ids!Spec

=============================================================================

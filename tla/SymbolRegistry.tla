--------------------------- MODULE SymbolRegistry ---------------------------
(***************************************************************************)
(* The symbol registry (common/symbol_registry.cpp) and the two places     *)
(* that turn an identifier back into a name: the distributor, which names  *)
(* the topic of a live frame, and the replayer, which names the topic of a *)
(* recorded one, perhaps in a later run of the process.                    *)
(*                                                                         *)
(* get_or_add is called by normalizer threads; as its interface promises   *)
(* it is modelled for any threads and symbols, although the normalizer     *)
(* gives each symbol to one thread.  The recorder writes a frame with the  *)
(* identifier in it and no table of names.                                 *)
(*                                                                         *)
(* by_id returns a string_view into symbols_ after releasing the lock.     *)
(* storage counts how often symbols_ moved: a short name lives inside the  *)
(* vector's own storage, so a view taken from an earlier storage dangles.  *)
(***************************************************************************)
EXTENDS Integers, Sequences

CONSTANTS
    Symbols,
    Workers,     \* threads that call get_or_add
    Unknown,     \* the name of an identifier that is not registered
    MaxRuns      \* bound: runs of the process over one data directory

ASSUME RegistryAssumption ==
    /\ Unknown \notin Symbols
    /\ MaxRuns \in Nat \ {0}

VARIABLES
    idOf,        \* symbol_to_id_, 0 for an absent key
    names,       \* symbols_ from slot 1 on; slot 0 is reserved
    nextId,      \* next_id_
    capacity,    \* symbols_.capacity()
    storage,     \* how often symbols_ was reallocated
    adding,      \* per worker: the symbol it is about to add, or Unknown
    frames,      \* frames of this run: symbol of the event, identifier in it
    disk,        \* recorded frames, of every run
    reader,      \* per reader: the view it holds, if any
    topic,       \* observed: what each reader last published
    run

registry == <<idOf, names, nextId, capacity, storage>>
vars == <<registry, adding, frames, disk, reader, topic, run>>

Readers == {"live", "replay"}
Frame == [symbol : Symbols, id : Nat \ {0}]
Idle == [busy |-> FALSE]
View == [busy : {TRUE}, frame : Frame, storage : Nat, known : BOOLEAN]
Nothing == [sent |-> FALSE]
Topic == [sent : {TRUE}, symbol : Symbols, name : Symbols \union {Unknown},
          dangling : BOOLEAN]

(* Every variable holds a value the code can give it; names has exactly    *)
(* the slots below next_id_, so symbols_ has no hole.                      *)
TypeOK ==
    /\ idOf \in [Symbols -> Nat]
    /\ names \in Seq(Symbols)
    /\ nextId \in Nat \ {0} /\ nextId = Len(names) + 1
    /\ capacity \in Nat /\ capacity >= nextId
    /\ storage \in Nat
    /\ adding \in [Workers -> Symbols \union {Unknown}]
    /\ frames \subseteq Frame /\ disk \subseteq Frame
    /\ reader \in [Readers -> View \union {Idle}]
    /\ topic \in [Readers -> Topic \union {Nothing}]
    /\ run \in 1..MaxRuns

(* Mutant: the first symbol gets the invalid identifier.                   *)
FirstIdZero == 0

(* next_id_ at construction: slot 0 of symbols_ is taken.                  *)
FirstId == 1

Init ==
    /\ idOf = [s \in Symbols |-> 0]
    /\ names = <<>> /\ nextId = FirstId
    /\ capacity = 1 /\ storage = 0
    /\ adding = [w \in Workers |-> Unknown]
    /\ frames = {} /\ disk = {}
    /\ reader = [r \in Readers |-> Idle]
    /\ topic = [r \in Readers |-> Nothing]
    /\ run = 1

-----------------------------------------------------------------------------
(* A frame of symbol s goes out with the identifier get_or_add returned.   *)
Answer(s, id) == frames' = frames \union {[symbol |-> s, id |-> id]}

(* The lookup under the shared lock.                                       *)
Lookup(w, s) ==
    /\ adding[w] = Unknown
    /\ \/ /\ idOf[s] # 0
          /\ Answer(s, idOf[s])
          /\ UNCHANGED adding
       \/ /\ idOf[s] = 0
          /\ adding' = [adding EXCEPT ![w] = s]
          /\ UNCHANGED frames
    /\ UNCHANGED <<registry, disk, reader, topic, run>>

(* Mutant: next_id_ is not advanced.                                       *)
RegisterSameId(s) ==
    /\ idOf' = [idOf EXCEPT ![s] = nextId]
    /\ names' = Append(names, s)
    /\ Answer(s, nextId)
    /\ UNCHANGED <<nextId, capacity, storage>>

(* A new identifier and its slot; a resize past the capacity moves the     *)
(* whole vector to storage of twice the size.                              *)
Register(s) ==
    /\ nextId' = nextId + 1
    /\ idOf' = [idOf EXCEPT ![s] = nextId]
    /\ names' = Append(names, s)
    /\ IF nextId + 1 > capacity
       THEN capacity' = 2 * capacity /\ storage' = storage + 1
       ELSE UNCHANGED <<capacity, storage>>
    /\ Answer(s, nextId)

(* Mutant: no second lookup.                                               *)
AddUnchecked(w) ==
    /\ adding[w] # Unknown
    /\ adding' = [adding EXCEPT ![w] = Unknown]
    /\ Register(adding[w])
    /\ UNCHANGED <<disk, reader, topic, run>>

(* Under the unique lock, with the second lookup.                          *)
Add(w) ==
    /\ adding[w] # Unknown
    /\ adding' = [adding EXCEPT ![w] = Unknown]
    /\ \/ /\ idOf[adding[w]] # 0
          /\ Answer(adding[w], idOf[adding[w]])
          /\ UNCHANGED registry
       \/ /\ idOf[adding[w]] = 0
          /\ Register(adding[w])
    /\ UNCHANGED <<disk, reader, topic, run>>

-----------------------------------------------------------------------------
(* by_id, under the shared lock, for a frame of the pipeline or of a file. *)
ById(r, f) ==
    /\ ~reader[r].busy
    /\ f \in IF r = "live" THEN frames ELSE disk
    /\ reader' = [reader EXCEPT ![r] =
           [busy |-> TRUE, frame |-> f, storage |-> storage,
            known |-> f.id <= Len(names)]]
    /\ UNCHANGED <<registry, adding, frames, disk, topic, run>>

(* Mutant: the reserved slot 0 is forgotten.                               *)
NameOfShifted(v) ==
    IF v.known /\ v.frame.id < Len(names) THEN names[v.frame.id + 1]
    ELSE Unknown

(* The name behind a view that is still good.                              *)
NameOf(v) == IF v.known THEN names[v.frame.id] ELSE Unknown

(* generate_topic and the replayer copy the name out of the view, and the  *)
(* frame is published; a live frame goes on to the recorder.  A dangling   *)
(* view may read as anything.                                              *)
Publish(r) ==
    /\ reader[r].busy
    /\ LET v == reader[r]
           dangling == v.known /\ v.storage # storage
       IN  \E n \in IF dangling THEN Symbols \union {Unknown} ELSE {NameOf(v)} :
               /\ topic' = [topic EXCEPT ![r] =
                      [sent |-> TRUE, symbol |-> v.frame.symbol, name |-> n,
                       dangling |-> dangling]]
               /\ disk' = IF r = "live" THEN disk \union {v.frame} ELSE disk
    /\ reader' = [reader EXCEPT ![r] = Idle]
    /\ UNCHANGED <<registry, adding, frames, run>>

(* The process ends, in whatever way, and is started again: everything but *)
(* the recorded files is as in the beginning.                              *)
Restart ==
    /\ run < MaxRuns
    /\ run' = run + 1
    /\ idOf' = [s \in Symbols |-> 0]
    /\ names' = <<>> /\ nextId' = FirstId
    /\ capacity' = 1 /\ storage' = 0
    /\ adding' = [w \in Workers |-> Unknown]
    /\ frames' = {}
    /\ reader' = [r \in Readers |-> Idle]
    /\ topic' = [r \in Readers |-> Nothing]
    /\ UNCHANGED disk

Next ==
    \/ Restart
    \/ \E w \in Workers : Add(w) \/ \E s \in Symbols : Lookup(w, s)
    \/ \E r \in Readers : Publish(r) \/ \E f \in frames \union disk : ById(r, f)

Spec == Init /\ [][Next]_vars

-----------------------------------------------------------------------------
(* All frames of a run agree with the registry in both directions: any two *)
(* threads that ever asked for the same symbol got the same identifier,    *)
(* different symbols have different ones, and by_id leads back to the      *)
(* symbol (the double-checked lock of get_or_add).                         *)
IdsAgree ==
    \A f \in frames :
        /\ idOf[f.symbol] = f.id
        /\ f.id \in DOMAIN names /\ names[f.id] = f.symbol

(* The registry, with its lock taken twice, does no more and no less than  *)
(* SymbolIds.                                                              *)
Ids == INSTANCE SymbolIds WITH ids <- idOf, answers <- frames
ImplementsIds == Ids!Spec

(* A live frame is published under the name of its own symbol, also while  *)
(* other symbols are being added, unless symbols_ moved between by_id and  *)
(* the use of what it returned.                                            *)
LiveTopicRight ==
    topic["live"].sent /\ ~topic["live"].dangling =>
        topic["live"].name = topic["live"].symbol

(* A recorded frame is not replayed under the name of another symbol: by_id*)
(* of the identifier in it is its symbol (docs/DATA_FLOW.md:314).          *)
ReplayTopicRight ==
    topic["replay"].sent /\ ~topic["replay"].dangling =>
        topic["replay"].name \in {topic["replay"].symbol, Unknown}

=============================================================================

--------------------------- MODULE RecorderProofs ---------------------------
(***************************************************************************)
(* Proofs about Recorder, for every value of its constants: its types, the *)
(* accounting of frames, how degraded mode is reached, and that header and *)
(* index describe the file they belong to, after every failure and crash.  *)
(***************************************************************************)
EXTENDS Recorder, FiniteSetTheorems, SequenceTheorems, TLAPS

-----------------------------------------------------------------------------
(* The inductive invariant.                                                *)

(* The thread's place in its batch.                                        *)
InBatch ==
    /\ pc \in {"loop", "exited", "stopped"} => batch = 0 /\ left = 0
    /\ pc \in {"next", "roll", "write"} => left \in 1..batch
    /\ pc = "end" => left = 0
    /\ pc \in {"roll", "write"} => cur \in Frame

(* A frame that cannot open a file and is then not written counts two      *)
(* failures: between the two it is one ahead of the frames lost.           *)
FailuresEarned ==
    failures <= 2 * lostRun + (IF pc \in {"write", "dead"} THEN 1 ELSE 0)

(* What HeaderSound and IndexSound say of one file.                        *)
Torn(f) == f.sealed /\ f.tail
HeaderOk(f) ==
    LET torn == IF Torn(f) THEN 1 ELSE 0
    IN  /\ f.hdrFrames <= Len(f.frames) + torn
        /\ f.sealed => f.hdrFrames = Len(f.frames) + torn
Leads(f, i) ==
    /\ f.index[i].at \in DOMAIN f.frames
    /\ f.frames[f.index[i].at].ts = f.index[i].ts
IndexOk(f) ==
    f.frames # <<>> =>
        \A i \in DOMAIN f.index :
            /\ f.index[i].at = i * IndexInterval
            /\ Leads(f, i) \/ (Torn(f) /\ f.index[i].at = Len(f.frames) + 1)
FileOk(f) == f \in File /\ HeaderOk(f) /\ IndexOk(f)
DiskOk(d) == d \in [Names -> File] /\ \A n \in Names : FileOk(d[n])

(* The contents fit the mapping: an append never writes beyond it.         *)
Fits ==
    /\ mdf = "open" => Bytes(disk[name].frames) <= cap /\ InitCap <= cap
    /\ mdf = "open" /\ idx = "open" => Len(disk[name].index) <= idxCap /\ InitIdxCap <= idxCap

(* The open file.  Its size is what current_file_bytes_ says unless        *)
(* force_roll has set that, and only its last frame may reach beyond       *)
(* roll_bytes_.                                                            *)
OpenFile ==
    mdf = "open" =>
        LET f == disk[name]
        IN  /\ f.sealed = FALSE
            /\ frameCount = Len(f.frames)
            /\ bytes = Bytes(f.frames) \/ bytes = RollBytes
            /\ \A i \in 1..Len(f.frames) - 1 : f.frames[i].end < RollBytes
            /\ pc = "write" => Bytes(f.frames) < RollBytes
            /\ \A i \in DOMAIN f.index : f.index[i].at = i * IndexInterval /\ Leads(f, i)

(* As long as the index is written, sinceIndex is the number of frames     *)
(* after the one it points to last.                                        *)
OpenIndex ==
    mdf = "open" /\ idx = "open" =>
        /\ Len(disk[name].frames) = Len(disk[name].index) * IndexInterval + sinceIndex
        /\ sinceIndex < IndexInterval

IInv ==
    /\ TypeOK
    /\ InBatch /\ EveryFrameAccounted
    /\ FailuresEarned /\ DegradedEarned
    /\ DiskOk(disk) /\ Fits /\ OpenFile /\ OpenIndex

-----------------------------------------------------------------------------
(* The operators on files and on the disk.                                 *)

(* The assumptions on the numbers among the constants, one by one.         *)
LEMMA Numbers ==
  /\ RollBytes \in Nat /\ RollBytes > 0
  /\ IndexInterval \in Nat /\ IndexInterval > 0
  /\ HeaderEvery \in Nat /\ HeaderEvery > 0
  /\ MaxFailures \in Nat /\ MaxFailures > 0
  /\ InitCap \in Nat /\ InitCap > 0
  /\ InitIdxCap \in Nat /\ InitIdxCap > 0
  /\ TicksPerSecond \in Nat /\ TicksPerSecond > 0
  /\ BatchSize \in Nat /\ MaxTs \in Nat /\ Skew \in Nat
  /\ MaxFrames \in Nat /\ MaxRestarts \in Nat
  BY ConstantsAssumption

(* A timestamp within bounds names a file within bounds.                   *)
LEMMA NamesHold ==
  ASSUME NEW ts \in 0..MaxTs
  PROVE  FileName(ts) \in Names
<1> USE Numbers
<1> DEFINE q == ts \div TicksPerSecond  r == MaxTs \div TicksPerSecond
<1>1. q \in Nat /\ r \in Nat
  OBVIOUS
<1>2. q * TicksPerSecond <= ts /\ MaxTs < (r + 1) * TicksPerSecond
  OBVIOUS
<1>3. q * TicksPerSecond < (r + 1) * TicksPerSecond
  BY <1>1, <1>2
<1>4. q < r + 1
  BY <1>1, <1>3
<1> QED
  BY <1>1, <1>4 DEF FileName, Names

(* A file has a natural length.                                            *)
LEMMA BytesType ==
  ASSUME NEW s \in Seq(Recorded)
  PROVE  Bytes(s) \in Nat
<1>1. CASE s = <<>>
  BY <1>1 DEF Bytes
<1>2. CASE s # <<>>
  <2>1. s[Len(s)] \in Recorded
    BY <1>2
  <2> QED
    BY <1>2, <2>1 DEF Bytes, Recorded
<1> QED
  BY <1>1, <1>2

(* Appending a frame makes the file as long as that frame's end.           *)
LEMMA BytesAppend ==
  ASSUME NEW s \in Seq(Recorded), NEW x \in Recorded
  PROVE  Bytes(Append(s, x)) = x.end
  BY DEF Bytes

(* What close_current_files leaves of the frames: all of them if           *)
(* current_file_bytes_ covers them, all but the last if it covers only     *)
(* those.                                                                  *)
LEMMA CutToCases ==
  ASSUME NEW s \in Seq(Recorded), NEW size \in Nat,
         Bytes(s) <= size \/ \A i \in 1..Len(s) - 1 : s[i].end <= size
  PROVE  /\ Bytes(s) <= size => CutTo(s, size) = s
         /\ size < Bytes(s) => /\ s # <<>>
                               /\ CutTo(s, size) = SubSeq(s, 1, Len(s) - 1)
<1> DEFINE whole == {k \in 0..Len(s) : Bytes(SubSeq(s, 1, k)) <= size}
           best == CHOOSE k \in whole : \A j \in whole : j <= k
           front == SubSeq(s, 1, Len(s) - 1)
<1>1. CutTo(s, size) = SubSeq(s, 1, best)
  BY DEF CutTo
<1>2. SubSeq(s, 1, Len(s)) = s /\ Len(s) \in 0..Len(s)
  OBVIOUS
<1>3. ASSUME NEW k \in whole, \A j \in whole : j <= k
      PROVE  best = k
  BY <1>3
<1>4. Len(s) \in whole <=> Bytes(s) <= size
  <2>1. Bytes(SubSeq(s, 1, Len(s))) = Bytes(s)
    BY <1>2
  <2> QED
    BY <1>2, <2>1
<1>5. CASE Bytes(s) <= size
  <2>1. best = Len(s)
    BY <1>3, <1>4, <1>5
  <2>2. CutTo(s, size) = s
    BY <1>1, <1>2, <2>1
  <2> QED
    BY <1>5, <2>2, BytesType
<1>6. CASE size < Bytes(s)
  <2>1. s # <<>> /\ Len(s) >= 1
    BY <1>6 DEF Bytes
  <2>2. Len(s) \notin whole
    BY <1>4, <1>6, BytesType
  <2>3. Bytes(front) <= size
    <3>1. CASE ~(Len(s) > 1)
      <4>1. front = <<>>
        BY <2>1, <3>1
      <4> QED
        BY <4>1 DEF Bytes
    <3>2. CASE Len(s) > 1
      <4>1. /\ front # <<>>
            /\ Len(front) = Len(s) - 1
            /\ front[Len(s) - 1] = s[Len(s) - 1]
        BY <3>2
      <4>2. s[Len(s) - 1].end <= size
        BY <1>6, <3>2, BytesType
      <4> QED
        BY <4>1, <4>2 DEF Bytes
    <3> QED
      BY <3>1, <3>2, Zenon
  <2>4. Len(s) - 1 \in whole
    BY <2>1, <2>3
  <2>5. best = Len(s) - 1
    <3>1. \A j \in whole : j <= Len(s) - 1
      BY <2>2
    <3> QED
      BY <1>3, <2>4, <3>1
  <2>6. CutTo(s, size) = front
    BY <1>1, <2>5
  <2> QED
    BY <1>6, <2>1, <2>6, BytesType
<1> QED
  BY <1>5, <1>6, BytesType

(* HeaderSound and IndexSound as statements about each file.               *)
LEMMA DiskOkSound ==
  ASSUME TypeOK, DiskOk(disk), OpenIndex
  PROVE  HeaderSound /\ IndexSound
<1>1. HeaderSound
  BY DEF DiskOk, FileOk, HeaderOk, Torn, HeaderSound
<1>2. ASSUME NEW n \in Names, mdf = "open", idx = "open", name = n
      PROVE  Len(disk[n].frames) < (Len(disk[n].index) + 1) * IndexInterval
  <2>1. disk[n] \in File
    BY DEF DiskOk
  <2>2. Len(disk[n].index) \in Nat /\ sinceIndex \in Nat
    BY <2>1 DEF File, TypeOK
  <2>3. /\ Len(disk[n].frames) = Len(disk[n].index) * IndexInterval + sinceIndex
        /\ sinceIndex < IndexInterval
    BY <1>2 DEF OpenIndex
  <2>4. (Len(disk[n].index) + 1) * IndexInterval
          = Len(disk[n].index) * IndexInterval + IndexInterval
    BY <2>2, Numbers
  <2>5. Len(disk[n].index) * IndexInterval \in Nat
    BY <2>2, Numbers
  <2> QED
    BY <2>2, <2>3, <2>4, <2>5, Numbers
<1>3. IndexSound
  BY <1>2 DEF DiskOk, FileOk, IndexOk, Leads, Torn, IndexSound
<1> QED
  BY <1>1, <1>3

(* Truncating an MDF file leaves an empty one that keeps the promises.     *)
LEMMA MdfTruncatedOk ==
  ASSUME NEW d, DiskOk(d), NEW n \in Names
  PROVE  /\ DiskOk(MdfTruncated(d, n))
         /\ MdfTruncated(d, n)[n].frames = <<>>
         /\ MdfTruncated(d, n)[n].hdrFrames = 0
         /\ MdfTruncated(d, n)[n].sealed = FALSE
<1> DEFINE e == MdfTruncated(d, n)
<1>1. e \in [Names -> File]
  <2>1. d \in [Names -> File] /\ <<>> \in Seq(Recorded)
    BY DEF DiskOk
  <2>2. [d[n] EXCEPT !.frames = <<>>, !.hdrFrames = 0, !.hdrSymbols = 0,
                     !.tail = TRUE, !.sealed = FALSE] \in File
    BY <2>1 DEF File
  <2> QED
    BY <2>1, <2>2 DEF MdfTruncated
<1>2. \A m \in Names : m # n => e[m] = d[m]
  BY DEF MdfTruncated, DiskOk
<1>3. e[n].frames = <<>> /\ e[n].hdrFrames = 0 /\ e[n].sealed = FALSE
  BY DEF MdfTruncated, DiskOk, File
<1>4. FileOk(e[n])
  BY <1>1, <1>3 DEF FileOk, HeaderOk, IndexOk, Torn
<1> QED
  BY <1>1, <1>2, <1>3, <1>4 DEF DiskOk

(* An IDX file may be truncated when the MDF file beside it is empty.      *)
LEMMA IdxTruncatedOk ==
  ASSUME NEW d, DiskOk(d), NEW n \in Names, d[n].frames = <<>>
  PROVE  /\ DiskOk(IdxTruncated(d, n))
         /\ IdxTruncated(d, n)[n].frames = <<>>
         /\ IdxTruncated(d, n)[n].index = <<>>
         /\ IdxTruncated(d, n)[n].sealed = d[n].sealed
<1> DEFINE e == IdxTruncated(d, n)
<1>1. e \in [Names -> File]
  <2>1. d \in [Names -> File] /\ <<>> \in Seq(Entry)
    BY DEF DiskOk
  <2> QED
    BY <2>1 DEF IdxTruncated, File
<1>2. \A m \in Names : m # n => e[m] = d[m]
  BY DEF IdxTruncated, DiskOk
<1>3. /\ e[n].frames = <<>> /\ e[n].index = <<>>
      /\ e[n].sealed = d[n].sealed /\ e[n].tail = d[n].tail
      /\ e[n].hdrFrames = d[n].hdrFrames
  BY DEF IdxTruncated, DiskOk, File
<1>4. FileOk(e[n])
  BY <1>1, <1>3 DEF FileOk, HeaderOk, IndexOk, Torn, DiskOk
<1> QED
  BY <1>1, <1>2, <1>3, <1>4 DEF DiskOk

(* An MDF file that is cut back to its header is as good as a truncated    *)
(* one.                                                                    *)
LEMMA CutBackOk ==
  ASSUME NEW d, DiskOk(d), NEW n \in Names, d[n].sealed = FALSE
  PROVE  /\ DiskOk([d EXCEPT ![n].tail = FALSE])
         /\ [d EXCEPT ![n].tail = FALSE][n].frames = d[n].frames
<1> DEFINE e == [d EXCEPT ![n].tail = FALSE]
<1>1. e \in [Names -> File]
  BY DEF DiskOk, File
<1>2. \A m \in Names : m # n => e[m] = d[m]
  BY DEF DiskOk
<1>3. /\ e[n].frames = d[n].frames /\ e[n].index = d[n].index
      /\ e[n].sealed = d[n].sealed /\ e[n].hdrFrames = d[n].hdrFrames
  BY DEF DiskOk, File
<1>4. FileOk(e[n])
  BY <1>1, <1>3, ZenonT(60) DEF FileOk, HeaderOk, IndexOk, Leads, Torn, DiskOk
<1> QED
  BY <1>1, <1>2, <1>3, <1>4 DEF DiskOk

(* update_mdf_header, with a count that is at most the frames in the open  *)
(* file.                                                                   *)
LEMMA HeaderUpdatedOk ==
  ASSUME TypeOK, NEW d, DiskOk(d), NEW count \in Nat,
         mdf = "open" => /\ d[name].sealed = FALSE
                         /\ count <= Len(d[name].frames)
  PROVE  /\ DiskOk(HeaderUpdated(d, count))
         /\ \A n \in Names :
               /\ HeaderUpdated(d, count)[n].frames = d[n].frames
               /\ HeaderUpdated(d, count)[n].index = d[n].index
               /\ HeaderUpdated(d, count)[n].sealed = d[n].sealed
               /\ HeaderUpdated(d, count)[n].tail = d[n].tail
         /\ mdf = "open" => HeaderUpdated(d, count)[name].hdrFrames = count
         /\ mdf # "open" => HeaderUpdated(d, count) = d
<1> DEFINE e == HeaderUpdated(d, count)
<1>1. name \in Names /\ d \in [Names -> File] /\ Cardinality(unique) \in Nat
  <2>1. IsFiniteSet(unique)
    BY FS_Subset, ConstantsAssumption DEF TypeOK
  <2> QED
    BY <2>1, FS_CardinalityType DEF TypeOK, DiskOk
<1>2. CASE mdf = "open"
  <2> DEFINE f == [d[name] EXCEPT !.hdrFrames = count, !.hdrSymbols = Cardinality(unique)]
  <2>1. e = [d EXCEPT ![name] = f]
    BY <1>2 DEF HeaderUpdated
  <2>2. /\ f \in File
        /\ f.frames = d[name].frames /\ f.index = d[name].index
        /\ f.sealed = d[name].sealed /\ f.tail = d[name].tail
        /\ f.hdrFrames = count
    BY <1>1 DEF File
  <2>3. FileOk(d[name])
    BY <1>1 DEF DiskOk
  <2> HIDE DEF f
  <2>4. FileOk(f)
    <3>1. f.sealed = FALSE /\ ~Torn(f) /\ ~Torn(d[name])
      BY <1>2, <2>2 DEF Torn
    <3>2. HeaderOk(f)
      BY <1>2, <2>2, <3>1 DEF HeaderOk
    <3>3. IndexOk(f)
      BY <2>2, <2>3, <3>1 DEF FileOk, IndexOk, Leads
    <3> QED
      BY <2>2, <3>2, <3>3 DEF FileOk
  <2>5. e \in [Names -> File] /\ e[name] = f /\ \A n \in Names : n # name => e[n] = d[n]
    BY <1>1, <2>1, <2>2
  <2> HIDE DEF e
  <2>6. /\ DiskOk(e) /\ e[name].hdrFrames = count
        /\ \A n \in Names : /\ e[n].frames = d[n].frames /\ e[n].index = d[n].index
                           /\ e[n].sealed = d[n].sealed /\ e[n].tail = d[n].tail
    <3>1. \A n \in Names : FileOk(e[n])
      BY <2>4, <2>5 DEF DiskOk
    <3> QED
      BY <1>1, <2>2, <2>5, <3>1 DEF DiskOk
  <2> QED
    BY <1>2, <2>6 DEF e
<1>3. CASE mdf # "open"
  BY <1>3 DEF HeaderUpdated
<1> QED
  BY <1>2, <1>3

(* Closing a file whose header is up to date cuts off its last frame at    *)
(* most, and then says so.                                                 *)
LEMMA CutFileOk ==
  ASSUME NEW f \in File, NEW size \in Nat,
         f.hdrFrames = Len(f.frames),
         \A i \in DOMAIN f.index : f.index[i].at = i * IndexInterval /\ Leads(f, i),
         Bytes(f.frames) <= size \/ \A i \in 1..Len(f.frames) - 1 : f.frames[i].end <= size
  PROVE  FileOk(CutFile(f, size))
<1> DEFINE s == f.frames
           c == CutTo(s, size)
           g == CutFile(f, size)
           over == size < Bytes(s)
<1>1. s \in Seq(Recorded) /\ Bytes(s) \in Nat /\ Len(s) \in Nat
  BY BytesType DEF File
<1>2. /\ Bytes(s) <= size => c = s
      /\ size < Bytes(s) => s # <<>> /\ c = SubSeq(s, 1, Len(s) - 1)
  BY <1>1, CutToCases
<1>3. /\ c \in Seq(Recorded)
      /\ ~over => c = s
      /\ over => Len(c) = Len(s) - 1 /\ \A i \in 1..Len(c) : c[i] = s[i]
  <2>1. CASE over
    <3>1. c = SubSeq(s, 1, Len(s) - 1) /\ Len(s) >= 1
      BY <1>1, <1>2, <2>1
    <3>2. /\ SubSeq(s, 1, Len(s) - 1) \in Seq(Recorded)
          /\ Len(SubSeq(s, 1, Len(s) - 1)) = Len(s) - 1
          /\ \A i \in 1..Len(s) - 1 : SubSeq(s, 1, Len(s) - 1)[i] = s[i]
      BY <1>1, <3>1
    <3> HIDE DEF c, s
    <3> QED
      BY <2>1, <3>1, <3>2
  <2>2. CASE ~over
    BY <1>1, <1>2, <2>2
  <2> QED
    BY <2>1, <2>2
<1>4. over \in BOOLEAN
  OBVIOUS
<1> HIDE DEF c, over
<1>5. g = [f EXCEPT !.frames = c, !.tail = over, !.sealed = TRUE]
  BY DEF CutFile, c, over
<1>6. /\ g \in File
      /\ g.frames = c /\ g.index = f.index /\ g.hdrFrames = Len(s)
      /\ g.sealed = TRUE /\ g.tail = over
  <2> HIDE DEF g
  <2> QED
    BY <1>3, <1>4, <1>5 DEF File
<1> HIDE DEF g
<1>7. Torn(g) <=> over
  BY <1>6 DEF Torn
<1>8. HeaderOk(g)
  <2>1. CASE over
    BY <1>1, <1>3, <1>6, <1>7, <2>1 DEF HeaderOk
  <2>2. CASE ~over
    BY <1>1, <1>3, <1>6, <1>7, <2>2 DEF HeaderOk
  <2> QED
    BY <2>1, <2>2
<1>9. IndexOk(g)
  <2> SUFFICES ASSUME NEW i \in DOMAIN f.index
               PROVE  /\ f.index[i].at = i * IndexInterval
                      /\ Leads(g, i) \/ (over /\ f.index[i].at = Len(c) + 1)
    BY <1>6, <1>7 DEF IndexOk
  <2> DEFINE k == f.index[i].at
  <2>1. k = i * IndexInterval /\ k \in 1..Len(s) /\ s[k].ts = f.index[i].ts
    BY <1>1 DEF Leads
  <2> HIDE DEF k
  <2>2. CASE ~over
    BY <1>1, <1>3, <1>6, <2>1, <2>2 DEF Leads, k
  <2>3. CASE over /\ k = Len(s)
    BY <1>1, <1>3, <2>1, <2>3 DEF k
  <2>4. CASE over /\ k # Len(s)
    <3>1. k \in 1..Len(c) /\ DOMAIN c = 1..Len(c) /\ c[k] = s[k]
      BY <1>1, <1>3, <2>1, <2>4
    <3> QED
      BY <1>6, <2>1, <3>1 DEF Leads, k
  <2> QED
    BY <2>2, <2>3, <2>4
<1> QED
  BY <1>6, <1>8, <1>9 DEF FileOk, g

(* close_current_files: whatever state the recorder is in, the files it    *)
(* leaves keep the promises.                                               *)
LEMMA ClosedOk ==
  ASSUME TypeOK, DiskOk(disk), OpenFile
  PROVE  DiskOk(Closed(disk))
<1> DEFINE h == HeaderUpdated(disk, frameCount)
           s == disk[name].frames
           d1 == IF mdf = "open" THEN [h EXCEPT ![name] = CutFile(h[name], bytes)] ELSE disk
<1>1. Closed(disk) = IF idx = "open" THEN [d1 EXCEPT ![name].idxTail = FALSE] ELSE d1
  BY DEF Closed
<1>2. /\ name \in Names /\ disk \in [Names -> File] /\ disk[name] \in File
      /\ bytes \in Nat /\ frameCount \in Nat
  BY DEF TypeOK
<1>3. DiskOk(d1)
  <2>1. CASE mdf = "open"
    <3>1. /\ disk[name].sealed = FALSE /\ frameCount = Len(s)
          /\ bytes = Bytes(s) \/ bytes = RollBytes
          /\ \A i \in 1..Len(s) - 1 : s[i].end < RollBytes
          /\ \A i \in DOMAIN disk[name].index :
                disk[name].index[i].at = i * IndexInterval /\ Leads(disk[name], i)
      BY <2>1 DEF OpenFile
    <3>2. /\ DiskOk(h) /\ h[name].frames = s /\ h[name].index = disk[name].index
          /\ h[name].hdrFrames = frameCount
      <4>1. frameCount <= Len(disk[name].frames)
        BY <1>2, <3>1
      <4> QED
        BY <1>2, <2>1, <3>1, <4>1, HeaderUpdatedOk, ZenonT(60)
    <3>3. h \in [Names -> File] /\ h[name] \in File
      BY <1>2, <3>2 DEF DiskOk
    <3>4. s \in Seq(Recorded) /\ Bytes(s) \in Nat
      BY <1>2, BytesType DEF File
    <3>5. Bytes(s) <= bytes \/ \A i \in 1..Len(s) - 1 : s[i].end <= bytes
      <4>1. ASSUME NEW i \in 1..Len(s) - 1
            PROVE  s[i].end \in Nat
        <5>1. s[i] \in Recorded
          BY <3>4
        <5> QED
          BY <5>1 DEF Recorded
      <4> QED
        BY <1>2, <3>1, <3>4, <4>1, Numbers
    <3> HIDE DEF h
    <3>6. FileOk(CutFile(h[name], bytes))
      <4>1. \A i \in DOMAIN h[name].index :
                h[name].index[i].at = i * IndexInterval /\ Leads(h[name], i)
        BY <3>1, <3>2 DEF Leads
      <4> QED
        BY <1>2, <3>1, <3>2, <3>3, <3>5, <4>1, CutFileOk
    <3> QED
      BY <1>2, <2>1, <3>2, <3>3, <3>6 DEF DiskOk, FileOk
  <2> QED
    BY <2>1
<1> HIDE DEF d1
<1>4. DiskOk([d1 EXCEPT ![name].idxTail = FALSE])
  <2> DEFINE g == [d1[name] EXCEPT !.idxTail = FALSE]
  <2>1. d1 \in [Names -> File] /\ FileOk(d1[name])
    BY <1>2, <1>3 DEF DiskOk
  <2>2. /\ g \in File
        /\ g.frames = d1[name].frames /\ g.index = d1[name].index
        /\ g.sealed = d1[name].sealed /\ g.tail = d1[name].tail
        /\ g.hdrFrames = d1[name].hdrFrames
    BY <1>2, <2>1 DEF File
  <2>3. [d1 EXCEPT ![name].idxTail = FALSE] = [d1 EXCEPT ![name] = g]
    OBVIOUS
  <2> HIDE DEF g
  <2>4. FileOk(g)
    BY <2>1, <2>2 DEF FileOk, HeaderOk, IndexOk, Leads, Torn
  <2>5. DiskOk([d1 EXCEPT ![name] = g])
    BY <1>2, <1>3, <2>2, <2>4 DEF DiskOk
  <2> QED
    BY <2>3, <2>5
<1> QED
  BY <1>1, <1>3, <1>4

-----------------------------------------------------------------------------
(* The steps preserve the invariant: the counters.                         *)

Counting == InBatch /\ EveryFrameAccounted /\ FailuresEarned /\ DegradedEarned

LEMMA LengthType ==
  ASSUME NEW d \in [Names -> File], NEW n \in Names
  PROVE  Len(d[n].frames) \in Nat
  BY DEF File

LEMMA TypeStep ==
  ASSUME TypeOK, InBatch, Next, disk' \in [Names -> File], Closed(disk) \in [Names -> File]
  PROVE  TypeOK'
<1> USE Numbers DEF TypeOK, fileVars, countVars, failVars, threadVars, statVars, envVars,
                    histVars
<1>1. CASE TakeBatch
  BY <1>1 DEF TakeBatch
<1>2. ASSUME NEW sym \in Symbols, NEW ts \in 0..MaxTs, NextFrame(sym, ts)
      PROVE  TypeOK'
  BY <1>2 DEF NextFrame, Frame
<1>3. CASE NoRoll
  BY <1>3 DEF NoRoll
<1>4. CASE RollOk \/ RollFails
  <2>1. FileName(cur.ts) \in Names
    BY <1>4, NamesHold DEF RollOk, RollFails, InBatch, Frame
  <2>2. Len(Closed(disk)[FileName(cur.ts)].frames) \in Nat
    BY <2>1, LengthType
  <2>3. destroyed' \in Nat
    <3>1. destroyed' \in {destroyed, destroyed + Len(Closed(disk)[FileName(cur.ts)].frames)}
      BY <1>4 DEF RollOk, RollFails
    <3> QED
      BY <2>2, <3>1
  <2>4. CASE RollOk
    BY <2>1, <2>3, <2>4 DEF RollOk
  <2>5. CASE RollFails
    <3>1. /\ mdf' = "null" /\ idx' = "null" /\ failures' = failures + 1 /\ pc' = "write"
          /\ UNCHANGED <<name, cap, idxCap, countVars, degraded, running, left, batch, cur,
                         statVars, envVars, received, lostRun>>
      BY <2>5 DEF RollFails, AnotherFailure
    <3> QED
      BY <2>3, <3>1
  <2> QED
    BY <1>4, <2>4, <2>5
<1>5. CASE WriteDegraded
  BY <1>5 DEF WriteDegraded, FrameDone, InBatch
<1>6. CASE WriteFails
  BY <1>6 DEF WriteFails, FrameDone, AnotherFailure, InBatch
<1>7. CASE WriteOk
  <2>1. name \in Names /\ disk[name] \in File
    OBVIOUS
  <2>2. cur \in Frame
    BY <1>7 DEF WriteOk, InBatch
  <2>3. SizeOf[cur.sym] \in Nat
    BY <2>2, ConstantsAssumption DEF Frame
  <2>4. Bytes(disk[name].frames) \in Nat
    BY <2>1, BytesType DEF File
  <2>5. /\ bytes' = Bytes(disk[name].frames) + SizeOf[cur.sym]
        /\ cap' = Grown(cap, Bytes(disk[name].frames) + SizeOf[cur.sym])
        /\ idxCap' \in {idxCap, Grown(idxCap, Len(disk[name].index) + 1)}
        /\ idx' \in {idx, "broken"}
        /\ sinceIndex' \in {0, sinceIndex + 1}
    BY <1>7 DEF WriteOk
  <2>6. bytes' \in Nat /\ cap' \in Nat /\ idxCap' \in Nat /\ sinceIndex' \in Nat
    BY <2>3, <2>4, <2>5 DEF Grown
  <2>7. idx' \in {"null", "open", "broken"}
    BY <2>5
  <2>8. /\ failures' = 0 /\ frameCount' = frameCount + 1 /\ needsFsync' = TRUE
        /\ written' = written + 1 /\ lostRun' = 0 /\ left' = left - 1 /\ left \in 1..batch
        /\ cur' = NoFrame /\ pc' \in {"end", "next"}
        /\ UNCHANGED <<running, batch, mdf, name, unique, degraded, errors, recordsTotal,
                       envVars, received, destroyed>>
    BY <1>7 DEF WriteOk, FrameDone, InBatch
  <2> QED
    BY <2>6, <2>7, <2>8
<1>8. CASE BatchEnd
  <2>1. needsFsync' \in BOOLEAN
    BY <1>8 DEF BatchEnd, Fsync
  <2>2. /\ recordsTotal' = recordsTotal + batch /\ batch' = 0 /\ pc' = "loop"
        /\ UNCHANGED <<fileVars, bytes, frameCount, sinceIndex, unique, failVars, running, left,
                       cur, written, errors, envVars, histVars>>
    BY <1>8 DEF BatchEnd
  <2> QED
    BY <2>1, <2>2
<1>9. CASE IdleFsync
  BY <1>9 DEF IdleFsync, Fsync
<1>10. CASE ThreadExit
  BY <1>10 DEF ThreadExit, Fsync
<1>11. CASE ForceRoll
  BY <1>11 DEF ForceRoll
<1>12. CASE StopRequest
  BY <1>12 DEF StopRequest
<1>13. CASE StopClose
  BY <1>13 DEF StopClose
<1>14. CASE Die
  BY <1>14 DEF Die
<1>15. CASE Restart
  <2>1. 0 \in Names
    BY DEF Names, FileName
  <2>2. /\ name' \in Names /\ unique' \subseteq Symbols /\ needsFsync' \in BOOLEAN
        /\ degraded' \in BOOLEAN /\ running' \in BOOLEAN /\ cur' \in Frame \cup {NoFrame}
    BY <1>15, <2>1 DEF Restart
  <2>3. /\ mdf' = "null" /\ idx' = "null" /\ cap' = 0 /\ idxCap' = 0 /\ bytes' = 0
        /\ frameCount' = 0 /\ sinceIndex' = 0 /\ failures' = 0 /\ pc' = "loop"
        /\ left' = 0 /\ batch' = 0 /\ written' = 0 /\ errors' = 0 /\ recordsTotal' = 0
        /\ received' = 0 /\ lostRun' = 0 /\ restarts' = restarts + 1
        /\ UNCHANGED <<clock, destroyed>>
    BY <1>15 DEF Restart
  <2> QED
    BY <2>2, <2>3
<1> QED
  BY <1>1, <1>2, <1>3, <1>4, <1>5, <1>6, <1>7, <1>8, <1>9, <1>10, <1>11, <1>12, <1>13,
     <1>14, <1>15 DEF Next, ThreadStep

LEMMA CountingStep ==
  ASSUME TypeOK, Counting, Next
  PROVE  Counting'
<1> USE Numbers DEF TypeOK, Counting, InBatch, EveryFrameAccounted, FailuresEarned,
                    DegradedEarned, failVars, threadVars, statVars, histVars
<1>1. CASE TakeBatch
  BY <1>1 DEF TakeBatch
<1>2. ASSUME NEW sym \in Symbols, NEW ts \in 0..MaxTs, NextFrame(sym, ts)
      PROVE  Counting'
  BY <1>2 DEF NextFrame, Frame
<1>3. CASE NoRoll
  BY <1>3 DEF NoRoll
<1>4. CASE RollOk
  BY <1>4 DEF RollOk
<1>5. CASE RollFails
  <2>1. /\ pc = "roll" /\ pc' = "write" /\ failures' = failures + 1
        /\ UNCHANGED <<degraded, left, batch, cur, statVars, received, lostRun>>
    BY <1>5 DEF RollFails, AnotherFailure
  <2> QED
    BY <2>1
<1>6. CASE WriteDegraded
  BY <1>6 DEF WriteDegraded, FrameDone
<1>7. CASE WriteFails
  BY <1>7 DEF WriteFails, FrameDone, AnotherFailure
<1>8. CASE WriteOk
  <2>1. /\ pc = "write" /\ ~degraded /\ failures' = 0 /\ lostRun' = 0
        /\ written' = written + 1 /\ FrameDone
        /\ UNCHANGED <<degraded, errors, recordsTotal, received>>
    BY <1>8 DEF WriteOk
  <2> QED
    BY <2>1 DEF FrameDone
<1>9. CASE BatchEnd
  BY <1>9 DEF BatchEnd
<1>10. CASE IdleFsync
  BY <1>10 DEF IdleFsync
<1>11. CASE ThreadExit
  BY <1>11 DEF ThreadExit
<1>12. CASE ForceRoll
  BY <1>12 DEF ForceRoll
<1>13. CASE StopRequest
  BY <1>13 DEF StopRequest
<1>14. CASE StopClose
  BY <1>14 DEF StopClose
<1>15. CASE Die
  BY <1>15 DEF Die
<1>16. CASE Restart
  BY <1>16 DEF Restart
<1> QED
  BY <1>1, <1>2, <1>3, <1>4, <1>5, <1>6, <1>7, <1>8, <1>9, <1>10, <1>11, <1>12, <1>13,
     <1>14, <1>15, <1>16 DEF Next, ThreadStep

-----------------------------------------------------------------------------
(* The steps preserve the invariant: the files.                            *)

Files == DiskOk(disk) /\ Fits /\ OpenFile /\ OpenIndex

(* A step that leaves the files alone.                                     *)
LEMMA FilesKept ==
  ASSUME TypeOK, Files,
         UNCHANGED <<disk, fileVars, frameCount, sinceIndex>>,
         bytes' \in {bytes, RollBytes},
         pc' = "write" => pc = "write" \/ bytes < RollBytes
  PROVE  Files'
<1> USE DEF Files, fileVars
<1>1. DiskOk(disk)' /\ Fits' /\ OpenIndex'
  BY DEF Fits, OpenIndex, DiskOk
<1>2. OpenFile'
  BY Numbers DEF OpenFile, TypeOK, Leads
<1> QED
  BY <1>1, <1>2

(* A step after which no MDF file is open.                                 *)
LEMMA FilesClosed ==
  ASSUME DiskOk(disk)', mdf' # "open"
  PROVE  Files'
  BY DEF Files, Fits, OpenFile, OpenIndex

(* update_mdf_header with the current count.                               *)
LEMMA HeaderNowOk ==
  ASSUME TypeOK, DiskOk(disk), OpenFile
  PROVE  /\ DiskOk(HeaderUpdated(disk, frameCount))
         /\ \A n \in Names :
               /\ HeaderUpdated(disk, frameCount)[n].frames = disk[n].frames
               /\ HeaderUpdated(disk, frameCount)[n].index = disk[n].index
               /\ HeaderUpdated(disk, frameCount)[n].sealed = disk[n].sealed
<1>1. frameCount \in Nat
  BY DEF TypeOK
<1>2. mdf = "open" => /\ disk[name].sealed = FALSE
                      /\ frameCount <= Len(disk[name].frames)
  BY <1>1 DEF OpenFile
<1> QED
  BY <1>1, <1>2, HeaderUpdatedOk, ZenonT(60)

(* A step that updates the header of the open file, as fsync_files does,   *)
(* or does not.                                                            *)
LEMMA FilesFsync ==
  ASSUME TypeOK, Files, NEW due \in BOOLEAN, Fsync(due), pc' # "write",
         UNCHANGED <<fileVars, bytes, frameCount, sinceIndex>>
  PROVE  Files'
<1> USE DEF Files, fileVars
<1>1. CASE UNCHANGED disk
  BY <1>1, FilesKept
<1>2. CASE disk' = HeaderUpdated(disk, frameCount)
  <2>1. /\ DiskOk(disk')
        /\ \A n \in Names : /\ disk'[n].frames = disk[n].frames
                            /\ disk'[n].index = disk[n].index
                            /\ disk'[n].sealed = disk[n].sealed
    <3> DEFINE h == HeaderUpdated(disk, frameCount)
    <3>1. /\ DiskOk(h)
          /\ \A n \in Names : /\ h[n].frames = disk[n].frames
                              /\ h[n].index = disk[n].index
                              /\ h[n].sealed = disk[n].sealed
      BY HeaderNowOk
    <3>2. disk' = h
      BY <1>2
    <3> HIDE DEF h
    <3> QED
      BY <3>1, <3>2
  <2>2. name \in Names
    BY DEF TypeOK
  <2>3. Fits' /\ OpenIndex'
    BY <2>1, <2>2 DEF Fits, OpenIndex
  <2>4. OpenFile'
    BY <2>1, <2>2 DEF OpenFile, Leads
  <2>5. DiskOk(disk)'
    BY <2>1 DEF DiskOk
  <2> QED
    BY <2>3, <2>4, <2>5
<1> QED
  BY <1>1, <1>2 DEF Fsync

(* Opening a new pair of files.                                            *)
LEMMA FilesRollOk ==
  ASSUME TypeOK, InBatch, Files, RollOk
  PROVE  Files'
<1> DEFINE n == FileName(cur.ts)
           d == MdfTruncated(Closed(disk), n)
<1>1. n \in Names
  BY NamesHold DEF RollOk, InBatch, Frame
<1>2. DiskOk(Closed(disk))
  BY ClosedOk DEF Files
<1>3. DiskOk(d) /\ d[n].frames = <<>> /\ d[n].sealed = FALSE
  BY <1>1, <1>2, MdfTruncatedOk
<1>4. disk' = IdxTruncated(d, n) /\ name' = n
  BY DEF RollOk
<1> HIDE DEF d, n
<1>5. /\ DiskOk(disk') /\ disk'[n].frames = <<>> /\ disk'[n].index = <<>>
      /\ disk'[n].sealed = FALSE
  BY <1>1, <1>3, <1>4, IdxTruncatedOk
<1>6. /\ mdf' = "open" /\ idx' = "open" /\ cap' = InitCap /\ idxCap' = InitIdxCap
      /\ bytes' = 0 /\ frameCount' = 0 /\ sinceIndex' = 0
  BY DEF RollOk
<1>7. Len(<<>>) = 0 /\ DOMAIN <<>> = {} /\ Bytes(<<>>) = 0
  BY DEF Bytes
<1>8. DiskOk(disk)'
  BY <1>5 DEF DiskOk
<1>9. Fits'
  BY <1>4, <1>5, <1>6, <1>7, Numbers DEF Fits
<1>10. OpenFile'
  BY <1>4, <1>5, <1>6, <1>7, Numbers DEF OpenFile
<1>11. OpenIndex'
  BY <1>4, <1>5, <1>6, <1>7, Numbers DEF OpenIndex
<1> QED
  BY <1>8, <1>9, <1>10, <1>11 DEF Files

(* Failing to open them, at whichever call.                                *)
LEMMA FilesRollFails ==
  ASSUME TypeOK, InBatch, Files, RollFails
  PROVE  Files'
<1> DEFINE n == FileName(cur.ts)
           d == MdfTruncated(Closed(disk), n)
           cut == [d EXCEPT ![n].tail = FALSE]
<1>1. n \in Names
  BY NamesHold DEF RollFails, InBatch, Frame
<1>2. DiskOk(Closed(disk))
  BY ClosedOk DEF Files
<1>3. DiskOk(d) /\ d[n].frames = <<>> /\ d[n].sealed = FALSE
  BY <1>1, <1>2, MdfTruncatedOk
<1>4. disk' \in {Closed(disk), d, cut, IdxTruncated(cut, n)}
  BY DEF RollFails
<1>5. DiskOk(cut) /\ cut[n].frames = <<>>
  <2> HIDE DEF d, n
  <2> QED
    BY <1>1, <1>3, CutBackOk
<1> HIDE DEF cut, d, n
<1>6. DiskOk(IdxTruncated(cut, n))
  BY <1>1, <1>5, IdxTruncatedOk
<1>7. DiskOk(disk')
  BY <1>2, <1>3, <1>4, <1>5, <1>6
<1>8. DiskOk(disk)' /\ mdf' # "open"
  BY <1>7 DEF DiskOk, RollFails
<1> QED
  BY <1>8, FilesClosed

(* The disk after the open file has become g, with or without an update of *)
(* its header.                                                             *)
LEMMA StoredOk ==
  ASSUME TypeOK, DiskOk(disk), mdf = "open",
         NEW g, FileOk(g), g.sealed = FALSE, NEW count \in Nat, count <= Len(g.frames),
         NEW d, d \in {[disk EXCEPT ![name] = g], HeaderUpdated([disk EXCEPT ![name] = g], count)}
  PROVE  /\ DiskOk(d) /\ d[name].frames = g.frames /\ d[name].index = g.index
         /\ d[name].sealed = FALSE
<1>1. name \in Names /\ disk \in [Names -> File] /\ g \in File
  BY DEF TypeOK, FileOk
<1>2. PICK e : e = [disk EXCEPT ![name] = g]
  OBVIOUS
<1>3. DiskOk(e) /\ e[name] = g
  BY <1>1, <1>2 DEF DiskOk
<1>4. CASE d = e
  BY <1>3, <1>4
<1>5. CASE d = HeaderUpdated(e, count)
  <2>1. mdf = "open" => e[name].sealed = FALSE /\ count <= Len(e[name].frames)
    BY <1>3
  <2>2. /\ DiskOk(HeaderUpdated(e, count))
        /\ \A n \in Names : /\ HeaderUpdated(e, count)[n].frames = e[n].frames
                            /\ HeaderUpdated(e, count)[n].index = e[n].index
                            /\ HeaderUpdated(e, count)[n].sealed = e[n].sealed
    <3>1. TypeOK /\ DiskOk(e) /\ count \in Nat
      BY <1>3
    <3> QED
      BY ONLY <2>1, <3>1, HeaderUpdatedOk, ZenonT(60)
  <2> QED
    BY <1>1, <1>3, <1>5, <2>2
<1> QED
  BY <1>2, <1>4, <1>5

(* A sequence after an append.                                             *)
LEMMA AppendFacts ==
  ASSUME NEW S, NEW s \in Seq(S), NEW x \in S
  PROVE  /\ Append(s, x) \in Seq(S) /\ Append(s, x) # <<>>
         /\ Len(Append(s, x)) = Len(s) + 1 /\ Len(s) \in Nat
         /\ DOMAIN s = 1..Len(s) /\ DOMAIN Append(s, x) = 1..Len(s) + 1
         /\ \A i \in 1..Len(s) : Append(s, x)[i] = s[i]
         /\ Append(s, x)[Len(s) + 1] = x
  OBVIOUS

(* Appending a frame: the contents, the index and the header move on       *)
(* together.                                                               *)
LEMMA FilesWriteOk ==
  ASSUME TypeOK, InBatch, Files, WriteOk
  PROVE  Files'
<1> DEFINE f == disk[name]
           s == f.frames
           size == Bytes(s) + SizeOf[cur.sym]
           count == frameCount + 1
           new == [sym |-> cur.sym, ts |-> cur.ts, end |-> size]
           entry == [ts |-> cur.ts, at |-> Len(s) + 1]
           f1 == [f EXCEPT !.frames = Append(s, new)]
           f2 == [f1 EXCEPT !.index = Append(f.index, entry)]
           due == sinceIndex + 1 >= IndexInterval
           stored(g) == {[disk EXCEPT ![name] = g], HeaderUpdated([disk EXCEPT ![name] = g], count)}
<1>1. /\ name \in Names /\ disk \in [Names -> File] /\ f \in File
      /\ s \in Seq(Recorded) /\ f.index \in Seq(Entry) /\ Bytes(s) \in Nat
      /\ frameCount \in Nat /\ sinceIndex \in Nat /\ idxCap \in Nat /\ cap \in Nat
  BY BytesType DEF TypeOK, File
<1>2. mdf = "open" /\ pc = "write" /\ cur \in Frame
  BY DEF WriteOk, InBatch
<1>3. SizeOf[cur.sym] \in Nat /\ SizeOf[cur.sym] <= InitCap /\ new \in Recorded /\ entry \in Entry
  <2>1. SizeOf[cur.sym] \in Nat /\ SizeOf[cur.sym] <= InitCap
    BY <1>2, ConstantsAssumption DEF Frame
  <2> QED
    BY <1>1, <1>2, <2>1 DEF Frame, Recorded, Entry
<1>4. /\ mdf' = "open" /\ name' = name /\ cap' = Grown(cap, size) /\ bytes' = size
      /\ frameCount' = count /\ sinceIndex' = IF due THEN 0 ELSE sinceIndex + 1
      /\ pc' # "write"
  BY <1>2 DEF WriteOk, FrameDone
<1>5. \/ /\ disk' \in stored(f2)
         /\ due /\ idx = "open" /\ idxCap' = Grown(idxCap, Len(f.index) + 1)
      \/ /\ disk' \in stored(f1)
         /\ idxCap' = idxCap
         /\ idx' = "open" => idx = "open" /\ ~due
  BY DEF WriteOk
<1>6. /\ f.sealed = FALSE /\ frameCount = Len(s) /\ Bytes(s) < RollBytes
      /\ \A i \in 1..Len(s) - 1 : s[i].end < RollBytes
      /\ \A i \in DOMAIN f.index : f.index[i].at = i * IndexInterval /\ Leads(f, i)
      /\ Bytes(s) <= cap /\ InitCap <= cap
      /\ idx = "open" => /\ Len(s) = Len(f.index) * IndexInterval + sinceIndex
                         /\ sinceIndex < IndexInterval
                         /\ Len(f.index) <= idxCap /\ InitIdxCap <= idxCap
  BY <1>2 DEF Files, OpenFile, OpenIndex, Fits
<1>7. DiskOk(disk) /\ FileOk(f) /\ f.hdrFrames <= Len(s)
  <2>1. DiskOk(disk) /\ FileOk(f)
    BY <1>1 DEF Files, DiskOk
  <2>2. ~Torn(f) /\ Len(s) \in Nat /\ f.hdrFrames \in Nat
    BY <1>1, <1>6 DEF Torn, File
  <2>3. f.hdrFrames <= Len(s)
    BY <2>1, <2>2 DEF FileOk, HeaderOk
  <2> QED
    BY <2>1, <2>3
<1> DEFINE t == Append(s, new)
<1>8. /\ t \in Seq(Recorded) /\ Len(t) = Len(s) + 1 /\ Len(s) \in Nat
      /\ DOMAIN s = 1..Len(s) /\ DOMAIN t = 1..Len(s) + 1
      /\ \A i \in 1..Len(s) : t[i] = s[i]
      /\ t[Len(s) + 1] = new /\ Bytes(t) = size
  BY <1>1, <1>3, AppendFacts, BytesAppend
<1> HIDE DEF t
(* What the new contents keep, whatever becomes of the index.              *)
<1>9. ASSUME NEW g, g \in File, g.frames = t, g.sealed = FALSE, g.hdrFrames = f.hdrFrames,
             \A i \in DOMAIN g.index : g.index[i].at = i * IndexInterval /\ Leads(g, i),
             disk' \in stored(g)
      PROVE  /\ DiskOk(disk)' /\ OpenFile'
             /\ disk'[name].frames = t /\ disk'[name].index = g.index
  <2>1. HeaderOk(g)
    BY <1>7, <1>8, <1>9, <1>1 DEF HeaderOk, Torn, File
  <2>2. FileOk(g)
    BY <1>9, <2>1 DEF FileOk, IndexOk
  <2>3. count \in Nat /\ count <= Len(g.frames)
    BY <1>1, <1>6, <1>8, <1>9
  <2>4. /\ DiskOk(disk') /\ disk'[name].frames = t /\ disk'[name].index = g.index
        /\ disk'[name].sealed = FALSE
    <3>1. /\ TypeOK /\ DiskOk(disk) /\ mdf = "open" /\ FileOk(g) /\ g.sealed = FALSE
          /\ count \in Nat /\ count <= Len(g.frames) /\ g.frames = t
          /\ disk' \in {[disk EXCEPT ![name] = g],
                        HeaderUpdated([disk EXCEPT ![name] = g], count)}
      BY <1>2, <1>7, <1>9, <2>2, <2>3
    <3> HIDE DEF count
    <3> QED
      BY ONLY <3>1, StoredOk, ZenonT(60)
  <2>5. DiskOk(disk)'
    BY <2>4 DEF DiskOk
  <2>6. \A i \in 1..Len(t) - 1 : t[i].end < RollBytes
    <3> SUFFICES ASSUME NEW i \in 1..Len(s)
                 PROVE  s[i].end < RollBytes
      BY <1>8
    <3>1. CASE i = Len(s)
      BY <1>1, <1>6, <1>8, <3>1 DEF Bytes
    <3>2. CASE i # Len(s)
      BY <1>6, <1>8, <3>2
    <3> QED
      BY <3>1, <3>2
  <2>7. OpenFile'
    <3>1. count = Len(t) /\ bytes' = Bytes(t)
      BY <1>4, <1>6, <1>8
    <3>2. \A i \in DOMAIN g.index : g.index[i].at = i * IndexInterval /\ Leads(disk'[name], i)
      BY <1>9, <2>4 DEF Leads
    <3> HIDE DEF count
    <3>3. /\ disk'[name].sealed = FALSE /\ frameCount' = Len(disk'[name].frames)
          /\ bytes' = Bytes(disk'[name].frames)
          /\ \A i \in 1..Len(disk'[name].frames) - 1 : disk'[name].frames[i].end < RollBytes
          /\ \A i \in DOMAIN disk'[name].index :
                disk'[name].index[i].at = i * IndexInterval /\ Leads(disk'[name], i)
      BY <1>4, <2>4, <2>6, <3>1, <3>2
    <3> QED
      BY <1>4, <3>3 DEF OpenFile, Leads
  <2> QED
    BY <2>4, <2>5, <2>7
(* The mapping holds the new contents: one doubling is enough.             *)
<1>10. size <= cap' /\ InitCap <= cap'
  BY <1>1, <1>3, <1>4, <1>6, Numbers, SMTT(60) DEF Grown
<1>11. CASE /\ disk' \in stored(f2)
            /\ due /\ idx = "open" /\ idxCap' = Grown(idxCap, Len(f.index) + 1)
  <2> DEFINE u == Append(f.index, entry)
  <2>1. /\ u \in Seq(Entry) /\ Len(u) = Len(f.index) + 1 /\ Len(f.index) \in Nat
        /\ DOMAIN f.index = 1..Len(f.index) /\ DOMAIN u = 1..Len(f.index) + 1
        /\ \A i \in 1..Len(f.index) : u[i] = f.index[i]
        /\ u[Len(f.index) + 1] = entry
    BY <1>1, <1>3, AppendFacts
  <2>2. /\ f2 \in File /\ f2.frames = t /\ f2.sealed = FALSE /\ f2.hdrFrames = f.hdrFrames
        /\ f2.index = u
    <3> HIDE DEF u
    <3>1. f2 = [f EXCEPT !.frames = t, !.index = u]
      BY DEF t, u
    <3> QED
      BY <1>1, <1>6, <1>8, <2>1, <3>1 DEF File
  <2>3. sinceIndex + 1 = IndexInterval /\ Len(s) + 1 = (Len(f.index) + 1) * IndexInterval
    <3>1. /\ due /\ sinceIndex < IndexInterval
          /\ Len(s) = Len(f.index) * IndexInterval + sinceIndex
      BY <1>6, <1>11, Zenon
    <3>2. Len(f.index) * IndexInterval \in Int
      BY <2>1, Numbers
    <3>3. sinceIndex + 1 = IndexInterval
      BY <1>1, <3>1, Numbers
    <3>4. Len(s) + 1 = Len(f.index) * IndexInterval + IndexInterval
      BY <1>1, <3>1, <3>2, <3>3, Numbers
    <3>5. Len(f.index) * IndexInterval + IndexInterval = (Len(f.index) + 1) * IndexInterval
      BY <2>1, Numbers
    <3> QED
      BY <3>3, <3>4, <3>5
  <2> HIDE DEF u, f2
  <2>4. \A i \in DOMAIN f2.index : f2.index[i].at = i * IndexInterval /\ Leads(f2, i)
    <3> SUFFICES ASSUME NEW i \in 1..Len(f.index) + 1
                 PROVE  /\ u[i].at = i * IndexInterval
                        /\ u[i].at \in DOMAIN t /\ t[u[i].at].ts = u[i].ts
      BY <2>1, <2>2 DEF Leads
    <3>1. CASE i = Len(f.index) + 1
      <4>1. u[i].at = Len(s) + 1 /\ u[i].ts = cur.ts
        BY <2>1, <3>1
      <4>2. t[Len(s) + 1].ts = cur.ts
        BY <1>8
      <4> QED
        BY <1>8, <2>3, <3>1, <4>1, <4>2
    <3>2. CASE i # Len(f.index) + 1
      <4>1. i \in DOMAIN f.index /\ u[i] = f.index[i]
        BY <2>1, <3>2
      <4>2. /\ f.index[i].at = i * IndexInterval /\ f.index[i].at \in 1..Len(s)
            /\ s[f.index[i].at].ts = f.index[i].ts
        BY <1>6, <1>8, <4>1 DEF Leads
      <4> QED
        BY <1>8, <4>1, <4>2
    <3> QED
      BY <3>1, <3>2
  <2>5. /\ DiskOk(disk)' /\ OpenFile'
        /\ disk'[name].frames = t /\ disk'[name].index = u
    BY <1>9, <1>11, <2>2, <2>4
  <2>6. Fits'
    <3>1. Len(u) <= idxCap' /\ InitIdxCap <= idxCap'
      BY <1>1, <1>6, <1>11, <2>1, Numbers DEF Grown
    <3> QED
      BY <1>4, <1>8, <1>10, <2>5, <3>1 DEF Fits
  <2>7. OpenIndex'
    <3>1. Len(t) = Len(u) * IndexInterval /\ sinceIndex' = 0
      BY <1>4, <1>8, <1>11, <2>1, <2>3
    <3>2. Len(u) * IndexInterval \in Int
      BY <2>1, Numbers
    <3> QED
      BY <1>4, <2>5, <3>1, <3>2, Numbers DEF OpenIndex
  <2> QED
    BY <2>5, <2>6, <2>7 DEF Files
<1>12. CASE /\ disk' \in stored(f1)
            /\ idxCap' = idxCap
            /\ idx' = "open" => idx = "open" /\ ~due
  <2>1. /\ f1 \in File /\ f1.frames = t /\ f1.sealed = FALSE /\ f1.hdrFrames = f.hdrFrames
        /\ f1.index = f.index
    <3>1. f1 = [f EXCEPT !.frames = t]
      BY DEF t
    <3> QED
      BY <1>1, <1>6, <1>8, <3>1 DEF File
  <2> HIDE DEF f1
  <2>2. \A i \in DOMAIN f1.index : f1.index[i].at = i * IndexInterval /\ Leads(f1, i)
    <3> SUFFICES ASSUME NEW i \in DOMAIN f.index
                 PROVE  /\ f.index[i].at = i * IndexInterval
                        /\ f.index[i].at \in DOMAIN t /\ t[f.index[i].at].ts = f.index[i].ts
      BY <2>1 DEF Leads
    <3>1. /\ f.index[i].at = i * IndexInterval /\ f.index[i].at \in 1..Len(s)
          /\ s[f.index[i].at].ts = f.index[i].ts
      BY <1>6, <1>8 DEF Leads
    <3> QED
      BY <1>8, <3>1
  <2>3. /\ DiskOk(disk)' /\ OpenFile'
        /\ disk'[name].frames = t /\ disk'[name].index = f.index
    BY <1>9, <1>12, <2>1, <2>2
  <2>4. Fits'
    BY <1>4, <1>6, <1>8, <1>10, <1>12, <2>3 DEF Fits
  <2>5. OpenIndex'
    <3> SUFFICES ASSUME idx' = "open"
                 PROVE  /\ Len(t) = Len(f.index) * IndexInterval + sinceIndex'
                        /\ sinceIndex' < IndexInterval
      BY <1>4, <2>3 DEF OpenIndex
    <3>1. sinceIndex' = sinceIndex + 1 /\ sinceIndex + 1 < IndexInterval
      BY <1>1, <1>4, <1>12, Numbers
    <3>2. Len(f.index) * IndexInterval \in Int
      <4>1. Len(f.index) \in Nat
        BY <1>1
      <4> QED
        BY <4>1, Numbers
    <3>3. Len(s) = Len(f.index) * IndexInterval + sinceIndex
      BY <1>6, <1>12, Zenon
    <3>4. Len(t) = Len(s) + 1
      BY <1>8
    <3> QED
      BY <1>1, <3>1, <3>2, <3>3, <3>4
  <2> QED
    BY <2>3, <2>4, <2>5 DEF Files
<1> QED
  BY <1>5, <1>11, <1>12

(* Every step keeps the files in order.                                    *)
LEMMA FilesStep ==
  ASSUME TypeOK, InBatch, Files, Next
  PROVE  Files'
<1> USE DEF fileVars, countVars, threadVars
<1>1. CASE TakeBatch
  BY <1>1, FilesKept DEF TakeBatch
<1>2. ASSUME NEW sym \in Symbols, NEW ts \in 0..MaxTs, NextFrame(sym, ts)
      PROVE  Files'
  BY <1>2, FilesKept DEF NextFrame
<1>3. CASE NoRoll
  <2>1. bytes < RollBytes
    BY <1>3, Numbers DEF NoRoll, ShouldRoll, TypeOK
  <2> QED
    BY <1>3, <2>1, FilesKept DEF NoRoll
<1>4. CASE RollOk
  BY <1>4, FilesRollOk
<1>5. CASE RollFails
  BY <1>5, FilesRollFails
<1>6. CASE WriteDegraded
  BY <1>6, FilesKept DEF WriteDegraded, FrameDone
<1>7. CASE WriteFails
  <2>1. CASE UNCHANGED mdf
    BY <1>7, <2>1, FilesKept DEF WriteFails, FrameDone
  <2>2. CASE mdf' = "broken"
    <3>1. DiskOk(disk)'
      BY <1>7 DEF WriteFails, Files, DiskOk
    <3> QED
      BY <2>2, <3>1, FilesClosed
  <2> QED
    BY <1>7, <2>1, <2>2 DEF WriteFails
<1>8. CASE WriteOk
  BY <1>8, FilesWriteOk
<1>9. CASE BatchEnd
  BY <1>9, FilesFsync DEF BatchEnd
<1>10. CASE IdleFsync
  BY <1>10, FilesFsync DEF IdleFsync
<1>11. CASE ThreadExit
  BY <1>11, FilesFsync DEF ThreadExit
<1>12. CASE ForceRoll
  BY <1>12, FilesKept DEF ForceRoll
<1>13. CASE StopRequest
  BY <1>13, FilesKept DEF StopRequest
<1>14. CASE StopClose
  <2>1. DiskOk(Closed(disk))
    BY ClosedOk DEF Files
  <2>2. DiskOk(disk)' /\ mdf' # "open"
    BY <1>14, <2>1 DEF StopClose, DiskOk
  <2> QED
    BY <2>2, FilesClosed
<1>15. CASE Die
  BY <1>15, FilesKept DEF Die
<1>16. CASE Restart
  <2>1. DiskOk(disk)' /\ mdf' # "open"
    BY <1>16 DEF Restart, Files, DiskOk
  <2> QED
    BY <2>1, FilesClosed
<1> QED
  BY <1>1, <1>2, <1>3, <1>4, <1>5, <1>6, <1>7, <1>8, <1>9, <1>10, <1>11, <1>12, <1>13,
     <1>14, <1>15, <1>16 DEF Next, ThreadStep

-----------------------------------------------------------------------------
(* The theorems.                                                           *)

LEMMA InitIInv == Init => IInv
<1> SUFFICES ASSUME Init PROVE IInv
  OBVIOUS
<1>1. NoFile \in File /\ FileOk(NoFile)
  <2>1. NoFile \in File
    <3>1. <<>> \in Seq(Recorded) /\ <<>> \in Seq(Entry)
      OBVIOUS
    <3> QED
      BY <3>1 DEF NoFile, File
  <2> QED
    BY <2>1 DEF FileOk, HeaderOk, IndexOk, Torn, NoFile
<1>2. DiskOk(disk)
  BY <1>1 DEF Init, DiskOk
<1>3. 0 \in Names
  BY Numbers DEF Names, FileName
<1>4. TypeOK
  BY <1>2, <1>3 DEF Init, TypeOK, DiskOk
<1>5. InBatch /\ EveryFrameAccounted /\ FailuresEarned /\ DegradedEarned
  BY DEF Init, InBatch, EveryFrameAccounted, FailuresEarned, DegradedEarned
<1>6. Fits /\ OpenFile /\ OpenIndex
  BY DEF Init, Fits, OpenFile, OpenIndex
<1> QED
  BY <1>2, <1>4, <1>5, <1>6 DEF IInv

LEMMA NextIInv == IInv /\ [Next]_vars => IInv'
<1> SUFFICES ASSUME IInv, [Next]_vars PROVE IInv'
  OBVIOUS
<1>1. TypeOK /\ Counting /\ Files /\ InBatch
  BY DEF IInv, Counting, Files
<1>2. CASE Next
  <2>1. Files'
    BY <1>1, <1>2, FilesStep
  <2>2. Counting'
    BY <1>1, <1>2, CountingStep
  <2>3. TypeOK'
    <3>1. disk' \in [Names -> File]
      BY <2>1 DEF Files, DiskOk
    <3>2. Closed(disk) \in [Names -> File]
      BY <1>1, ClosedOk DEF Files, DiskOk
    <3> QED
      BY <1>1, <1>2, <3>1, <3>2, TypeStep
  <2> QED
    BY <2>1, <2>2, <2>3 DEF IInv, Counting, Files
<1>3. CASE UNCHANGED vars
  <2>1. UNCHANGED <<disk, fileVars, countVars, failVars, threadVars, statVars, envVars, histVars>>
    BY <1>3 DEF vars
  <2>2. Files'
    BY <1>1, <2>1, FilesKept DEF fileVars, countVars, threadVars
  <2>3. Counting'
    BY <1>1, <2>1 DEF Counting, InBatch, EveryFrameAccounted, FailuresEarned, DegradedEarned,
                      failVars, threadVars, statVars, histVars
  <2>4. TypeOK'
    BY <1>1, <2>1 DEF TypeOK, fileVars, countVars, failVars, threadVars, statVars, envVars,
                      histVars
  <2> QED
    BY <2>2, <2>3, <2>4 DEF IInv, Counting, Files
<1> QED
  BY <1>2, <1>3

LEMMA Inductive == Spec => []IInv
  BY InitIInv, NextIInv, PTL DEF Spec

(* The recorder's variables keep their types: no counter goes below zero   *)
(* and every file stays an MDF and IDX pair.                               *)
THEOREM TypeCorrect == Spec => []TypeOK
<1>1. IInv => TypeOK
  BY DEF IInv
<1> QED
  BY <1>1, Inductive, PTL

(* record_loop accounts for every frame: each one it dequeues is counted   *)
(* once, as written or as an error, however its roll and its write end.    *)
THEOREM FramesAccounted == Spec => []EveryFrameAccounted
<1>1. IInv => EveryFrameAccounted
  BY DEF IInv
<1> QED
  BY <1>1, Inductive, PTL

(* write_frame enters degraded mode only after at least half of            *)
(* MAX_CONSECUTIVE_FAILURES frames in a row have been lost.                *)
THEOREM DegradedIsEarned == Spec => []DegradedEarned
<1>1. IInv => DegradedEarned
  BY DEF IInv
<1> QED
  BY <1>1, Inductive, PTL

(* update_mdf_header and close_current_files keep the header true to the   *)
(* file, through failed opens, failed remaps, force_roll, and crashes.     *)
THEOREM HeadersAreSound == Spec => []HeaderSound
<1>1. IInv => HeaderSound
  BY DiskOkSound DEF IInv
<1> QED
  BY <1>1, Inductive, PTL

(* write_index_entry and write_frame keep the index true to the file.      *)
THEOREM IndexIsSound == Spec => []IndexSound
<1>1. IInv => IndexSound
  BY DiskOkSound DEF IInv
<1> QED
  BY <1>1, Inductive, PTL

(* MappedAppendFile::append never copies beyond its mapping: after         *)
(* ensure_capacity the contents fit, and the loop in it doubles at most    *)
(* once.                                                                   *)
THEOREM ContentsFit == Spec => []Fits
<1>1. IInv => Fits
  BY DEF IInv
<1> QED
  BY <1>1, Inductive, PTL

=============================================================================

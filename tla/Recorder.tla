------------------------------ MODULE Recorder ------------------------------
(***************************************************************************)
(* The recording thread (src/recorder/recorder.cpp) and the MDF and IDX    *)
(* files it leaves on disk: rolling, failing opens and writes, degraded    *)
(* mode, index entries, header updates, fsync, stop, and a process that    *)
(* dies at any point and is started again.                                 *)
(*                                                                         *)
(* The steps of the thread are the calls of its loop body: dequeue a       *)
(* batch; per frame note its symbol, roll_file_if_needed, write_frame; end *)
(* the batch with the metrics and the periodic fsync.                      *)
(*                                                                         *)
(* Abstractions: sizes are counted without the header, and in units of the *)
(* smallest frame; a recorded frame carries the offset at which it ends;   *)
(* an index entry's offset is the number of its frame; a file is named by  *)
(* the second of the first timestamp; files written by a mapping survive   *)
(* the death of the process.                                               *)
(***************************************************************************)
EXTENDS Integers, Sequences, FiniteSets

CONSTANTS
    Symbols,        \* symbol ids
    SizeOf,         \* [Symbols -> Nat] encoded size of a symbol's frames
    RollBytes,      \* roll_bytes_
    IndexInterval,  \* index_interval_
    HeaderEvery,    \* 1000 in the code
    MaxFailures,    \* MAX_CONSECUTIVE_FAILURES
    InitCap, InitIdxCap,    \* initial size of the mappings
    TicksPerSecond, \* resolution of timestamps over file names
    Skew,           \* how far timestamps of different symbols are out of order
    Faults,         \* which system calls may fail
    BatchSize,
    MaxFrames,      \* bound: frames a process receives
    MaxTs,          \* bound: last timestamp
    MaxRestarts     \* bound: restarts of the process

ASSUME ConstantsAssumption ==
    /\ IsFiniteSet(Symbols)
    /\ SizeOf \in [Symbols -> Nat \ {0}]
    /\ {RollBytes, IndexInterval, HeaderEvery, MaxFailures, InitCap, InitIdxCap, TicksPerSecond,
        BatchSize} \subseteq Nat \ {0}
    /\ \A s \in Symbols : SizeOf[s] <= InitCap
    /\ {Skew, MaxFrames, MaxTs, MaxRestarts} \subseteq Nat
    /\ Faults \subseteq {"space", "mdf", "idx", "growMdf", "growIdx"}

VARIABLES
    disk,       \* what is on disk, by file name
    \* the mapped files
    mdf, idx,   \* null, open, or broken: not null, but unmapped by a failed remap
    name,       \* current_mdf_path_ and current_idx_path_
    cap, idxCap,
    \* the recorder's own counters
    bytes, frameCount, sinceIndex, unique, needsFsync, failures, degraded,
    \* the thread
    running, pc, left, batch, cur,
    \* stats_ and metrics
    written, errors, recordsTotal,
    \* the world outside
    clock, restarts,
    \* history
    received,   \* frames taken off the queue by this process
    lostRun,    \* frames lost since the last one that was written
    destroyed   \* recorded frames wiped out by opening a file of the same name

fileVars == <<mdf, idx, name, cap, idxCap>>
countVars == <<bytes, frameCount, sinceIndex, unique, needsFsync>>
failVars == <<failures, degraded>>
threadVars == <<running, pc, left, batch, cur>>
statVars == <<written, errors, recordsTotal>>
envVars == <<clock, restarts>>
histVars == <<received, lostRun, destroyed>>
vars == <<disk, fileVars, countVars, failVars, threadVars, statVars, envVars, histVars>>

Frame == [sym : Symbols, ts : 0..MaxTs]
Entry == [ts : 0..MaxTs, at : Nat]      \* IndexEntry: timestamp and offset
Recorded == [sym : Symbols, ts : 0..MaxTs, end : Nat]
File == [frames : Seq(Recorded), hdrFrames : Nat, hdrSymbols : Nat,
         tail : BOOLEAN,                \* longer than its contents
         index : Seq(Entry), idxTail : BOOLEAN,
         sealed : BOOLEAN]              \* history: closed by close_current_files
NoFrame == [sym |-> 0, ts |-> -1]
NoFile == [frames |-> <<>>, hdrFrames |-> 0, hdrSymbols |-> 0, tail |-> FALSE,
           index |-> <<>>, idxTail |-> FALSE, sealed |-> FALSE]

(* The length of a file's contents: where its last frame ends.             *)
Bytes(frames) == IF frames = <<>> THEN 0 ELSE frames[Len(frames)].end

FileName(ts) == ts \div TicksPerSecond
Names == 0..FileName(MaxTs)

TypeOK ==
    /\ disk \in [Names -> File]
    /\ mdf \in {"null", "open", "broken"} /\ idx \in {"null", "open", "broken"}
    /\ name \in Names
    /\ cap \in Nat /\ idxCap \in Nat
    /\ bytes \in Nat /\ frameCount \in Nat /\ sinceIndex \in Nat
    /\ unique \subseteq Symbols /\ needsFsync \in BOOLEAN
    /\ failures \in Nat /\ degraded \in BOOLEAN
    /\ running \in BOOLEAN /\ left \in Nat /\ batch \in Nat
    /\ written \in Nat /\ errors \in Nat /\ recordsTotal \in Nat
    /\ clock \in Nat /\ restarts \in Nat
    /\ received \in Nat /\ lostRun \in Nat /\ destroyed \in Nat
    /\ pc \in {"loop", "next", "roll", "write", "end", "exited", "stopped", "dead"}
    /\ cur \in Frame \cup {NoFrame}

(* A recorder that has just been constructed and started, on an empty      *)
(* directory.                                                              *)
Init ==
    /\ mdf = "null" /\ idx = "null" /\ name = 0 /\ cap = 0 /\ idxCap = 0
    /\ bytes = 0 /\ frameCount = 0 /\ sinceIndex = 0 /\ unique = {} /\ needsFsync = FALSE
    /\ failures = 0 /\ degraded = FALSE
    /\ running = TRUE /\ pc = "loop" /\ left = 0 /\ batch = 0 /\ cur = NoFrame
    /\ written = 0 /\ errors = 0 /\ recordsTotal = 0
    /\ received = 0 /\ lostRun = 0
    /\ disk = [n \in Names |-> NoFile]
    /\ clock = 0 /\ restarts = 0 /\ destroyed = 0

-----------------------------------------------------------------------------
(* Mutant: an old file of the same name keeps its index.                   *)
IdxTruncatedKeeps(d, n) == [d EXCEPT ![n].idxTail = TRUE]

(* Mutant: the file is cut to the size at which files roll.                *)
CutToRollBytes(frames, size) ==
    LET whole == {k \in 0..Len(frames) : Bytes(SubSeq(frames, 1, k)) <= RollBytes}
    IN  SubSeq(frames, 1, CHOOSE k \in whole : \A j \in whole : j <= k)

(* update_mdf_header on the disk d, with count frames written so far: it   *)
(* does nothing to a file that is not mapped.                              *)
HeaderUpdated(d, count) ==
    IF mdf = "open"
      THEN [d EXCEPT ![name] = [@ EXCEPT !.hdrFrames = count,
                                         !.hdrSymbols = Cardinality(unique)]]
      ELSE d

(* The frames that are whole when a file is cut to size bytes.             *)
CutTo(frames, size) ==
    LET whole == {k \in 0..Len(frames) : Bytes(SubSeq(frames, 1, k)) <= size}
    IN  SubSeq(frames, 1, CHOOSE k \in whole : \A j \in whole : j <= k)

(* A file that is closed with current_file_bytes_ = size: it is cut to     *)
(* that size or, if that is more, to its contents.                         *)
CutFile(f, size) ==
    [f EXCEPT !.frames = CutTo(f.frames, size),
              !.tail = size < Bytes(f.frames),
              !.sealed = TRUE]

(* close_current_files on the disk; a broken file is neither updated nor   *)
(* cut.                                                                    *)
Closed(d) ==
    LET h == HeaderUpdated(d, frameCount)
        d1 == IF mdf = "open" THEN [h EXCEPT ![name] = CutFile(h[name], bytes)] ELSE d
    IN  IF idx = "open" THEN [d1 EXCEPT ![name].idxTail = FALSE] ELSE d1

(* O_TRUNC, and the mapping that makes the file longer than its contents.  *)
MdfTruncated(d, n) ==
    [d EXCEPT ![n] = [@ EXCEPT !.frames = <<>>, !.hdrFrames = 0, !.hdrSymbols = 0,
                               !.tail = TRUE, !.sealed = FALSE]]
IdxTruncated(d, n) == [d EXCEPT ![n].index = <<>>, ![n].idxTail = TRUE]

(* The mapping doubles until what it has to hold fits: once at most, as no *)
(* frame is larger than the initial mapping (RecorderProofs, Fits).        *)
Grown(capacity, required) == IF required <= capacity THEN capacity ELSE 2 * capacity

-----------------------------------------------------------------------------
(* Up to a batch of frames is dequeued.                                    *)
TakeBatch ==
    /\ pc = "loop" /\ running
    /\ \E n \in 1..BatchSize :
          /\ received + n <= MaxFrames
          /\ left' = n /\ batch' = n
    /\ pc' = "next"
    /\ UNCHANGED <<disk, fileVars, countVars, failVars, running, cur, statVars, envVars, histVars>>

(* The next frame of the batch: its symbol is noted.                       *)
NextFrame(sym, ts) ==
    /\ pc = "next"
    /\ ts >= clock - Skew /\ ts <= clock + 1
    /\ cur' = [sym |-> sym, ts |-> ts]
    /\ clock' = IF ts > clock THEN ts ELSE clock
    /\ unique' = unique \cup {sym}
    /\ received' = received + 1
    /\ pc' = "roll"
    /\ UNCHANGED <<disk, fileVars, bytes, frameCount, sinceIndex, needsFsync, failVars,
                   running, left, batch, statVars, restarts, lostRun, destroyed>>

(* Mutant: every one of the three tries to open a file counts.             *)
AnotherFailurePerTry == failures + 3

(* consecutive_failures_.fetch_add(1).                                     *)
AnotherFailure == failures + 1

ShouldRoll == mdf = "null" \/ idx = "null" \/ bytes >= RollBytes

NoRoll ==
    /\ pc = "roll" /\ ~ShouldRoll
    /\ pc' = "write"
    /\ UNCHANGED <<disk, fileVars, countVars, failVars, running, left, batch, cur, statVars,
                   envVars, histVars>>

(* close_current_files, then open_new_files succeeds.                      *)
RollOk ==
    LET n == FileName(cur.ts)
        d == Closed(disk)
    IN  /\ pc = "roll" /\ ShouldRoll
        /\ disk' = IdxTruncated(MdfTruncated(d, n), n)
        /\ destroyed' = destroyed + Len(d[n].frames)
        /\ mdf' = "open" /\ idx' = "open" /\ name' = n
        /\ cap' = InitCap /\ idxCap' = InitIdxCap
        /\ bytes' = 0 /\ frameCount' = 0 /\ sinceIndex' = 0 /\ unique' = {}
        /\ failures' = 0
        /\ pc' = "write"
        /\ UNCHANGED <<needsFsync, degraded, running, left, batch, cur, statVars, envVars,
                       received, lostRun>>

(* open_new_files gives up, for want of space or after its retries.  A     *)
(* file may have been truncated before the call that failed; an MDF file   *)
(* without its IDX file is cut back to its header and closed.              *)
RollFails ==
    LET n == FileName(cur.ts)
        d == Closed(disk)
    IN  /\ pc = "roll" /\ ShouldRoll
        /\ \/ /\ {"space", "mdf"} \cap Faults # {}
              /\ disk' = d
              /\ UNCHANGED destroyed
           \/ /\ "mdf" \in Faults
              /\ disk' = MdfTruncated(d, n)
              /\ destroyed' = destroyed + Len(d[n].frames)
           \/ /\ "idx" \in Faults
              /\ \E idxToo \in BOOLEAN :
                    LET cut == [MdfTruncated(d, n) EXCEPT ![n].tail = FALSE]
                    IN  disk' = IF idxToo THEN IdxTruncated(cut, n) ELSE cut
              /\ destroyed' = destroyed + Len(d[n].frames)
        /\ mdf' = "null" /\ idx' = "null"
        /\ failures' = AnotherFailure
        /\ pc' = "write"
        /\ UNCHANGED <<name, cap, idxCap, countVars, degraded, running, left, batch, cur,
                       statVars, envVars, received, lostRun>>

(* Mutant: the last frame of a batch is handled once more.                 *)
FrameDoneOnceMore ==
    /\ left' = left - 1 /\ cur' = NoFrame
    /\ pc' = IF left = 0 THEN "end" ELSE "next"
    /\ UNCHANGED <<running, batch>>

FrameDone ==
    /\ left' = left - 1 /\ cur' = NoFrame
    /\ pc' = IF left = 1 THEN "end" ELSE "next"
    /\ UNCHANGED <<running, batch>>

(* Mutant: a frame dropped in degraded mode is not counted.                *)
WriteDegradedSilently ==
    /\ pc = "write" /\ degraded
    /\ lostRun' = lostRun + 1
    /\ FrameDone
    /\ UNCHANGED <<disk, fileVars, countVars, failVars, statVars, envVars, received, destroyed>>

(* In degraded mode frames are dropped, whatever the state of the files.   *)
WriteDegraded ==
    /\ pc = "write" /\ degraded
    /\ errors' = errors + 1
    /\ lostRun' = lostRun + 1
    /\ FrameDone
    /\ UNCHANGED <<disk, fileVars, countVars, failVars, written, recordsTotal, envVars,
                   received, destroyed>>

(* No file, an unmapped file, or a mapping that cannot grow: the frame is  *)
(* lost and the failure counted.                                           *)
WriteFails ==
    /\ pc = "write" /\ ~degraded
    /\ \/ mdf # "open" /\ UNCHANGED mdf
       \/ /\ mdf = "open" /\ "growMdf" \in Faults
          /\ Bytes(disk[name].frames) + SizeOf[cur.sym] > cap
          /\ mdf' = "broken"
    /\ errors' = errors + 1
    /\ failures' = AnotherFailure
    /\ degraded' = (AnotherFailure >= MaxFailures)
    /\ lostRun' = lostRun + 1
    /\ FrameDone
    /\ UNCHANGED <<disk, idx, name, cap, idxCap, countVars, written, recordsTotal, envVars,
                   received, destroyed>>

(* The frame is appended, with an index entry every IndexInterval frames   *)
(* and a header update every HeaderEvery frames.  A failing index entry is *)
(* not an error.                                                           *)
WriteOk ==
    LET f == disk[name]
        size == Bytes(f.frames) + SizeOf[cur.sym]
        count == frameCount + 1
        appended == [f EXCEPT !.frames =
                        Append(f.frames, [sym |-> cur.sym, ts |-> cur.ts, end |-> size])]
        indexed == [appended EXCEPT !.index =
                        Append(f.index, [ts |-> cur.ts, at |-> Len(f.frames) + 1])]
        due == sinceIndex + 1 >= IndexInterval
        stored(g) == LET d == [disk EXCEPT ![name] = g]
                     IN  IF count % HeaderEvery = 0 THEN HeaderUpdated(d, count) ELSE d
    IN  /\ pc = "write" /\ ~degraded /\ mdf = "open"
        /\ cap' = Grown(cap, size)
        /\ \/ /\ due /\ idx = "open"
              /\ disk' = stored(indexed)
              /\ idxCap' = Grown(idxCap, Len(f.index) + 1)
              /\ UNCHANGED idx
           \/ /\ due /\ idx = "open" /\ Len(f.index) = idxCap /\ "growIdx" \in Faults
              /\ disk' = stored(appended) /\ idx' = "broken"
              /\ UNCHANGED idxCap
           \/ /\ ~due \/ idx # "open"
              /\ disk' = stored(appended)
              /\ UNCHANGED <<idx, idxCap>>
        /\ failures' = 0
        /\ bytes' = size /\ frameCount' = count
        /\ sinceIndex' = IF due THEN 0 ELSE sinceIndex + 1
        /\ needsFsync' = TRUE
        /\ written' = written + 1
        /\ lostRun' = 0
        /\ FrameDone
        /\ UNCHANGED <<mdf, name, unique, degraded, errors, recordsTotal, envVars, received,
                       destroyed>>

(* fsync_files, when there is something to flush and the interval is over. *)
Fsync(due) ==
    IF needsFsync /\ due
      THEN disk' = HeaderUpdated(disk, frameCount) /\ needsFsync' = FALSE
      ELSE UNCHANGED <<disk, needsFsync>>

(* The end of a batch: the periodic fsync, and the metrics, which count    *)
(* every frame of the batch.                                               *)
BatchEnd ==
    /\ pc = "end"
    /\ \E due \in BOOLEAN : Fsync(due)
    /\ recordsTotal' = recordsTotal + batch
    /\ batch' = 0
    /\ pc' = "loop"
    /\ UNCHANGED <<fileVars, bytes, frameCount, sinceIndex, unique, failVars, running, left, cur,
                   written, errors, envVars, histVars>>

(* Nothing in the queue: only the fsync interval is looked at.             *)
IdleFsync ==
    /\ pc = "loop" /\ running /\ needsFsync
    /\ Fsync(TRUE)
    /\ UNCHANGED <<fileVars, bytes, frameCount, sinceIndex, unique, failVars, threadVars, statVars,
                   envVars, histVars>>

(* The loop ends with a final fsync.                                       *)
ThreadExit ==
    /\ pc = "loop" /\ ~running
    /\ Fsync(TRUE)
    /\ pc' = "exited"
    /\ UNCHANGED <<fileVars, bytes, frameCount, sinceIndex, unique, failVars, running, left, batch,
                   cur, statVars, envVars, histVars>>

-----------------------------------------------------------------------------
(* force_roll, called from any thread, makes the next frame start a new    *)
(* file.  It overwrites the size of the current one.                       *)
ForceRoll ==
    /\ running /\ bytes # RollBytes
    /\ bytes' = RollBytes
    /\ UNCHANGED <<disk, fileVars, frameCount, sinceIndex, unique, needsFsync, failVars, threadVars,
                   statVars, envVars, histVars>>

(* Recorder::stop clears the flag, joins the thread and closes the files.  *)
StopRequest ==
    /\ running /\ pc # "dead"
    /\ running' = FALSE
    /\ UNCHANGED <<disk, fileVars, countVars, failVars, pc, left, batch, cur, statVars, envVars,
                   histVars>>

StopClose ==
    /\ pc = "exited"
    /\ disk' = Closed(disk)
    /\ mdf' = "null" /\ idx' = "null"
    /\ pc' = "stopped"
    /\ UNCHANGED <<name, cap, idxCap, countVars, failVars, running, left, batch, cur, statVars,
                   envVars, histVars>>

(* The process dies (std::_Exit on the second signal, SIGKILL, a crash):   *)
(* the mapped pages are in the file, the last header update may be old and *)
(* nothing is truncated.                                                   *)
Die ==
    /\ pc \notin {"stopped", "dead"}
    /\ pc' = "dead" /\ running' = FALSE
    /\ UNCHANGED <<disk, fileVars, countVars, failVars, left, batch, cur, statVars, envVars, histVars>>

(* A new process: only the disk and the clock carry over.                  *)
Restart ==
    /\ pc \in {"stopped", "dead"} /\ restarts < MaxRestarts
    /\ restarts' = restarts + 1
    /\ mdf' = "null" /\ idx' = "null" /\ name' = 0 /\ cap' = 0 /\ idxCap' = 0
    /\ bytes' = 0 /\ frameCount' = 0 /\ sinceIndex' = 0 /\ unique' = {} /\ needsFsync' = FALSE
    /\ failures' = 0 /\ degraded' = FALSE
    /\ running' = TRUE /\ pc' = "loop" /\ left' = 0 /\ batch' = 0 /\ cur' = NoFrame
    /\ written' = 0 /\ errors' = 0 /\ recordsTotal' = 0
    /\ received' = 0 /\ lostRun' = 0
    /\ UNCHANGED <<disk, clock, destroyed>>

ThreadStep ==
    \/ TakeBatch
    \/ \E sym \in Symbols, ts \in 0..MaxTs : NextFrame(sym, ts)
    \/ NoRoll \/ RollOk \/ RollFails
    \/ WriteDegraded \/ WriteFails \/ WriteOk
    \/ BatchEnd \/ IdleFsync \/ ThreadExit

Next == ThreadStep \/ ForceRoll \/ StopRequest \/ StopClose \/ Die \/ Restart

Spec == Init /\ [][Next]_vars

-----------------------------------------------------------------------------
(* Properties.                                                             *)

(* No header claims a frame that its file does not hold, whatever failed   *)
(* and wherever the process died, and one of a file that was closed in     *)
(* order claims exactly what is there.  The exception is a force_roll      *)
(* after the last frame took the file beyond roll_bytes_: the file is cut  *)
(* in the middle of that frame, never further, and its header is one off.  *)
HeaderSound ==
    \A n \in Names :
        LET torn == IF disk[n].sealed /\ disk[n].tail THEN 1 ELSE 0
        IN  /\ disk[n].hdrFrames <= Len(disk[n].frames) + torn
            /\ disk[n].sealed => disk[n].hdrFrames = Len(disk[n].frames) + torn

(* In a file with frames every index entry leads to the frame whose        *)
(* timestamp it carries, entries come in the order of the file, and until  *)
(* the IDX file breaks there is one every IndexInterval frames.  The       *)
(* exception is again the frame that a force_roll cuts off: its entry, if  *)
(* it has one, stays and leads to the half of the frame that is left.      *)
IndexSound ==
    \A n \in Names :
        LET frames == disk[n].frames
            index == disk[n].index
            torn == disk[n].sealed /\ disk[n].tail
        IN  frames # <<>> =>
              /\ \A i \in DOMAIN index :
                    /\ index[i].at = i * IndexInterval
                    /\ \/ /\ index[i].at \in DOMAIN frames
                          /\ frames[index[i].at].ts = index[i].ts
                       \/ torn /\ index[i].at = Len(frames) + 1
              /\ mdf = "open" /\ idx = "open" /\ name = n =>
                    Len(frames) < (Len(index) + 1) * IndexInterval

(* Degraded mode, which no later success ends, is not entered lightly:     *)
(* since the last frame that was written at least half of                  *)
(* MAX_CONSECUTIVE_FAILURES frames in a row have been lost (a frame that   *)
(* finds no file and cannot open one counts twice).                        *)
DegradedEarned == degraded => 2 * lostRun >= MaxFailures

(* Every frame taken off the queue is counted exactly once, as written or  *)
(* as an error, through failing rolls and appends, degraded mode and a     *)
(* restart; the frame in hand is not counted yet.                          *)
EveryFrameAccounted ==
    pc # "dead" =>
        received = written + errors + (IF pc \in {"roll", "write"} THEN 1 ELSE 0)

(* "No data loss in normal operation": a frame once recorded is never      *)
(* wiped out by a later file.                                              *)
RecordedStays == destroyed = 0

=============================================================================

------------------------------ MODULE Replayer ------------------------------
(***************************************************************************)
(* Replay sessions (src/replay/replayer.cpp): start_session is called by   *)
(* the detached thread of each HTTP request, looks for the data files of a *)
(* time range, seeks through the index of the first one, starts a playback *)
(* thread and only then lists the session in sessions_.  The playback      *)
(* thread looks itself up, and reads, filters and publishes frames, one    *)
(* file after the other.  Pause, resume, seek and stop come from other     *)
(* requests; seek moves the playback thread's stream under sessions_mutex_,*)
(* which the playback thread does not hold while it reads.                 *)
(*                                                                         *)
(* A data file is its frames, its index and the time range of its header;  *)
(* the directory has them in the order of their names, and the files of a  *)
(* session are the numbers they have there.                                *)
(* Offsets are positions in the sequence of frames: position 0 is the      *)
(* file header, which the zero entries that a crash leaves at the end of a *)
(* preallocated index point to.  A frame is good when its header and CRC   *)
(* are.  A topic pattern is the set of kinds its text before a "*" is a    *)
(* prefix of, and whether it has a "*".  Pacing is left out; PubServer's   *)
(* publish may wait for ever (see Publisher) and does not look at the      *)
(* session's flag, so its return is a step that need not come.             *)
(***************************************************************************)
EXTENDS Integers, Sequences, FiniteSets, SequencesExt

CONSTANTS
    Sessions,        \* the start requests, one session each
    Disks,           \* possible contents of the data directory, in name order
    Requests,        \* [from, to, topics] of the start requests
    SeekTimes,       \* timestamps of the seek requests
    MaxConcurrent,   \* MAX_CONCURRENT_SESSIONS
    MaxControls,     \* bound on the pause, resume and seek requests
    MayVanish        \* whether a file may be removed once it has been found

Kinds == {"l1", "l2", "trade", "hb"}
Frames == [ts : Nat, kind : Kinds, good : BOOLEAN]
Files == [frames : Seq(Frames), index : Seq([ts : Nat, at : Nat]), start : Nat, end : Nat]
Patterns == [wild : BOOLEAN, kinds : SUBSET Kinds]

ASSUME ReplayerConstants ==
    /\ MaxConcurrent \in Nat \ {0}
    /\ MaxControls \in Nat
    /\ MayVanish \in BOOLEAN
    /\ SeekTimes \subseteq Nat
    /\ \A d \in Disks : d \in Seq(Files)
    /\ \A r \in Requests : r \in [from : Nat, to : Nat, topics : SUBSET Patterns]

(* Whether file f may hold frames of the range, by its header.             *)
Meets(f, from, to) == ~(f.end < from \/ f.start > to)

(* An index entry holds the offset of the file header, or that of a frame  *)
(* and its timestamp; the frame may have been lost.                        *)
ASSUME IndexAssumption ==
    \A d \in Disks : \A i \in DOMAIN d : \A k \in DOMAIN d[i].index :
        LET e == d[i].index[k]
        IN  /\ e.at \in 0..Len(d[i].frames)
            /\ e.at # 0 /\ d[i].frames[e.at].good => d[i].frames[e.at].ts = e.ts

VARIABLES
    data,       \* the data directory
    call,       \* where start_session is
    request,    \* its arguments
    files,      \* mdf_paths and idx_paths: the numbers of the session's files
    listed,     \* sessions_: the sessions other requests can see
    running,    \* ReplaySession::running
    paused,     \* ReplaySession::paused
    file,       \* the number of the file current_file_index stands for
    pos,        \* position of mdf_file: the frame the next read starts at
    torn,       \* a seek overlapped the read in progress
    thread,     \* where the playback thread is
    frame,      \* <<file, position>> of the frame it has read
    sent,       \* the frames published, in order
    ended,      \* why playback ended
    stop,       \* where stop_session is
    sought,     \* whether a seek request moved the session
    controls    \* pause, resume and seek requests so far

startVars == <<data, call, request, files>>
streamVars == <<file, pos, torn>>
playVars == <<thread, frame, sent, ended>>
vars == <<startVars, streamVars, playVars, listed, running, paused, stop, sought, controls>>

NoRequest == [from |-> 0, to |-> 0, topics |-> {}]

TypeOK ==
    /\ data \in Disks
    /\ call \in [Sessions -> {"new", "checked", "spawned", "started", "rejected"}]
    /\ request \in [Sessions -> Requests \cup {NoRequest}]
    /\ files \in [Sessions -> SUBSET DOMAIN data]
    /\ listed \subseteq {s \in Sessions : call[s] = "started"}
    /\ running \in [Sessions -> BOOLEAN] /\ paused \in [Sessions -> BOOLEAN]
    /\ torn \in [Sessions -> BOOLEAN] /\ sought \in [Sessions -> BOOLEAN]
    /\ file \in [Sessions -> Nat] /\ pos \in [Sessions -> Nat]
    /\ \A s \in Sessions : files[s] # {} =>
          file[s] \in files[s] /\ pos[s] <= Len(data[file[s]].frames) + 1
    /\ thread \in [Sessions -> {"none", "lookup", "loop", "reading", "publish", "done"}]
    /\ frame \in [Sessions -> Nat \X Nat] /\ sent \in [Sessions -> Seq(Nat \X Nat)]
    /\ \A s \in Sessions : thread[s] = "publish" =>
          frame[s][1] \in DOMAIN data /\ frame[s][2] \in DOMAIN data[frame[s][1]].frames
    /\ ended \in [Sessions -> {"no", "unlisted", "stopped", "end", "range", "damaged", "vanished"}]
    /\ stop \in [Sessions -> {"no", "erased", "joining", "stopped"}]
    /\ controls \in 0..MaxControls

Init ==
    /\ data \in Disks
    /\ call = [s \in Sessions |-> "new"]
    /\ request = [s \in Sessions |-> NoRequest]
    /\ files = [s \in Sessions |-> {}]
    /\ listed = {}
    /\ running = [s \in Sessions |-> FALSE]
    /\ paused = [s \in Sessions |-> FALSE]
    /\ file = [s \in Sessions |-> 1]
    /\ pos = [s \in Sessions |-> 1]
    /\ torn = [s \in Sessions |-> FALSE]
    /\ thread = [s \in Sessions |-> "none"]
    /\ frame = [s \in Sessions |-> <<0, 0>>]
    /\ sent = [s \in Sessions |-> <<>>]
    /\ ended = [s \in Sessions |-> "no"]
    /\ stop = [s \in Sessions |-> "no"]
    /\ sought = [s \in Sessions |-> FALSE]
    /\ controls = 0
-----------------------------------------------------------------------------
(* Files, index and topics.                                                *)

(* The files whose header range meets [from, to].                          *)
FilesFor(from, to) == {i \in DOMAIN data : Meets(data[i], from, to)}

FirstOf(i, S) == i \in S /\ \A j \in S : i <= j

(* std::lower_bound over the index: how many entries it passes.  It halves *)
(* the range as the library does, so it also says what happens when the    *)
(* index is not sorted.  A range is its first position and its length.     *)
LowerBound(index, ts) ==
    LET ranges == {r \in (0..Len(index)) \X (0..Len(index)) : r[1] + r[2] <= Len(index)}
        search[r \in ranges] ==
          LET half == r[2] \div 2
              middle == r[1] + half + 1
          IN  IF r[2] = 0 THEN r[1]
              ELSE IF index[middle].ts < ts THEN search[<<middle, r[2] - half - 1>>]
              ELSE search[<<r[1], half>>]
    IN  search[<<0, Len(index)>>]

(* Mutant: the seek does not step back to the entry before the one found.  *)
SeekPosNoStepBack(f, ts) ==
    LET passed == LowerBound(f.index, ts)
    IN  IF passed = Len(f.index) THEN 1 ELSE f.index[passed + 1].at

(* Where seek_to_timestamp leaves the stream: at the last entry before the *)
(* first one that is not earlier than ts.                                  *)
SeekPos(f, ts) ==
    LET passed == LowerBound(f.index, ts)
    IN  IF passed = 0 THEN 1 ELSE f.index[passed].at

(* The test of the playback loop: any pattern with a "*" takes every frame.*)
Matches(topics, kind) == \E p \in topics : p.wild \/ kind \in p.kinds

Current(s) == data[file[s]]

(* The files of the session behind the one it is in.                       *)
Later(s) == {i \in files[s] : i > file[s]}
-----------------------------------------------------------------------------
(* start_session.                                                          *)

(* Validation of the arguments and the session limit, under the mutex.     *)
StartCheck(s, r) ==
    /\ call[s] = "new"
    /\ request' = [request EXCEPT ![s] = r]
    /\ LET accepted == /\ r.from < r.to
                       /\ r.topics # {}
                       /\ Cardinality(listed) < MaxConcurrent
       IN  call' = [call EXCEPT ![s] = IF accepted THEN "checked" ELSE "rejected"]
    /\ UNCHANGED <<data, files, streamVars, playVars, listed, running, paused,
                   stop, sought, controls>>

(* No file, or the first one cannot be opened: the request fails.          *)
StartFails(s) ==
    /\ call[s] = "checked"
    /\ FilesFor(request[s].from, request[s].to) = {} \/ MayVanish
    /\ call' = [call EXCEPT ![s] = "rejected"]
    /\ UNCHANGED <<data, request, files, streamVars, playVars, listed, running,
                   paused, stop, sought, controls>>

(* Find and open the files, seek to the start, start the playback thread.  *)
StartSpawn(s) ==
    LET found == FilesFor(request[s].from, request[s].to)
    IN  /\ call[s] = "checked"
        /\ files' = [files EXCEPT ![s] = found]
        /\ \E i \in found :
              /\ FirstOf(i, found)
              /\ file' = [file EXCEPT ![s] = i]
              /\ pos' = [pos EXCEPT ![s] = SeekPos(data[i], request[s].from)]
        /\ running' = [running EXCEPT ![s] = TRUE]
        /\ thread' = [thread EXCEPT ![s] = "lookup"]
        /\ call' = [call EXCEPT ![s] = "spawned"]
        /\ UNCHANGED <<data, request, torn, frame, sent, ended, listed, paused,
                       stop, sought, controls>>

(* List the session, after its thread was started.                         *)
StartRegister(s) ==
    /\ call[s] = "spawned"
    /\ listed' = listed \cup {s}
    /\ call' = [call EXCEPT ![s] = "started"]
    /\ UNCHANGED <<data, request, files, streamVars, playVars, running, paused,
                   stop, sought, controls>>
-----------------------------------------------------------------------------
(* playback_thread and read_next_frame.                                    *)

PlayUnchanged == UNCHANGED <<startVars, listed, running, paused, stop, sought, controls>>

End(s, why) ==
    /\ thread' = [thread EXCEPT ![s] = "done"]
    /\ ended' = [ended EXCEPT ![s] = why]

(* The thread looks its session up, and returns when it is not listed.     *)
Lookup(s) ==
    /\ thread[s] = "lookup"
    /\ IF s \in listed
       THEN thread' = [thread EXCEPT ![s] = "loop"] /\ UNCHANGED ended
       ELSE End(s, "unlisted")
    /\ UNCHANGED <<streamVars, frame, sent>>
    /\ PlayUnchanged

(* Mutant: a paused session does not look at its running flag.             *)
LoopTopPausedFirst(s) ==
    /\ thread[s] = "loop"
    /\ ~paused[s]
    /\ IF running[s]
       THEN thread' = [thread EXCEPT ![s] = "reading"] /\ UNCHANGED ended
       ELSE End(s, "stopped")
    /\ UNCHANGED <<streamVars, frame, sent>>
    /\ PlayUnchanged

(* The head of the loop.  While the session is paused the thread sleeps    *)
(* and comes back here.                                                    *)
LoopTop(s) ==
    /\ thread[s] = "loop"
    /\ running[s] => ~paused[s]
    /\ IF running[s]
       THEN thread' = [thread EXCEPT ![s] = "reading"] /\ UNCHANGED ended
       ELSE End(s, "stopped")
    /\ UNCHANGED <<streamVars, frame, sent>>
    /\ PlayUnchanged

(* A read that finds a frame header: a damaged frame, or one read in       *)
(* pieces around a seek, ends playback.                                    *)
ReadFrame(s) ==
    /\ thread[s] = "reading"
    /\ pos[s] <= Len(Current(s).frames)
    /\ torn' = [torn EXCEPT ![s] = FALSE]
    /\ IF torn[s] \/ pos[s] = 0 \/ ~Current(s).frames[pos[s]].good
       THEN End(s, "damaged") /\ UNCHANGED <<pos, frame>>
       ELSE /\ thread' = [thread EXCEPT ![s] = "publish"]
            /\ frame' = [frame EXCEPT ![s] = <<file[s], pos[s]>>]
            /\ pos' = [pos EXCEPT ![s] = pos[s] + 1]
            /\ UNCHANGED ended
    /\ UNCHANGED <<file, sent>>
    /\ PlayUnchanged

(* Mutant: the end of the list of files is not tested.                     *)
NextFilePast(s) ==
    /\ thread[s] = "reading"
    /\ pos[s] > Len(Current(s).frames)
    /\ file' = [file EXCEPT ![s] = file[s] + 1]
    /\ pos' = [pos EXCEPT ![s] = 1]
    /\ torn' = [torn EXCEPT ![s] = FALSE]
    /\ UNCHANGED playVars
    /\ PlayUnchanged

(* A read at the end of a file goes on with the first frame of the next.   *)
NextFile(s) ==
    /\ thread[s] = "reading"
    /\ pos[s] > Len(Current(s).frames)
    /\ \E i \in Later(s) : FirstOf(i, Later(s)) /\ file' = [file EXCEPT ![s] = i]
    /\ pos' = [pos EXCEPT ![s] = 1]
    /\ torn' = [torn EXCEPT ![s] = FALSE]
    /\ \/ UNCHANGED playVars
       \/ MayVanish /\ End(s, "vanished") /\ UNCHANGED <<frame, sent>>
    /\ PlayUnchanged

(* Mutant: the end of the last file taken for a frame yet to come.         *)
LastFileTails(s) ==
    /\ thread[s] = "reading"
    /\ pos[s] > Len(Current(s).frames)
    /\ Later(s) = {}
    /\ thread' = [thread EXCEPT ![s] = "loop"]
    /\ UNCHANGED <<streamVars, frame, sent, ended>>
    /\ PlayUnchanged

(* The end of the last file ends playback.                                 *)
LastFile(s) ==
    /\ thread[s] = "reading"
    /\ pos[s] > Len(Current(s).frames)
    /\ Later(s) = {}
    /\ End(s, "end")
    /\ UNCHANGED <<streamVars, frame, sent>>
    /\ PlayUnchanged

(* The frame in the playback thread's hand.                                *)
InHandOf(s) == data[frame[s][1]].frames[frame[s][2]]
PastRange(s) == InHandOf(s).ts > request[s].to

(* A frame later than the range ends playback; one that matches no topic   *)
(* is passed over.                                                         *)
PassFrame(s) ==
    /\ thread[s] = "publish"
    /\ \/ PastRange(s) /\ End(s, "range")
       \/ /\ ~PastRange(s) /\ ~Matches(request[s].topics, InHandOf(s).kind)
          /\ thread' = [thread EXCEPT ![s] = "loop"]
          /\ UNCHANGED ended
    /\ UNCHANGED <<streamVars, frame, sent>>
    /\ PlayUnchanged

(* publisher_->publish returns, with the frame queued.                     *)
PublishFrame(s) ==
    /\ thread[s] = "publish"
    /\ ~PastRange(s) /\ Matches(request[s].topics, InHandOf(s).kind)
    /\ sent' = [sent EXCEPT ![s] = Append(@, frame[s])]
    /\ thread' = [thread EXCEPT ![s] = "loop"]
    /\ UNCHANGED <<streamVars, frame, ended>>
    /\ PlayUnchanged
-----------------------------------------------------------------------------
(* The other requests, for the sessions that are listed.                   *)

Control(s) ==
    /\ s \in listed
    /\ controls < MaxControls
    /\ controls' = controls + 1
    /\ UNCHANGED <<startVars, playVars, listed, running, stop>>

Pause(s) ==
    /\ Control(s)
    /\ paused' = [paused EXCEPT ![s] = TRUE]
    /\ UNCHANGED <<streamVars, sought>>

Resume(s) ==
    /\ Control(s)
    /\ paused' = [paused EXCEPT ![s] = FALSE]
    /\ UNCHANGED <<streamVars, sought>>

(* A seek moves the stream within the file playback has reached.  One that *)
(* overlaps a read of the playback thread races with it on the stream: the *)
(* read may see pieces of two places and the stream may end up anywhere.   *)
(* Once playback has ended nothing reads the stream any more.              *)
Seek(s, ts) ==
    /\ Control(s)
    /\ ts >= request[s].from /\ ts <= request[s].to
    /\ thread[s] # "done"
    /\ \/ pos' = [pos EXCEPT ![s] = SeekPos(Current(s), ts)]
       \/ /\ thread[s] = "reading"
          /\ \E p \in 0..Len(Current(s).frames) + 1 : pos' = [pos EXCEPT ![s] = p]
    /\ \E b \in (IF thread[s] = "reading" THEN BOOLEAN ELSE {FALSE}) :
          torn' = [torn EXCEPT ![s] = b]
    /\ sought' = [sought EXCEPT ![s] = TRUE]
    /\ UNCHANGED <<file, paused>>

(* stop_session takes the session off the list under sessions_mutex_.      *)
StopErase(s) ==
    /\ s \in listed
    /\ listed' = listed \ {s}
    /\ stop' = [stop EXCEPT ![s] = "erased"]
    /\ UNCHANGED <<startVars, streamVars, playVars, running, paused, sought, controls>>

(* It clears the session's flag, then joins the thread.                    *)
StopFlag(s) ==
    /\ stop[s] = "erased"
    /\ running' = [running EXCEPT ![s] = FALSE]
    /\ stop' = [stop EXCEPT ![s] = "joining"]
    /\ UNCHANGED <<startVars, streamVars, playVars, listed, paused, sought, controls>>

(* Mutant: stop_session detaches the thread.                               *)
StopJoinedAtOnce(s) ==
    /\ stop[s] = "joining"
    /\ stop' = [stop EXCEPT ![s] = "stopped"]
    /\ UNCHANGED <<startVars, streamVars, playVars, listed, running, paused, sought, controls>>

(* The thread has ended, and the join returns.                             *)
StopJoined(s) ==
    /\ stop[s] = "joining"
    /\ thread[s] = "done"
    /\ stop' = [stop EXCEPT ![s] = "stopped"]
    /\ UNCHANGED <<startVars, streamVars, playVars, listed, running, paused, sought, controls>>
-----------------------------------------------------------------------------
StartStep(s) == StartFails(s) \/ StartSpawn(s) \/ StartRegister(s)
PlayStep(s) ==
    Lookup(s) \/ LoopTop(s) \/ ReadFrame(s) \/ NextFile(s) \/ LastFile(s) \/ PassFrame(s)

Next ==
    \E s \in Sessions :
        \/ \E r \in Requests : StartCheck(s, r)
        \/ StartStep(s)
        \/ PlayStep(s) \/ PublishFrame(s)
        \/ Pause(s) \/ Resume(s)
        \/ StopErase(s) \/ StopFlag(s) \/ StopJoined(s)
        \/ \E ts \in SeekTimes : Seek(s, ts)

Spec == Init /\ [][Next]_vars

(* Threads run; requests and returns of publish come or do not come.       *)
LiveSpec ==
    /\ Spec
    /\ \A s \in Sessions : /\ WF_vars(StartStep(s)) /\ WF_vars(PlayStep(s))
                          /\ WF_vars(StopFlag(s) \/ StopJoined(s))
-----------------------------------------------------------------------------
(* Properties.                                                             *)

FrameAt(p) == data[p[1]].frames[p[2]]
Before(p, q) == p[1] < q[1] \/ (p[1] = q[1] /\ p[2] < q[2])

(* The frames that were recorded, and those a request asks for, over the   *)
(* whole data directory.                                                   *)
Recorded ==
    {p \in UNION {{i} \X DOMAIN data[i].frames : i \in DOMAIN data} : FrameAt(p).good}
InRange(r) == {p \in Recorded : FrameAt(p).ts \in r.from..r.to}
Wanted(r) == {p \in InRange(r) : \E t \in r.topics : FrameAt(p).kind \in t.kinds}

(* Frames were recorded in the order of their timestamps, and the files    *)
(* that hold frames of the range say so in their headers: the last file,   *)
(* when it was not closed, need not.                                       *)
InOrder == \A p, q \in Recorded : Before(p, q) => FrameAt(p).ts <= FrameAt(q).ts
Covered(r) == \A p \in InRange(r) : Meets(data[p[1]], r.from, r.to)

(* A session that nobody sought in publishes frames in the order they were *)
(* recorded, none twice, across files; and when it comes to the end of the *)
(* data or of its range by itself it has published every frame the request *)
(* asked for, wherever in the data directory it was recorded, provided     *)
(* timestamps and headers are in order.                                    *)
ReplayFaithful ==
    \A s \in Sessions : ~sought[s] =>
        /\ \A i \in 1..Len(sent[s]) - 1 : Before(sent[s][i], sent[s][i + 1])
        /\ (ended[s] \in {"end", "range"} /\ InOrder /\ Covered(request[s])) =>
               Wanted(request[s]) \subseteq ToSet(sent[s])

(* Once stop_session has returned, the session publishes nothing more.     *)
StoppedIsSilent ==
    [][\A s \in Sessions : stop[s] = "stopped" => sent'[s] = sent[s]]_vars

(* stop_session returns, also for a paused session, unless the playback    *)
(* thread is in a call of publish that never returns.                      *)
StopReturns ==
    \A s \in Sessions :
        stop[s] = "erased" ~> (stop[s] = "stopped" \/ [](thread[s] = "publish"))

(* Playback comes to an end unless somebody leaves the session paused or a *)
(* call of publish never returns.                                          *)
PlaybackEnds ==
    \A s \in Sessions :
        thread[s] = "loop" ~> (thread[s] = "done" \/ paused[s] \/ [](thread[s] = "publish"))

=============================================================================

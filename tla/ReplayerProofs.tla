---------------------------- MODULE ReplayerProofs ---------------------------
(***************************************************************************)
(* Proofs about Replayer, for any sessions, requests and data directories: *)
(* what the search through the index finds, the types, that a stopped      *)
(* session is silent, and that an undisturbed one replays what it was      *)
(* asked for, in order.                                                    *)
(***************************************************************************)
EXTENDS Replayer, WellFoundedInduction, TLAPS

-----------------------------------------------------------------------------
(* The inductive invariant.                                                *)

Started(s) == call[s] \in {"spawned", "started"}

(* How far start_session, the playback thread and stop_session are, and    *)
(* what they leave alone until then.                                       *)
InStep(s) ==
    /\ Started(s) => thread[s] # "none"
    /\ ~Started(s) => /\ thread[s] = "none" /\ files[s] = {} /\ sent[s] = <<>>
                      /\ ended[s] = "no" /\ stop[s] = "no"
    /\ call[s] = "checked" \/ Started(s) => request[s] \in Requests
    /\ Started(s) => files[s] # {} /\ files[s] = FilesFor(request[s].from, request[s].to)
    /\ stop[s] # "no" => call[s] = "started"
    /\ stop[s] = "stopped" => thread[s] = "done"
    /\ ended[s] # "no" => thread[s] = "done"

(* The frame the thread has in its hand, and where it goes on.             *)
InHand(s) ==
    thread[s] = "publish" =>
        /\ FrameAt(frame[s]).good
        /\ ~sought[s] => file[s] = frame[s][1] /\ pos[s] = frame[s][2] + 1

(* The frame that is next to be published or passed over.                  *)
Cursor(s) == IF thread[s] = "publish" THEN frame[s] ELSE <<file[s], pos[s]>>

(* What was published comes before what is next.                           *)
Ordered(s) ==
    ~sought[s] =>
        /\ \A i \in 1..Len(sent[s]) - 1 : Before(sent[s][i], sent[s][i + 1])
        /\ \A i \in DOMAIN sent[s] : Before(sent[s][i], Cursor(s))

(* A read here ends playback: the frame was lost or damaged.               *)
AtDamage(s) ==
    /\ thread[s] # "publish"
    /\ pos[s] \in DOMAIN Current(s).frames
    /\ ~Current(s).frames[pos[s]].good

Sound(s) == InOrder /\ Covered(request[s])

(* Nothing that was asked for has been passed over.                        *)
Complete(s) ==
    ~sought[s] /\ Started(s) /\ Sound(s) =>
        \/ AtDamage(s)
        \/ \A p \in Wanted(request[s]) : Before(p, Cursor(s)) => p \in ToSet(sent[s])

(* All of it was published when playback came to its end.                  *)
Finished(s) ==
    (~sought[s] /\ ended[s] \in {"end", "range"} /\ Sound(s)) =>
        Wanted(request[s]) \subseteq ToSet(sent[s])

IInv ==
    /\ TypeOK
    /\ \A s \in Sessions : InStep(s) /\ InHand(s) /\ Ordered(s) /\ Complete(s) /\ Finished(s)

-----------------------------------------------------------------------------
(* The search through the index.  Induction over the length of a range is  *)
(* by the least counterexample.                                            *)

LEMMA LeastNatural ==
  ASSUME NEW T \in SUBSET Nat, T # {}
  PROVE  \E x \in T : \A y \in T : ~(y < x)
<1> DEFINE R == OpToRel(<, Nat)
<1>1. IsWellFoundedOn(R, Nat)
  BY NatLessThanWellFounded
<1>2. \A x, y \in Nat : <<y, x>> \in R <=> y < x
  BY DEF OpToRel
<1> HIDE DEF R
<1>3. PICK x \in T : \A y \in T : ~(<<y, x>> \in R)
  BY <1>1, WFMin
<1>4. \A y \in T : ~(y < x)
  BY <1>2, <1>3
<1> QED
  BY <1>4

Ranges(n) == {r \in (0..n) \X (0..n) : r[1] + r[2] <= n}

(* One step of the search for ts, given what it finds in shorter ranges.   *)
Halved(found, index, ts, r) ==
    LET half == r[2] \div 2
        middle == r[1] + half + 1
    IN  IF r[2] = 0 THEN r[1]
        ELSE IF index[middle].ts < ts THEN found[<<middle, r[2] - half - 1>>]
        ELSE found[<<r[1], half>>]

Searches(found, index, ts) ==
    found = [r \in Ranges(Len(index)) |-> Halved(found, index, ts, r)]

(* The ranges a step goes on with are ranges, and shorter.                 *)
LEMMA HalvesAreShorter ==
  ASSUME NEW n \in Nat, NEW r \in Ranges(n), r[2] # 0
  PROVE  /\ r[2] \div 2 \in Nat /\ r[2] \div 2 < r[2]
         /\ r[1] + (r[2] \div 2) + 1 \in 1..n
         /\ <<r[1], r[2] \div 2>> \in Ranges(n)
         /\ <<r[1] + (r[2] \div 2) + 1, r[2] - (r[2] \div 2) - 1>> \in Ranges(n)
<1>1. PICK a, b \in 0..n : r = <<a, b>> /\ a + b <= n
  BY DEF Ranges
<1>2. b # 0 /\ r[1] = a /\ r[2] = b
  BY <1>1
<1>3. PICK h : h = b \div 2
  OBVIOUS
<1>4. h \in Nat /\ 2 * h <= b
  BY <1>1, <1>3
<1>5. h < b /\ a + h + 1 \in 1..n /\ b - h - 1 \in 0..n /\ h \in 0..n /\ a \in 0..n
      /\ a + h <= n /\ (a + h + 1) + (b - h - 1) <= n
  BY <1>1, <1>2, <1>4
<1> QED
  BY <1>2, <1>3, <1>4, <1>5 DEF Ranges

(* The recursive definition defines a function.                            *)
LEMMA SearchExists ==
  ASSUME NEW index, NEW ts, Len(index) \in Nat
  PROVE  \E found : Searches(found, index, ts)
<1> DEFINE n == Len(index)
           Short(k) == {r \in Ranges(n) : r[2] < k}
           Solves(f, k) == f = [r \in Short(k) |-> Halved(f, index, ts, r)]
           T == {k \in Nat : ~\E f : Solves(f, k)}
<1>0. ASSUME NEW r \in Ranges(n) PROVE r[1] \in 0..n /\ r[2] \in 0..n
  BY DEF Ranges
<1>1. T = {}
  <2> SUFFICES ASSUME T # {} PROVE FALSE
    OBVIOUS
  <2>1. PICK k \in T : \A j \in T : ~(j < k)
    BY LeastNatural
  <2>2. k \in Nat /\ ~\E f : Solves(f, k)
    OBVIOUS
  <2> HIDE DEF T
  <2>3. CASE k = 0
    <3>1. Short(0) = {}
      BY <1>0
    <3>2. PICK f : f = [r \in {} |-> r]
      OBVIOUS
    <3>3. Solves(f, 0)
      BY <3>1, <3>2
    <3> QED
      BY <2>2, <2>3, <3>3
  <2>4. CASE k # 0
    <3>1. k - 1 \in Nat /\ k - 1 < k
      BY <2>2, <2>4
    <3>2. PICK g : Solves(g, k - 1)
      BY <2>1, <3>1 DEF T
    <3>3. PICK f : f = [r \in Short(k) |-> Halved(g, index, ts, r)]
      OBVIOUS
    <3>4. ASSUME NEW r \in Short(k - 1) PROVE r \in Short(k) /\ f[r] = g[r]
      <4>1. r \in Short(k)
        BY <1>0, <3>1, <2>2
      <4>2. f[r] = Halved(g, index, ts, r)
        BY <3>3, <4>1
      <4>3. g[r] = Halved(g, index, ts, r)
        BY <3>2
      <4> QED
        BY <4>1, <4>2, <4>3
    <3>5. ASSUME NEW r \in Short(k) PROVE Halved(g, index, ts, r) = Halved(f, index, ts, r)
      <4>1. CASE r[2] = 0
        BY <4>1 DEF Halved
      <4>2. CASE r[2] # 0
        <5>1. /\ <<r[1], r[2] \div 2>> \in Short(k - 1)
              /\ <<r[1] + (r[2] \div 2) + 1, r[2] - (r[2] \div 2) - 1>> \in Short(k - 1)
          <6>1. r[2] \in Nat /\ r[2] < k
            BY <1>0
          <6>2. /\ r[2] \div 2 \in Nat /\ r[2] \div 2 < r[2]
                /\ <<r[1], r[2] \div 2>> \in Ranges(n)
                /\ <<r[1] + (r[2] \div 2) + 1, r[2] - (r[2] \div 2) - 1>> \in Ranges(n)
            BY <4>2, HalvesAreShorter
          <6>3. PICK a, b, h : a = r[1] /\ b = r[2] /\ h = r[2] \div 2
            OBVIOUS
          <6>4. h < k - 1 /\ b - h - 1 < k - 1
            BY <2>2, <6>1, <6>2, <6>3
          <6> QED
            BY <6>2, <6>3, <6>4
        <5>2. /\ f[<<r[1], r[2] \div 2>>] = g[<<r[1], r[2] \div 2>>]
              /\ f[<<r[1] + (r[2] \div 2) + 1, r[2] - (r[2] \div 2) - 1>>]
                   = g[<<r[1] + (r[2] \div 2) + 1, r[2] - (r[2] \div 2) - 1>>]
          BY <3>4, <5>1
        <5> QED
          BY <5>2 DEF Halved
      <4> QED
        BY <4>1, <4>2
    <3>6. Solves(f, k)
      BY <3>3, <3>5
    <3> QED
      BY <2>2, <3>6
  <2> QED
    BY <2>3, <2>4
<1>2. PICK f : Solves(f, n + 1)
  <2>1. n + 1 \in Nat
    OBVIOUS
  <2> QED
    BY <1>1, <2>1
<1>3. Short(n + 1) = Ranges(n)
  BY <1>0
<1> QED
  BY <1>2, <1>3 DEF Searches

(* LowerBound is that function on the whole index.                         *)
LEMMA LowerBoundSearches ==
  ASSUME NEW index, NEW ts, Len(index) \in Nat
  PROVE  \E found : Searches(found, index, ts) /\ LowerBound(index, ts) = found[<<0, Len(index)>>]
<1> DEFINE g == CHOOSE f : f = [r \in Ranges(Len(index)) |-> Halved(f, index, ts, r)]
<1>1. \E f : f = [r \in Ranges(Len(index)) |-> Halved(f, index, ts, r)]
  <2>1. PICK f : Searches(f, index, ts)
    BY SearchExists
  <2>2. f = [r \in Ranges(Len(index)) |-> Halved(f, index, ts, r)]
    BY ONLY <2>1, Zenon DEF Searches
  <2> QED
    BY <2>2, Zenon
<1>2. g = [r \in Ranges(Len(index)) |-> Halved(g, index, ts, r)]
  BY <1>1, Zenon
<1>3. LowerBound(index, ts) = g[<<0, Len(index)>>]
  BY Zenon DEF LowerBound, Halved, Ranges
<1> QED
  BY <1>2, <1>3 DEF Searches

(* What std::lower_bound guarantees of any index, sorted or not: the last  *)
(* entry it passes is earlier than ts.                                     *)
LEMMA LowerBoundPasses ==
  ASSUME NEW index \in Seq([ts : Nat, at : Nat]), NEW ts \in Nat
  PROVE  /\ LowerBound(index, ts) \in 0..Len(index)
         /\ LowerBound(index, ts) # 0 => index[LowerBound(index, ts)].ts < ts
<1> DEFINE n == Len(index)
<1>0. n \in Nat
  OBVIOUS
<1>1. PICK found : Searches(found, index, ts) /\ LowerBound(index, ts) = found[<<0, n>>]
  BY <1>0, LowerBoundSearches
<1> DEFINE Right(r) == /\ found[r] \in r[1]..r[1] + r[2]
                       /\ found[r] > r[1] => index[found[r]].ts < ts
           T == {k \in Nat : \E r \in Ranges(n) : r[2] = k /\ ~Right(r)}
<1>2. T = {}
  <2> SUFFICES ASSUME T # {} PROVE FALSE
    OBVIOUS
  <2>1. PICK k \in T : \A j \in T : ~(j < k)
    BY LeastNatural
  <2>2. PICK r \in Ranges(n) : r[2] = k /\ ~Right(r)
    BY <2>1
  <2>3. ASSUME NEW q \in Ranges(n), q[2] \in Nat, q[2] < k PROVE Right(q)
    BY <2>1, <2>3
  <2>4. found[r] = Halved(found, index, ts, r)
    BY <1>1 DEF Searches
  <2>5. r[1] \in 0..n /\ r[2] \in 0..n /\ r[1] + r[2] <= n
    BY DEF Ranges
  <2>6. CASE r[2] = 0
    <3>1. found[r] = r[1]
      BY <2>4, <2>6 DEF Halved
    <3> QED
      BY <2>2, <2>5, <2>6, <3>1
  <2>7. CASE r[2] # 0
    <3>1. PICK a, b, h : a = r[1] /\ b = r[2] /\ h = r[2] \div 2
      OBVIOUS
    <3>2. /\ h \in Nat /\ h < b /\ a + h + 1 \in 1..n
          /\ <<a, h>> \in Ranges(n) /\ <<a + h + 1, b - h - 1>> \in Ranges(n)
      BY <1>0, <2>7, <3>1, HalvesAreShorter
    <3>3. a \in Nat /\ b \in Nat /\ b = k /\ b - h - 1 \in Nat /\ b - h - 1 < k
      <4>1. a \in Nat /\ b \in Nat
        BY <1>0, <2>5, <3>1
      <4>2. b = k
        BY <2>2, <3>1
      <4> HIDE DEF T
      <4> QED
        BY <3>2, <4>1, <4>2
    <3>4. CASE index[a + h + 1].ts < ts
      <4>1. found[r] = found[<<a + h + 1, b - h - 1>>]
        BY <2>4, <2>7, <3>1, <3>4 DEF Halved
      <4>2. Right(<<a + h + 1, b - h - 1>>)
        BY <2>3, <3>2, <3>3
      <4>3. PICK v : v = found[r]
        OBVIOUS
      <4>4. v \in (a + h + 1)..((a + h + 1) + (b - h - 1)) /\ (v > a + h + 1 => index[v].ts < ts)
        BY <4>1, <4>2, <4>3
      <4>5. v \in a..a + b /\ index[v].ts < ts
        BY <3>2, <3>3, <3>4, <4>4, SMTT(60)
      <4> QED
        BY <2>2, <3>1, <4>3, <4>5
    <3>5. CASE ~(index[a + h + 1].ts < ts)
      <4>1. found[r] = found[<<a, h>>]
        BY <2>4, <2>7, <3>1, <3>5 DEF Halved
      <4>2. Right(<<a, h>>)
        BY <2>3, <3>2, <3>3
      <4>3. PICK v : v = found[r]
        OBVIOUS
      <4>4. v \in a..a + h /\ (v > a => index[v].ts < ts)
        BY <4>1, <4>2, <4>3
      <4>5. v \in a..a + b
        BY <3>2, <3>3, <4>4
      <4> QED
        BY <2>2, <3>1, <4>3, <4>4, <4>5
    <3> QED
      BY <3>4, <3>5
  <2> QED
    BY <2>6, <2>7
<1>3. <<0, n>> \in Ranges(n)
  BY <1>0 DEF Ranges
<1>4. Right(<<0, n>>)
  BY <1>0, <1>2, <1>3
<1> QED
  BY <1>0, <1>1, <1>4

-----------------------------------------------------------------------------
(* The data directory.                                                     *)

LEMMA DiskTypes ==
  ASSUME NEW d \in Disks, NEW i \in DOMAIN d
  PROVE  /\ DOMAIN d \subseteq Nat
         /\ d[i].frames \in Seq(Frames) /\ d[i].index \in Seq([ts : Nat, at : Nat])
         /\ Len(d[i].frames) \in Nat /\ DOMAIN d[i].frames = 1..Len(d[i].frames)
         /\ \A j \in DOMAIN d[i].frames : d[i].frames[j] \in Frames
         /\ d[i].start \in Nat /\ d[i].end \in Nat
<1>1. d \in Seq(Files) /\ d[i] \in Files
  BY ReplayerConstants
<1>2. /\ d[i].frames \in Seq(Frames) /\ d[i].index \in Seq([ts : Nat, at : Nat])
      /\ d[i].start \in Nat /\ d[i].end \in Nat
  BY <1>1 DEF Files
<1> QED
  BY <1>1, <1>2

(* A seek leaves the stream in the file, at its first frame or at an entry *)
(* that is earlier than the timestamp.                                     *)
LEMMA SeekFinds ==
  ASSUME NEW d \in Disks, NEW i \in DOMAIN d, NEW ts \in Nat
  PROVE  /\ SeekPos(d[i], ts) \in 0..Len(d[i].frames) + 1
         /\ \/ SeekPos(d[i], ts) = 1
            \/ \E k \in DOMAIN d[i].index :
                  SeekPos(d[i], ts) = d[i].index[k].at /\ d[i].index[k].ts < ts
<1>1. PICK index, passed : index = d[i].index /\ passed = LowerBound(d[i].index, ts)
  OBVIOUS
<1>2. index \in Seq([ts : Nat, at : Nat]) /\ Len(d[i].frames) \in Nat
  BY <1>1, DiskTypes
<1>3. passed \in 0..Len(index) /\ (passed # 0 => index[passed].ts < ts)
  BY <1>1, <1>2, LowerBoundPasses
<1>4. CASE passed = 0
  <2>1. SeekPos(d[i], ts) = 1
    BY <1>1, <1>4 DEF SeekPos
  <2> QED
    BY <1>2, <2>1
<1>5. CASE passed # 0
  <2>1. passed \in DOMAIN index /\ SeekPos(d[i], ts) = index[passed].at
    BY <1>1, <1>2, <1>3, <1>5 DEF SeekPos
  <2>2. index[passed].at \in 0..Len(d[i].frames)
    BY <1>1, <2>1, IndexAssumption
  <2> QED
    BY <1>1, <1>2, <1>3, <1>5, <2>1, <2>2, SMTT(60)
<1> QED
  BY <1>4, <1>5

-----------------------------------------------------------------------------
(* Every action is that of one session and leaves the others alone.        *)

Acts(s) ==
    \/ \E r \in Requests : StartCheck(s, r)
    \/ StartStep(s)
    \/ PlayStep(s) \/ PublishFrame(s)
    \/ Pause(s) \/ Resume(s)
    \/ StopErase(s) \/ StopFlag(s) \/ StopJoined(s)
    \/ \E ts \in SeekTimes : Seek(s, ts)

(* What becomes of the frame in hand.                                      *)
FrameHandled(s) ==
    /\ thread[s] = "publish"
    /\ IF PastRange(s)
       THEN End(s, "range") /\ UNCHANGED sent
       ELSE /\ thread' = [thread EXCEPT ![s] = "loop"]
            /\ sent' = IF Matches(request[s].topics, InHandOf(s).kind)
                       THEN [sent EXCEPT ![s] = Append(@, frame[s])]
                       ELSE sent
            /\ UNCHANGED ended
    /\ UNCHANGED <<streamVars, frame>>
    /\ PlayUnchanged

LEMMA FrameTaken ==
  ASSUME NEW s \in Sessions, PassFrame(s) \/ PublishFrame(s)
  PROVE  FrameHandled(s)
<1>1. CASE PassFrame(s)
  BY <1>1 DEF PassFrame, FrameHandled, End
<1>2. CASE PublishFrame(s)
  BY <1>2 DEF PublishFrame, FrameHandled
<1> QED
  BY <1>1, <1>2

Same(s) ==
    /\ call'[s] = call[s] /\ request'[s] = request[s] /\ files'[s] = files[s]
    /\ file'[s] = file[s] /\ pos'[s] = pos[s]
    /\ thread'[s] = thread[s] /\ frame'[s] = frame[s] /\ sent'[s] = sent[s]
    /\ ended'[s] = ended[s] /\ stop'[s] = stop[s] /\ sought'[s] = sought[s]

LEMMA OneActs ==
  ASSUME TypeOK, NEW s \in Sessions, Acts(s)
  PROVE  data' = data /\ \A d \in Sessions \ {s} : Same(d)
<1> SUFFICES ASSUME NEW d \in Sessions PROVE data' = data /\ (d # s => Same(d))
  OBVIOUS
<1> USE DEF TypeOK, Same, startVars, streamVars, playVars
<1>1. ASSUME NEW r \in Requests, StartCheck(s, r) PROVE data' = data /\ (d # s => Same(d))
  BY <1>1 DEF StartCheck
<1>2. CASE StartFails(s)
  BY <1>2 DEF StartFails
<1>3. CASE StartSpawn(s)
  BY <1>3 DEF StartSpawn
<1>4. CASE StartRegister(s)
  BY <1>4 DEF StartRegister
<1>5. CASE Lookup(s)
  BY <1>5 DEF Lookup, End, PlayUnchanged
<1>6. CASE LoopTop(s)
  BY <1>6 DEF LoopTop, End, PlayUnchanged
<1>7. CASE ReadFrame(s)
  BY <1>7 DEF ReadFrame, End, PlayUnchanged
<1>8. CASE NextFile(s)
  BY <1>8 DEF NextFile, End, PlayUnchanged
<1>9. CASE LastFile(s)
  BY <1>9 DEF LastFile, End, PlayUnchanged
<1>10. CASE PassFrame(s) \/ PublishFrame(s)
  BY <1>10 DEF PassFrame, PublishFrame, End, PlayUnchanged
<1>11. CASE Pause(s) \/ Resume(s)
  BY <1>11 DEF Pause, Resume, Control
<1>12. ASSUME NEW ts \in SeekTimes, Seek(s, ts) PROVE data' = data /\ (d # s => Same(d))
  BY <1>12 DEF Seek, Control
<1>13. CASE StopErase(s) \/ StopFlag(s) \/ StopJoined(s)
  BY <1>13 DEF StopErase, StopFlag, StopJoined
<1> QED
  BY <1>1, <1>2, <1>3, <1>4, <1>5, <1>6, <1>7, <1>8, <1>9, <1>10, <1>11, <1>12, <1>13
  DEF Acts, StartStep, PlayStep

-----------------------------------------------------------------------------
(* Every step keeps the types.                                             *)

(* The file and the position of the stream, and the frame in hand.         *)
InFile(s) ==
    /\ files[s] # {} => file[s] \in files[s] /\ pos[s] <= Len(data[file[s]].frames) + 1
    /\ thread[s] = "publish" =>
          frame[s][1] \in DOMAIN data /\ frame[s][2] \in DOMAIN data[frame[s][1]].frames

(* The variables one by one.                                               *)
Typed ==
    /\ call \in [Sessions -> {"new", "checked", "spawned", "started", "rejected"}]
    /\ request \in [Sessions -> Requests \cup {NoRequest}]
    /\ files \in [Sessions -> SUBSET DOMAIN data]
    /\ listed \subseteq {s \in Sessions : call[s] = "started"}
    /\ running \in [Sessions -> BOOLEAN] /\ paused \in [Sessions -> BOOLEAN]
    /\ torn \in [Sessions -> BOOLEAN] /\ sought \in [Sessions -> BOOLEAN]
    /\ file \in [Sessions -> Nat] /\ pos \in [Sessions -> Nat]
    /\ thread \in [Sessions -> {"none", "lookup", "loop", "reading", "publish", "done"}]
    /\ frame \in [Sessions -> Nat \X Nat] /\ sent \in [Sessions -> Seq(Nat \X Nat)]
    /\ ended \in [Sessions -> {"no", "unlisted", "stopped", "end", "range", "damaged", "vanished"}]
    /\ stop \in [Sessions -> {"no", "erased", "joining", "stopped"}]
    /\ controls \in 0..MaxControls

LEMMA TypeParts ==
  /\ TypeOK <=> data \in Disks /\ Typed /\ \A s \in Sessions : InFile(s)
  /\ TypeOK' <=> data' \in Disks /\ Typed' /\ \A s \in Sessions : InFile(s)'
BY DEF TypeOK, Typed, InFile

LEMMA TypeStep ==
  ASSUME TypeOK, NEW s \in Sessions, InStep(s), Acts(s)
  PROVE  TypeOK'
<1> USE ReplayerConstants
<1>0. data \in Disks /\ data' = data /\ Typed /\ InFile(s)
  BY OneActs, TypeParts
<1> SUFFICES Typed' /\ InFile(s)'
  <2>1. ASSUME NEW d \in Sessions \ {s} PROVE InFile(d)'
    <3>1. Same(d) /\ InFile(d) /\ data' = data
      BY OneActs, TypeParts
    <3> QED
      BY ONLY <3>1 DEF InFile, Same
  <2> QED
    BY <1>0, <2>1, TypeParts
<1> USE DEF startVars, streamVars, playVars
<1>1. ASSUME NEW r \in Requests, StartCheck(s, r) PROVE Typed' /\ InFile(s)'
  BY <1>0, <1>1 DEF StartCheck, Typed, InFile
<1>2. CASE StartFails(s)
  BY <1>0, <1>2 DEF StartFails, Typed, InFile
<1>3. CASE StartSpawn(s)
  <2>1. PICK i \in FilesFor(request[s].from, request[s].to) :
           /\ file' = [file EXCEPT ![s] = i]
           /\ pos' = [pos EXCEPT ![s] = SeekPos(data[i], request[s].from)]
    BY <1>3 DEF StartSpawn
  <2>2. i \in DOMAIN data /\ i \in Nat /\ request[s].from \in Nat
    BY <1>0, <1>3, DiskTypes DEF FilesFor, StartSpawn, InStep
  <2>3. PICK p : p = SeekPos(data[i], request[s].from)
    OBVIOUS
  <2>4. p \in 0..Len(data[i].frames) + 1 /\ Len(data[i].frames) \in Nat
    BY <1>0, <2>2, <2>3, SeekFinds, DiskTypes
  <2>5. file' \in [Sessions -> Nat] /\ pos' \in [Sessions -> Nat] /\ file'[s] = i /\ pos'[s] = p
    BY <1>0, <2>1, <2>2, <2>3, <2>4 DEF Typed
  <2>6. PICK F : F = FilesFor(request[s].from, request[s].to)
    OBVIOUS
  <2>7. /\ F \subseteq DOMAIN data
        /\ files' = [files EXCEPT ![s] = F] /\ running' = [running EXCEPT ![s] = TRUE]
        /\ thread' = [thread EXCEPT ![s] = "lookup"] /\ call' = [call EXCEPT ![s] = "spawned"]
        /\ call[s] = "checked"
        /\ UNCHANGED <<request, torn, frame, sent, ended, listed, paused, stop, sought, controls>>
    BY <1>3, <2>6 DEF StartSpawn, FilesFor
  <2>8. files'[s] = F /\ thread'[s] = "lookup" /\ i \in F
    BY <1>0, <2>1, <2>6, <2>7 DEF Typed
  <2>9. Typed'
    BY <1>0, <2>5, <2>7 DEF Typed
  <2>10. InFile(s)'
    BY <1>0, <2>4, <2>5, <2>8 DEF InFile
  <2> QED
    BY <2>9, <2>10
<1>4. CASE StartRegister(s)
  BY <1>0, <1>4, SMTT(60) DEF StartRegister, Typed, InFile
<1>5. CASE Lookup(s)
  BY <1>0, <1>5, ZenonT(60) DEF Lookup, End, PlayUnchanged, Typed, InFile
<1>6. CASE LoopTop(s)
  BY <1>0, <1>6, ZenonT(60) DEF LoopTop, End, PlayUnchanged, Typed, InFile
<1>7. CASE ReadFrame(s)
  <2>1. /\ files[s] # {} /\ file[s] \in files[s] /\ file[s] \in DOMAIN data
        /\ pos[s] \in Nat /\ file[s] \in Nat
    BY <1>0, <1>7 DEF ReadFrame, InStep, InFile, Typed
  <2>2. Len(data[file[s]].frames) \in Nat /\ DOMAIN data[file[s]].frames = 1..Len(data[file[s]].frames)
    BY <1>0, <2>1, DiskTypes
  <2>3. torn' = [torn EXCEPT ![s] = FALSE] /\ UNCHANGED <<file, sent>> /\ PlayUnchanged
    BY <1>7 DEF ReadFrame
  <2>4. CASE End(s, "damaged") /\ UNCHANGED <<pos, frame>>
    BY <1>0, <2>3, <2>4 DEF End, PlayUnchanged, Typed, InFile
  <2>5. CASE /\ pos[s] # 0 /\ pos[s] <= Len(data[file[s]].frames)
             /\ thread' = [thread EXCEPT ![s] = "publish"]
             /\ frame' = [frame EXCEPT ![s] = <<file[s], pos[s]>>]
             /\ pos' = [pos EXCEPT ![s] = pos[s] + 1] /\ UNCHANGED ended
    <3>1. Typed'
      <4>1. frame' \in [Sessions -> Nat \X Nat] /\ pos' \in [Sessions -> Nat]
        BY <1>0, <2>1, <2>5 DEF Typed
      <4>2. thread' \in [Sessions -> {"none", "lookup", "loop", "reading", "publish", "done"}]
            /\ torn' \in [Sessions -> BOOLEAN]
        BY <1>0, <2>3, <2>5 DEF Typed
      <4> QED
        BY <1>0, <2>3, <2>5, <4>1, <4>2 DEF PlayUnchanged, Typed
    <3>2. frame'[s] = <<file[s], pos[s]>> /\ pos'[s] = pos[s] + 1
      BY <1>0, <2>5 DEF Typed
    <3>3. InFile(s)'
      BY <1>0, <2>1, <2>2, <2>3, <2>5, <3>2 DEF PlayUnchanged, InFile
    <3> QED
      BY <3>1, <3>3
  <2> QED
    BY <1>7, <2>4, <2>5 DEF ReadFrame, Current
<1>8. CASE NextFile(s)
  <2>1. PICK i \in Later(s) : file' = [file EXCEPT ![s] = i]
    BY <1>8 DEF NextFile
  <2>2. i \in files[s] /\ i \in DOMAIN data /\ i \in Nat /\ Len(data[i].frames) \in Nat
    BY <1>0, <2>1, DiskTypes DEF Later, Typed
  <2>3. /\ pos' = [pos EXCEPT ![s] = 1] /\ torn' = [torn EXCEPT ![s] = FALSE] /\ PlayUnchanged
        /\ thread[s] = "reading" /\ UNCHANGED <<frame, sent>>
    BY <1>8 DEF NextFile
  <2>4. file'[s] = i /\ pos'[s] = 1
    BY <1>0, <2>1, <2>3 DEF Typed
  <2>5. /\ thread' \in [Sessions -> {"none", "lookup", "loop", "reading", "publish", "done"}]
        /\ ended' \in [Sessions -> {"no", "unlisted", "stopped", "end", "range", "damaged", "vanished"}]
        /\ thread'[s] # "publish"
    BY <1>0, <1>8 DEF NextFile, End, Typed
  <2>6. Typed'
    BY <1>0, <2>1, <2>2, <2>3, <2>5 DEF PlayUnchanged, Typed
  <2>7. InFile(s)'
    BY <1>0, <2>2, <2>3, <2>4, <2>5 DEF PlayUnchanged, InFile
  <2> QED
    BY <2>6, <2>7
<1>9. CASE LastFile(s)
  BY <1>0, <1>9 DEF LastFile, End, PlayUnchanged, Typed, InFile
<1>10. CASE PassFrame(s) \/ PublishFrame(s)
  <2>0. FrameHandled(s)
    BY <1>10, FrameTaken
  <2>1. UNCHANGED <<streamVars, frame>> /\ PlayUnchanged /\ thread[s] = "publish"
    BY <2>0 DEF FrameHandled
  <2>2. /\ thread' \in [Sessions -> {"none", "lookup", "loop", "reading", "publish", "done"}]
        /\ ended' \in [Sessions -> {"no", "unlisted", "stopped", "end", "range", "damaged", "vanished"}]
        /\ thread'[s] # "publish"
    BY <1>0, <2>0, ZenonT(60) DEF FrameHandled, End, Typed
  <2>3. sent' = sent \/ sent' = [sent EXCEPT ![s] = Append(@, frame[s])]
    BY <2>0 DEF FrameHandled
  <2>4. sent' \in [Sessions -> Seq(Nat \X Nat)]
    <3>1. frame[s] \in Nat \X Nat /\ sent[s] \in Seq(Nat \X Nat)
      BY <1>0 DEF Typed
    <3>2. PICK q : q = Append(sent[s], frame[s])
      OBVIOUS
    <3>3. q \in Seq(Nat \X Nat)
      BY <3>1, <3>2
    <3> QED
      BY <1>0, <2>3, <3>2, <3>3, ZenonT(60) DEF Typed
  <2>5. Typed'
    BY <1>0, <2>1, <2>2, <2>4 DEF PlayUnchanged, Typed
  <2> QED
    BY <1>0, <2>1, <2>2, <2>5 DEF PlayUnchanged, InFile
<1>11. CASE Pause(s) \/ Resume(s)
  <2>1. PICK b \in BOOLEAN : paused' = [paused EXCEPT ![s] = b]
    BY <1>11 DEF Pause, Resume
  <2>2. controls' \in 0..MaxControls
    BY <1>0, <1>11 DEF Pause, Resume, Control, Typed
  <2>3. UNCHANGED <<startVars, streamVars, playVars, listed, running, stop, sought>>
    BY <1>11 DEF Pause, Resume, Control
  <2> QED
    BY <1>0, <2>1, <2>2, <2>3 DEF Typed, InFile
<1>12. ASSUME NEW ts \in SeekTimes, Seek(s, ts) PROVE Typed' /\ InFile(s)'
  <2>1. s \in listed /\ call[s] = "started" /\ files[s] # {} /\ file[s] \in DOMAIN data
        /\ Len(data[file[s]].frames) \in Nat
    BY <1>0, <1>12, DiskTypes DEF Seek, Control, Typed, InFile, InStep, Started
  <2>2. PICK p : pos' = [pos EXCEPT ![s] = p] /\ p \in 0..Len(data[file[s]].frames) + 1
    <3>1. CASE pos' = [pos EXCEPT ![s] = SeekPos(Current(s), ts)]
      <4>1. SeekPos(data[file[s]], ts) \in 0..Len(data[file[s]].frames) + 1
        BY <1>0, <2>1, SeekFinds
      <4> QED
        BY <3>1, <4>1 DEF Current
    <3>2. CASE \E p \in 0..Len(Current(s).frames) + 1 : pos' = [pos EXCEPT ![s] = p]
      BY <3>2 DEF Current
    <3> QED
      BY <1>12, <3>1, <3>2 DEF Seek
  <2>3. pos' \in [Sessions -> Nat] /\ pos'[s] = p
    BY <1>0, <2>1, <2>2 DEF Typed
  <2>4. torn' \in [Sessions -> BOOLEAN] /\ sought' \in [Sessions -> BOOLEAN] /\ controls' \in 0..MaxControls
    <3>1. PICK b \in BOOLEAN : torn' = [torn EXCEPT ![s] = b]
      BY <1>12 DEF Seek
    <3>2. sought' = [sought EXCEPT ![s] = TRUE] /\ controls' = controls + 1 /\ controls < MaxControls
      BY <1>12 DEF Seek, Control
    <3> QED
      BY <1>0, <3>1, <3>2 DEF Typed
  <2>5. UNCHANGED <<startVars, playVars, listed, running, stop, file, paused>>
    BY <1>12 DEF Seek, Control
  <2>6. Typed'
    BY <1>0, <2>3, <2>4, <2>5 DEF Typed
  <2>7. InFile(s)'
    BY <1>0, <2>1, <2>2, <2>3, <2>5 DEF InFile
  <2> QED
    BY <2>6, <2>7
<1>13. CASE StopErase(s) \/ StopFlag(s) \/ StopJoined(s)
  BY <1>0, <1>13 DEF StopErase, StopFlag, StopJoined, Typed, InFile
<1> QED
  BY <1>1, <1>2, <1>3, <1>4, <1>5, <1>6, <1>7, <1>8, <1>9, <1>10, <1>11, <1>12, <1>13
  DEF Acts, StartStep, PlayStep

-----------------------------------------------------------------------------
(* Every step keeps start_session, playback and stop_session in step.      *)
LEMMA InStepStep ==
  ASSUME TypeOK, NEW s \in Sessions, InStep(s), Acts(s)
  PROVE  InStep(s)'
<1>0. data' = data /\ Typed
  BY OneActs, TypeParts
<1>00. \A r : FilesFor(r.from, r.to)' = FilesFor(r.from, r.to)
  BY <1>0 DEF FilesFor
<1> USE DEF startVars, streamVars, playVars, InStep, Started
<1>1. ASSUME NEW r \in Requests, StartCheck(s, r) PROVE InStep(s)'
  <2>1. /\ call'[s] \in {"checked", "rejected"} /\ request'[s] = r /\ call[s] = "new"
        /\ UNCHANGED <<files, thread, sent, ended, stop>>
    BY <1>0, <1>1 DEF StartCheck, Typed
  <2> QED
    BY <2>1
<1>2. CASE StartFails(s)
  <2>1. /\ call'[s] = "rejected" /\ call[s] = "checked"
        /\ UNCHANGED <<request, files, thread, sent, ended, stop>>
    BY <1>0, <1>2 DEF StartFails, Typed
  <2> QED
    BY <2>1
<1>3. CASE StartSpawn(s)
  <2>1. /\ call'[s] = "spawned" /\ call[s] = "checked" /\ thread'[s] = "lookup"
        /\ files'[s] = FilesFor(request[s].from, request[s].to) /\ files'[s] # {}
        /\ UNCHANGED <<request, sent, ended, stop>>
    BY <1>0, <1>3 DEF StartSpawn, Typed
  <2> QED
    BY <1>00, <2>1
<1>4. CASE StartRegister(s)
  <2>1. /\ call'[s] = "started" /\ call[s] = "spawned"
        /\ UNCHANGED <<request, files, thread, sent, ended, stop>>
    BY <1>0, <1>4 DEF StartRegister, Typed
  <2> QED
    BY <1>00, <2>1
<1>5. CASE PlayStep(s) \/ PublishFrame(s)
  <2>1. UNCHANGED <<call, request, files, stop>>
    BY <1>5 DEF PlayStep, Lookup, LoopTop, ReadFrame, NextFile, LastFile, PassFrame, PublishFrame,
                PlayUnchanged
  <2>2. thread[s] \notin {"none", "done"}
    BY <1>5 DEF PlayStep, Lookup, LoopTop, ReadFrame, NextFile, LastFile, PassFrame, PublishFrame
  <2>3. /\ thread'[s] # "none"
        /\ thread'[s] = "done" \/ ended'[s] = ended[s]
    <3>1. CASE Lookup(s)
      BY <1>0, <3>1 DEF Lookup, End, Typed
    <3>2. CASE LoopTop(s)
      BY <1>0, <3>2 DEF LoopTop, End, Typed
    <3>3. CASE ReadFrame(s)
      BY <1>0, <3>3 DEF ReadFrame, End, Typed
    <3>4. CASE NextFile(s)
      BY <1>0, <3>4 DEF NextFile, End, Typed
    <3>5. CASE LastFile(s)
      BY <1>0, <3>5 DEF LastFile, End, Typed
    <3>6. CASE PassFrame(s) \/ PublishFrame(s)
      BY <1>0, <3>6 DEF PassFrame, PublishFrame, End, Typed
    <3> QED
      BY <1>5, <3>1, <3>2, <3>3, <3>4, <3>5, <3>6 DEF PlayStep
  <2> QED
    BY <1>00, <2>1, <2>2, <2>3
<1>6. CASE Pause(s) \/ Resume(s) \/ \E ts \in SeekTimes : Seek(s, ts)
  <2>1. UNCHANGED <<call, request, files, thread, sent, ended, stop>>
    BY <1>6 DEF Pause, Resume, Seek, Control
  <2> QED
    BY <1>00, <2>1
<1>7. CASE StopErase(s)
  <2>1. /\ call[s] = "started" /\ stop'[s] = "erased"
        /\ UNCHANGED <<call, request, files, thread, sent, ended>>
    BY <1>0, <1>7 DEF StopErase, Typed
  <2> QED
    BY <1>00, <2>1
<1>9. CASE StopFlag(s)
  <2>1. /\ stop[s] = "erased" /\ stop'[s] = "joining"
        /\ UNCHANGED <<call, request, files, thread, sent, ended>>
    BY <1>0, <1>9 DEF StopFlag, Typed
  <2> QED
    BY <1>00, <2>1
<1>8. CASE StopJoined(s)
  <2>1. /\ stop[s] = "joining" /\ stop'[s] = "stopped" /\ thread[s] = "done"
        /\ UNCHANGED <<call, request, files, thread, sent, ended>>
    BY <1>0, <1>8 DEF StopJoined, Typed
  <2> QED
    BY <1>00, <2>1
<1> QED
  BY <1>1, <1>2, <1>3, <1>4, <1>5, <1>6, <1>7, <1>8, <1>9 DEF Acts, StartStep

-----------------------------------------------------------------------------
(* What was asked for depends on the data directory only, which stays.     *)
LEMMA DataStays ==
  ASSUME data' = data
  PROVE  /\ \A p : FrameAt(p)' = FrameAt(p)
         /\ InOrder' <=> InOrder
         /\ \A r : (Covered(r)' <=> Covered(r)) /\ Wanted(r)' = Wanted(r)
<1>1. \A p : FrameAt(p)' = FrameAt(p)
  BY DEF FrameAt
<1>2. Recorded' = Recorded
  BY DEF Recorded, FrameAt
<1>3. \A r : InRange(r)' = InRange(r)
  BY <1>1, <1>2 DEF InRange
<1>4. \A r : Wanted(r)' = Wanted(r)
  BY <1>1, <1>3 DEF Wanted
<1>5. InOrder' <=> InOrder
  BY <1>1, <1>2 DEF InOrder
<1>6. \A r : Covered(r)' <=> Covered(r)
  BY <1>3 DEF Covered
<1> QED
  BY <1>1, <1>4, <1>5, <1>6

(* A step that neither publishes nor moves.                                *)
Quiet(s) ==
    /\ data' = data /\ sent'[s] = sent[s] /\ request'[s] = request[s] /\ sought'[s] = sought[s]
    /\ file'[s] = file[s] /\ pos'[s] = pos[s]
    /\ \/ thread[s] # "publish" /\ thread'[s] # "publish"
       \/ thread'[s] = thread[s] /\ frame'[s] = frame[s]
    /\ Started(s)' => Started(s)
    /\ ended'[s] = ended[s] \/ ended'[s] \notin {"end", "range"}

LEMMA QuietKeeps ==
  ASSUME NEW s \in Sessions, Quiet(s), InHand(s), Ordered(s), Complete(s), Finished(s)
  PROVE  InHand(s)' /\ Ordered(s)' /\ Complete(s)' /\ Finished(s)'
<1>0. data' = data
  BY DEF Quiet
<1>1. InHand(s)'
  BY <1>0, DataStays DEF InHand, Quiet
<1>2. Cursor(s)' = Cursor(s)
  BY DEF Cursor, Quiet
<1>3. Ordered(s)'
  BY <1>2 DEF Ordered, Quiet
<1>4. Sound(s)' <=> Sound(s)
  BY <1>0, DataStays DEF Sound, Quiet
<1>5. AtDamage(s) => AtDamage(s)'
  BY DEF AtDamage, Current, Quiet
<1>6. Wanted(request[s])' = Wanted(request[s])
  BY <1>0, DataStays DEF Quiet
<1>7. Complete(s)'
  BY <1>2, <1>4, <1>5, <1>6 DEF Complete, Quiet
<1>8. Finished(s)'
  BY <1>4, <1>6 DEF Finished, Quiet
<1> QED
  BY <1>1, <1>3, <1>7, <1>8

-----------------------------------------------------------------------------
(* The frames of the data directory, and those that are asked for.         *)
LEMMA WantedFrames ==
  ASSUME TypeOK, NEW r \in Requests, NEW p \in Wanted(r)
  PROVE  /\ p \in Recorded /\ p = <<p[1], p[2]>>
         /\ p[1] \in DOMAIN data /\ p[1] \in Nat
         /\ p[2] \in DOMAIN data[p[1]].frames /\ p[2] \in 1..Len(data[p[1]].frames)
         /\ FrameAt(p).ts \in Nat /\ r.from \in Nat /\ r.to \in Nat
         /\ FrameAt(p).ts >= r.from /\ FrameAt(p).ts <= r.to
         /\ \E t \in r.topics : FrameAt(p).kind \in t.kinds
         /\ Covered(r) => p[1] \in FilesFor(r.from, r.to)
<1>1. data \in Disks
  BY DEF TypeOK
<1>2. p \in InRange(r) /\ \E t \in r.topics : FrameAt(p).kind \in t.kinds
  BY DEF Wanted
<1>3. p \in Recorded /\ FrameAt(p).ts \in r.from..r.to
  BY <1>2 DEF InRange
<1>4. PICK i \in DOMAIN data : p \in {i} \X DOMAIN data[i].frames
  BY <1>3 DEF Recorded
<1>5. p = <<p[1], p[2]>> /\ p[1] = i /\ p[2] \in DOMAIN data[i].frames
  BY <1>4
<1>6. i \in Nat /\ DOMAIN data[i].frames = 1..Len(data[i].frames) /\ data[i].frames[p[2]] \in Frames
  BY <1>1, <1>5, DiskTypes
<1>7. FrameAt(p).ts \in Nat
  BY <1>5, <1>6 DEF FrameAt, Frames
<1>8. r.from \in Nat /\ r.to \in Nat
  BY ReplayerConstants
<1>9. Covered(r) => p[1] \in FilesFor(r.from, r.to)
  BY <1>2, <1>5 DEF Covered, FilesFor
<1> QED
  BY <1>2, <1>3, <1>5, <1>6, <1>7, <1>8, <1>9

(* Where start_session leaves the stream, nothing was passed over: the     *)
(* frames before it are earlier than the range, or in files that have      *)
(* nothing of it.                                                          *)
LEMMA StartPassesNothing ==
  ASSUME TypeOK, NEW r \in Requests, InOrder, Covered(r),
         NEW i, FirstOf(i, FilesFor(r.from, r.to)),
         NEW p \in Wanted(r), Before(p, <<i, SeekPos(data[i], r.from)>>)
  PROVE  /\ SeekPos(data[i], r.from) \in DOMAIN data[i].frames
         /\ ~data[i].frames[SeekPos(data[i], r.from)].good
<1>1. data \in Disks /\ i \in DOMAIN data
  BY DEF TypeOK, FirstOf, FilesFor
<1>2. PICK at : at = SeekPos(data[i], r.from)
  OBVIOUS
<1>3. /\ p \in Recorded /\ p[1] \in FilesFor(r.from, r.to) /\ p[1] \in Nat /\ p[2] \in Nat
      /\ p[2] >= 1 /\ FrameAt(p).ts \in Nat /\ FrameAt(p).ts >= r.from /\ r.from \in Nat
  BY WantedFrames
<1>4. i \in Nat /\ i <= p[1]
  BY <1>1, <1>3, DiskTypes DEF FirstOf
<1>5. p[1] = i /\ p[2] < at
  BY <1>2, <1>3, <1>4 DEF Before
<1>6. /\ at \in 0..Len(data[i].frames) + 1 /\ Len(data[i].frames) \in Nat
      /\ at = 1 \/ \E k \in DOMAIN data[i].index : at = data[i].index[k].at /\ data[i].index[k].ts < r.from
  BY <1>1, <1>2, <1>3, SeekFinds, DiskTypes
<1>7. at # 1 /\ at # 0
  BY <1>3, <1>5, <1>6
<1>8. PICK k \in DOMAIN data[i].index : at = data[i].index[k].at /\ data[i].index[k].ts < r.from
  BY <1>6, <1>7
<1>9. /\ at \in 0..Len(data[i].frames)
      /\ data[i].frames[at].good => data[i].frames[at].ts = data[i].index[k].ts
  BY <1>1, <1>7, <1>8, IndexAssumption
<1>10. at \in DOMAIN data[i].frames
  BY <1>1, <1>6, <1>7, <1>9, DiskTypes, SMTT(60)
<1>11. ASSUME data[i].frames[at].good PROVE FALSE
  <2>1. <<i, at>> \in Recorded /\ FrameAt(<<i, at>>) = data[i].frames[at]
    BY <1>1, <1>10, <1>11 DEF Recorded, FrameAt
  <2>2. Before(p, <<i, at>>)
    BY <1>5 DEF Before
  <2>3. FrameAt(p).ts <= data[i].frames[at].ts
    BY <1>3, <2>1, <2>2 DEF InOrder
  <2>4. data[i].frames[at].ts \in Nat
    BY <1>1, <1>10, DiskTypes DEF Frames
  <2> QED
    BY <1>3, <1>8, <1>9, <1>11, <2>3, <2>4
<1> QED
  BY <1>2, <1>10, <1>11

-----------------------------------------------------------------------------
(* The steps that move the stream or publish.                              *)

LEMMA StartCheckKeeps ==
  ASSUME TypeOK, NEW s \in Sessions, InStep(s), NEW r \in Requests, StartCheck(s, r)
  PROVE  InHand(s)' /\ Ordered(s)' /\ Complete(s)' /\ Finished(s)'
<1>1. /\ call'[s] \in {"checked", "rejected"} /\ ~Started(s)
      /\ UNCHANGED <<file, pos, thread, frame, sent, ended, sought>>
  BY DEF StartCheck, TypeOK, Started, streamVars, playVars
<1>2. thread[s] = "none" /\ sent[s] = <<>> /\ ended[s] = "no"
  BY <1>1 DEF InStep
<1>3. InHand(s)' /\ Finished(s)' /\ Complete(s)'
  BY <1>1, <1>2 DEF InHand, Finished, Complete, Started
<1>4. Ordered(s)'
  BY <1>1, <1>2 DEF Ordered
<1> QED
  BY <1>3, <1>4

LEMMA StartSpawnKeeps ==
  ASSUME TypeOK, NEW s \in Sessions, InStep(s), StartSpawn(s)
  PROVE  InHand(s)' /\ Ordered(s)' /\ Complete(s)' /\ Finished(s)'
<1>0. data' = data
  BY DEF StartSpawn
<1>1. /\ call[s] = "checked" /\ thread'[s] = "lookup"
      /\ UNCHANGED <<request, frame, sent, ended, sought>>
  BY DEF StartSpawn, TypeOK
<1>2. request[s] \in Requests /\ sent[s] = <<>> /\ ended[s] = "no"
  BY <1>1 DEF InStep, Started
<1>3. PICK i : /\ FirstOf(i, FilesFor(request[s].from, request[s].to))
               /\ file'[s] = i /\ pos'[s] = SeekPos(data[i], request[s].from)
  BY DEF StartSpawn, TypeOK
<1>4. InHand(s)' /\ Finished(s)'
  BY <1>1, <1>2 DEF InHand, Finished
<1>5. Ordered(s)'
  BY <1>1, <1>2 DEF Ordered
<1>6. Complete(s)'
  <2> SUFFICES ASSUME Sound(s)', NEW p \in Wanted(request[s])', Before(p, Cursor(s)')
               PROVE  AtDamage(s)'
    BY DEF Complete, Before
  <2>1. InOrder /\ Covered(request[s]) /\ p \in Wanted(request[s])
    BY <1>0, <1>1, DataStays DEF Sound
  <2>2. Before(p, <<i, SeekPos(data[i], request[s].from)>>)
    BY <1>1, <1>3 DEF Cursor
  <2>3. /\ SeekPos(data[i], request[s].from) \in DOMAIN data[i].frames
        /\ ~data[i].frames[SeekPos(data[i], request[s].from)].good
    BY <1>2, <1>3, <2>1, <2>2, StartPassesNothing
  <2> QED
    BY <1>0, <1>1, <1>3, <2>3 DEF AtDamage, Current
<1> QED
  BY <1>4, <1>5, <1>6

(* Reading a frame takes it from the stream into the hand.                 *)
LEMMA ReadFrameKeeps ==
  ASSUME TypeOK, NEW s \in Sessions, InStep(s), InHand(s), Ordered(s), Complete(s), Finished(s),
         ReadFrame(s)
  PROVE  InHand(s)' /\ Ordered(s)' /\ Complete(s)' /\ Finished(s)'
<1>0. /\ data' = data /\ thread[s] = "reading" /\ ended[s] = "no" /\ Started(s)
      /\ UNCHANGED <<call, request, file, sent, sought>>
  BY DEF ReadFrame, PlayUnchanged, startVars, InStep
<1>1. CASE End(s, "damaged") /\ UNCHANGED <<pos, frame>>
  <2>1. Quiet(s)
    BY <1>0, <1>1 DEF Quiet, End, TypeOK, Started
  <2> QED
    BY <2>1, QuietKeeps
<1>2. CASE /\ Current(s).frames[pos[s]].good
           /\ thread' = [thread EXCEPT ![s] = "publish"]
           /\ frame' = [frame EXCEPT ![s] = <<file[s], pos[s]>>]
           /\ pos' = [pos EXCEPT ![s] = pos[s] + 1] /\ UNCHANGED ended
  <2>1. /\ thread'[s] = "publish" /\ frame'[s] = <<file[s], pos[s]>> /\ pos'[s] = pos[s] + 1
        /\ pos[s] \in Nat
    BY <1>2 DEF TypeOK
  <2>2. Cursor(s)' = Cursor(s) /\ Cursor(s) = <<file[s], pos[s]>>
    BY <1>0, <2>1 DEF Cursor
  <2>3. InHand(s)'
    BY <1>0, <1>2, <2>1 DEF InHand, FrameAt, Current
  <2>4. Ordered(s)'
    BY <1>0, <2>2 DEF Ordered
  <2>5. Finished(s)'
    BY <1>0, <1>2 DEF Finished
  <2>6. Complete(s)'
    <3> SUFFICES ASSUME ~sought[s], Sound(s)', NEW p \in Wanted(request[s])', Before(p, Cursor(s)')
                 PROVE  p \in ToSet(sent[s])
      BY <1>0 DEF Complete, Before
    <3>1. Sound(s) /\ p \in Wanted(request[s]) /\ Before(p, Cursor(s))
      BY <1>0, <2>2, DataStays DEF Sound
    <3>2. ~AtDamage(s)
      BY <1>2 DEF AtDamage
    <3> QED
      BY <1>0, <3>1, <3>2 DEF Complete
  <2> QED
    BY <2>3, <2>4, <2>5, <2>6
<1> QED
  BY <1>1, <1>2 DEF ReadFrame

(* Nothing that is asked for lies between the end of a file and the next.  *)
LEMMA NextFileKeeps ==
  ASSUME TypeOK, NEW s \in Sessions, InStep(s), InHand(s), Ordered(s), Complete(s), Finished(s),
         NextFile(s)
  PROVE  InHand(s)' /\ Ordered(s)' /\ Complete(s)' /\ Finished(s)'
<1>0. /\ data' = data /\ thread[s] = "reading" /\ ended[s] = "no" /\ Started(s)
      /\ pos[s] > Len(Current(s).frames)
      /\ UNCHANGED <<call, request, frame, sent, sought>>
  BY DEF NextFile, PlayUnchanged, startVars, playVars, InStep
<1>1. PICK i : FirstOf(i, Later(s)) /\ file'[s] = i /\ pos'[s] = 1
  BY DEF NextFile, TypeOK
<1>2. thread'[s] # "publish" /\ ended'[s] \notin {"end", "range"}
  BY <1>0 DEF NextFile, End, playVars, TypeOK
<1>3. /\ i \in files[s] /\ i > file[s] /\ file[s] \in Nat /\ i \in Nat /\ pos[s] \in Nat
      /\ file[s] \in files[s] /\ file[s] \in DOMAIN data /\ data \in Disks
      /\ files[s] = FilesFor(request[s].from, request[s].to) /\ request[s] \in Requests
  <2>1. data \in Disks /\ files[s] \subseteq DOMAIN data /\ i \in files[s] /\ i > file[s]
    BY <1>1 DEF TypeOK, FirstOf, Later
  <2>2. i \in Nat
    BY <2>1, DiskTypes
  <2> QED
    BY <1>0, <2>1, <2>2 DEF TypeOK, InStep, Started
<1>4. Cursor(s) = <<file[s], pos[s]>> /\ Cursor(s)' = <<i, 1>>
  BY <1>0, <1>1, <1>2 DEF Cursor
<1>5. InHand(s)' /\ Finished(s)'
  BY <1>2 DEF InHand, Finished
<1>6. Ordered(s)'
  <2>1. ASSUME NEW q \in Nat \X Nat, Before(q, <<file[s], pos[s]>>) PROVE Before(q, <<i, 1>>)
    BY <1>3, <2>1 DEF Before
  <2>2. \A k \in DOMAIN sent[s] : sent[s][k] \in Nat \X Nat
    BY DEF TypeOK
  <2> QED
    BY <1>0, <1>4, <2>1, <2>2 DEF Ordered
<1>7. Complete(s)'
  <2> SUFFICES ASSUME ~sought[s], Sound(s)', NEW p \in Wanted(request[s])', Before(p, Cursor(s)')
               PROVE  p \in ToSet(sent[s])
    BY <1>0 DEF Complete, Before
  <2>1. Sound(s) /\ p \in Wanted(request[s]) /\ Before(p, <<i, 1>>)
    BY <1>0, <1>4, DataStays DEF Sound
  <2>2. p[1] \in Nat /\ p[2] \in 1..Len(data[p[1]].frames) /\ p[1] \in files[s]
    BY <1>3, <2>1, WantedFrames DEF Sound
  <2>3. p[1] < i
    BY <1>3, <2>1, <2>2 DEF Before
  <2>4. p[1] <= file[s]
    BY <1>1, <1>3, <2>2, <2>3 DEF FirstOf, Later
  <2>5. Len(data[file[s]].frames) \in Nat
    BY <1>3, DiskTypes
  <2>6. Before(p, Cursor(s))
    BY <1>0, <1>3, <1>4, <2>2, <2>4, <2>5 DEF Before, Current
  <2>7. ~AtDamage(s)
    BY <1>0, <1>3, <2>5, DiskTypes DEF AtDamage, Current
  <2> QED
    BY <1>0, <2>1, <2>6, <2>7 DEF Complete
<1> QED
  BY <1>5, <1>6, <1>7

(* At the end of the last file nothing that is asked for is left.          *)
LEMMA LastFileKeeps ==
  ASSUME TypeOK, NEW s \in Sessions, InStep(s), InHand(s), Ordered(s), Complete(s), Finished(s),
         LastFile(s)
  PROVE  InHand(s)' /\ Ordered(s)' /\ Complete(s)' /\ Finished(s)'
<1>0. /\ data' = data /\ thread[s] = "reading" /\ thread'[s] = "done" /\ Started(s)
      /\ pos[s] > Len(Current(s).frames) /\ Later(s) = {}
      /\ UNCHANGED <<call, request, file, pos, frame, sent, sought>>
  BY DEF LastFile, End, PlayUnchanged, startVars, streamVars, InStep, TypeOK
<1>1. Cursor(s) = <<file[s], pos[s]>> /\ Cursor(s)' = Cursor(s)
  BY <1>0 DEF Cursor
<1>2. InHand(s)' /\ Ordered(s)'
  BY <1>0, <1>1 DEF InHand, Ordered
<1>3. /\ file[s] \in Nat /\ pos[s] \in Nat /\ file[s] \in DOMAIN data /\ data \in Disks
      /\ files[s] = FilesFor(request[s].from, request[s].to) /\ request[s] \in Requests
  BY <1>0 DEF TypeOK, InStep, Started
<1>4. Len(data[file[s]].frames) \in Nat /\ DOMAIN data[file[s]].frames = 1..Len(data[file[s]].frames)
  BY <1>3, DiskTypes
<1>5. ~AtDamage(s)
  BY <1>0, <1>3, <1>4 DEF AtDamage, Current
<1>6. ASSUME ~sought[s], Sound(s), NEW p \in Wanted(request[s]) PROVE p \in ToSet(sent[s])
  <2>1. p[1] \in Nat /\ p[2] \in 1..Len(data[p[1]].frames) /\ p[1] \in files[s]
    BY <1>3, <1>6, WantedFrames DEF Sound
  <2>2. p[1] <= file[s]
    BY <1>0, <1>3, <2>1 DEF Later
  <2>3. Before(p, Cursor(s))
    BY <1>0, <1>1, <1>3, <1>4, <2>1, <2>2 DEF Before, Current
  <2> QED
    BY <1>0, <1>5, <1>6, <2>3 DEF Complete
<1>7. (Sound(s)' <=> Sound(s)) /\ Wanted(request[s])' = Wanted(request[s])
  BY <1>0, DataStays DEF Sound
<1>8. Finished(s)' /\ Complete(s)'
  BY <1>0, <1>6, <1>7 DEF Finished, Complete
<1> QED
  BY <1>2, <1>8

(* The frame in hand is published if it is asked for; when it is later     *)
(* than the range so is everything behind it.                              *)
LEMMA FrameHandledKeeps ==
  ASSUME TypeOK, NEW s \in Sessions, InStep(s), InHand(s), Ordered(s), Complete(s), Finished(s),
         FrameHandled(s)
  PROVE  InHand(s)' /\ Ordered(s)' /\ Complete(s)' /\ Finished(s)'
<1>0. /\ data' = data /\ thread[s] = "publish" /\ thread'[s] \in {"loop", "done"} /\ Started(s)
      /\ ended[s] = "no" /\ UNCHANGED <<call, request, file, pos, frame, sought>>
  BY DEF FrameHandled, End, PlayUnchanged, startVars, streamVars, InStep, TypeOK
<1>1. PICK f, q : f = frame[s] /\ q = sent[s]
  OBVIOUS
<1>2. /\ f \in Nat \X Nat /\ q \in Seq(Nat \X Nat) /\ file[s] \in Nat /\ pos[s] \in Nat
      /\ request[s] \in Requests /\ data \in Disks
      /\ f[1] \in DOMAIN data /\ f[2] \in DOMAIN data[f[1]].frames /\ FrameAt(f).good
  BY <1>0, <1>1 DEF TypeOK, InStep, Started, InHand
<1>3. Cursor(s) = f /\ Cursor(s)' = <<file[s], pos[s]>>
  BY <1>0, <1>1 DEF Cursor
<1>4. f = <<f[1], f[2]>> /\ f[1] \in Nat /\ f[2] \in Nat
  BY <1>2
<1>5. ~sought[s] => f = <<file[s], pos[s] - 1>> /\ pos[s] = f[2] + 1 /\ file[s] = f[1]
  BY <1>0, <1>1, <1>4 DEF InHand
<1>6. ~sought[s] => Before(f, <<file[s], pos[s]>>)
  BY <1>4, <1>5 DEF Before
<1>7. ASSUME ~sought[s], NEW p \in Nat \X Nat, Before(p, f) PROVE Before(p, <<file[s], pos[s]>>)
  BY <1>4, <1>5, <1>7 DEF Before
<1>8. (Sound(s)' <=> Sound(s)) /\ Wanted(request[s])' = Wanted(request[s])
  BY <1>0, DataStays DEF Sound
<1>9. ASSUME ~sought[s], Sound(s), NEW p \in Wanted(request[s]), Before(p, f)
      PROVE  p \in ToSet(q)
  BY <1>0, <1>1, <1>3, <1>9 DEF Complete, AtDamage
<1>10. InHand(s)'
  BY <1>0 DEF InHand
<1>11. CASE FrameAt(f).ts > request[s].to /\ End(s, "range") /\ UNCHANGED sent
  <2>1. Ordered(s)'
    <3>1. \A k \in DOMAIN q : q[k] \in Nat \X Nat
      BY <1>2
    <3> QED
      BY <1>0, <1>1, <1>3, <1>7, <1>11, <3>1 DEF Ordered
  <2>2. ASSUME ~sought[s], Sound(s), NEW p \in Wanted(request[s]) PROVE p \in ToSet(q)
    <3>1. /\ p \in Recorded /\ p = <<p[1], p[2]>> /\ p[1] \in Nat /\ p[2] \in Nat
          /\ FrameAt(p).ts \in Nat /\ request[s].to \in Nat /\ FrameAt(p).ts <= request[s].to
      BY <1>2, WantedFrames
    <3>2. f \in Recorded
      BY <1>2, <1>4 DEF Recorded
    <3>3. FrameAt(f).ts \in Nat
      BY <1>2, DiskTypes DEF FrameAt, Frames
    <3>4. ~Before(f, p)
      BY <1>11, <2>2, <3>1, <3>2, <3>3 DEF Sound, InOrder
    <3>5. p # f
      BY <1>11, <3>1, <3>3
    <3>6. Before(p, f)
      BY <1>4, <3>1, <3>4, <3>5 DEF Before
    <3> QED
      BY <1>9, <2>2, <3>6
  <2>3. Finished(s)' /\ Complete(s)'
    BY <1>0, <1>1, <1>8, <1>11, <2>2 DEF Finished, Complete
  <2> QED
    BY <1>10, <2>1, <2>3
<1>12. CASE /\ UNCHANGED ended
            /\ sent' = IF Matches(request[s].topics, FrameAt(f).kind)
                       THEN [sent EXCEPT ![s] = Append(@, frame[s])] ELSE sent
  <2>1. Finished(s)'
    BY <1>0, <1>12 DEF Finished
  <2>2. CASE ~Matches(request[s].topics, FrameAt(f).kind)
    <3>1. sent'[s] = q
      BY <1>1, <1>12, <2>2
    <3>2. f \notin Wanted(request[s])
      BY <2>2 DEF Matches, Wanted
    <3>3. Ordered(s)'
      <4>1. \A k \in DOMAIN q : q[k] \in Nat \X Nat
        BY <1>2
      <4> QED
        BY <1>0, <1>1, <1>3, <1>7, <3>1, <4>1 DEF Ordered
    <3>4. Complete(s)'
      <4> SUFFICES ASSUME ~sought[s], Sound(s), NEW p \in Wanted(request[s]),
                          Before(p, <<file[s], pos[s]>>)
                   PROVE  p \in ToSet(q)
        BY <1>0, <1>3, <1>8, <3>1 DEF Complete
      <4>1. p = <<p[1], p[2]>> /\ p[1] \in Nat /\ p[2] \in Nat
        BY <1>2, WantedFrames
      <4>2. p # f
        BY <3>2
      <4>3. Before(p, f)
        BY <1>4, <1>5, <4>1, <4>2 DEF Before
      <4> QED
        BY <1>9, <4>3
    <3> QED
      BY <1>10, <2>1, <3>3, <3>4
  <2>3. CASE Matches(request[s].topics, FrameAt(f).kind)
    <3>1. sent'[s] = Append(q, f)
      BY <1>1, <1>12, <2>3 DEF TypeOK
    <3>2. /\ Len(Append(q, f)) = Len(q) + 1 /\ Len(q) \in Nat /\ DOMAIN q = 1..Len(q)
          /\ DOMAIN Append(q, f) = 1..Len(q) + 1
          /\ \A k \in 1..Len(q) : Append(q, f)[k] = q[k] /\ q[k] \in Nat \X Nat
          /\ Append(q, f)[Len(q) + 1] = f
      BY <1>2
    <3>3. Ordered(s)'
      <4> SUFFICES ASSUME ~sought[s]
                   PROVE  /\ \A k \in 1..Len(q) : Before(Append(q, f)[k], Append(q, f)[k + 1])
                          /\ \A k \in 1..Len(q) + 1 : Before(Append(q, f)[k], <<file[s], pos[s]>>)
        <5>1. Len(Append(q, f)) - 1 = Len(q)
          BY <3>2
        <5> QED
          BY <1>0, <1>3, <3>1, <3>2, <5>1 DEF Ordered
      <4>1. /\ \A k \in 1..Len(q) - 1 : Before(q[k], q[k + 1])
            /\ \A k \in 1..Len(q) : Before(q[k], f)
        BY <1>1, <1>3, <3>2 DEF Ordered
      <4>2. ASSUME NEW k \in 1..Len(q) PROVE Before(Append(q, f)[k], Append(q, f)[k + 1])
        <5>1. CASE k = Len(q)
          BY <3>2, <4>1, <5>1
        <5>2. CASE k # Len(q)
          <6>1. k \in 1..Len(q) - 1 /\ k + 1 \in 1..Len(q)
            <7>1. PICK n : n = Len(q)
              OBVIOUS
            <7>2. n \in Nat /\ k \in 1..n /\ k # n
              BY <3>2, <5>2, <7>1
            <7>3. k \in 1..n - 1 /\ k + 1 \in 1..n
              BY ONLY <7>2
            <7> QED
              BY <7>1, <7>3
          <6> QED
            BY <3>2, <4>1, <6>1
        <5> QED
          BY <5>1, <5>2
      <4>3. ASSUME NEW k \in 1..Len(q) + 1 PROVE Before(Append(q, f)[k], <<file[s], pos[s]>>)
        <5>1. CASE k = Len(q) + 1
          BY <1>6, <3>2, <5>1
        <5>2. CASE k # Len(q) + 1
          <6>1. k \in 1..Len(q)
            BY <3>2, <5>2
          <6>2. q[k] \in Nat \X Nat /\ Before(q[k], f) /\ Append(q, f)[k] = q[k]
            BY <3>2, <4>1, <6>1
          <6> QED
            BY <1>7, <6>2
        <5> QED
          BY <5>1, <5>2
      <4> QED
        BY <4>2, <4>3
    <3>4. Complete(s)'
      <4> SUFFICES ASSUME ~sought[s], Sound(s), NEW p \in Wanted(request[s]),
                          Before(p, <<file[s], pos[s]>>)
                   PROVE  p \in ToSet(Append(q, f))
        BY <1>0, <1>3, <1>8, <3>1 DEF Complete
      <4>1. p = <<p[1], p[2]>> /\ p[1] \in Nat /\ p[2] \in Nat
        BY <1>2, WantedFrames
      <4>2. CASE p = f
        BY <3>2, <4>2 DEF ToSet
      <4>3. CASE p # f
        <5>1. Before(p, f)
          BY <1>4, <1>5, <4>1, <4>3 DEF Before
        <5>2. PICK k \in 1..Len(q) : p = q[k]
          BY <1>9, <3>2, <5>1 DEF ToSet
        <5> QED
          BY <3>2, <5>2, SMTT(60) DEF ToSet
      <4> QED
        BY <4>2, <4>3
    <3> QED
      BY <1>10, <2>1, <3>3, <3>4
  <2> QED
    BY <2>2, <2>3
<1> QED
  BY <1>1, <1>11, <1>12 DEF FrameHandled, PastRange, InHandOf, FrameAt

(* A seek takes the session out of what ReplayFaithful speaks of.          *)
LEMMA SeekKeeps ==
  ASSUME TypeOK, NEW s \in Sessions, InHand(s), NEW ts \in SeekTimes, Seek(s, ts)
  PROVE  InHand(s)' /\ Ordered(s)' /\ Complete(s)' /\ Finished(s)'
<1>1. sought'[s] = TRUE /\ data' = data /\ UNCHANGED <<thread, frame>>
  BY DEF Seek, Control, startVars, playVars, TypeOK
<1> QED
  BY <1>1, DataStays DEF InHand, Ordered, Complete, Finished

LEMMA SessionStep ==
  ASSUME TypeOK, NEW s \in Sessions, InStep(s), InHand(s), Ordered(s), Complete(s), Finished(s),
         Acts(s)
  PROVE  InHand(s)' /\ Ordered(s)' /\ Complete(s)' /\ Finished(s)'
<1>1. CASE StartFails(s) \/ StartRegister(s)
  <2>1. Quiet(s)
    BY <1>1 DEF StartFails, StartRegister, Quiet, Started, streamVars, playVars, TypeOK
  <2> QED
    BY <2>1, QuietKeeps
<1>2. CASE Lookup(s) \/ LoopTop(s)
  <2>1. Quiet(s)
    BY <1>2 DEF Lookup, LoopTop, End, PlayUnchanged, Quiet, Started, startVars, streamVars, TypeOK
  <2> QED
    BY <2>1, QuietKeeps
<1>3. CASE Pause(s) \/ Resume(s) \/ StopErase(s) \/ StopFlag(s) \/ StopJoined(s)
  <2>1. Quiet(s)
    BY <1>3 DEF Pause, Resume, Control, StopErase, StopFlag, StopJoined, Quiet, Started, startVars,
                streamVars, playVars
  <2> QED
    BY <2>1, QuietKeeps
<1> QED
  BY <1>1, <1>2, <1>3, StartCheckKeeps, StartSpawnKeeps, ReadFrameKeeps, NextFileKeeps,
     LastFileKeeps, FrameTaken, FrameHandledKeeps, SeekKeeps
  DEF Acts, StartStep, PlayStep

-----------------------------------------------------------------------------
LEMMA InitHolds == Init => IInv
<1> SUFFICES ASSUME Init PROVE IInv
  OBVIOUS
<1>1. TypeOK
  BY ReplayerConstants DEF Init, TypeOK
<1>2. ASSUME NEW s \in Sessions
      PROVE  InStep(s) /\ InHand(s) /\ Ordered(s) /\ Complete(s) /\ Finished(s)
  BY DEF Init, InStep, InHand, Ordered, Complete, Finished, Started
<1> QED
  BY <1>1, <1>2 DEF IInv

LEMMA Inductive == IInv /\ [Next]_vars => IInv'
<1> SUFFICES ASSUME IInv, [Next]_vars PROVE IInv'
  OBVIOUS
<1>0. TypeOK
  BY DEF IInv
<1>1. CASE UNCHANGED vars
  <2>1. TypeOK' /\ data' = data
    BY <1>0, <1>1 DEF vars, startVars, streamVars, playVars, TypeOK
  <2>2. ASSUME NEW d \in Sessions
        PROVE  (InStep(d) /\ InHand(d) /\ Ordered(d) /\ Complete(d) /\ Finished(d))'
    <3>1. Same(d) /\ Quiet(d)
      BY <1>1 DEF vars, startVars, streamVars, playVars, Same, Quiet, Started
    <3>2. InStep(d)'
      BY <2>1, <3>1 DEF IInv, InStep, Same, Started, FilesFor
    <3> QED
      BY <3>1, <3>2, QuietKeeps DEF IInv
  <2> QED
    BY <2>1, <2>2 DEF IInv
<1>2. ASSUME NEW s \in Sessions, Acts(s) PROVE IInv'
  <2>1. TypeOK'
    BY <1>0, <1>2, TypeStep DEF IInv
  <2>2. (InStep(s) /\ InHand(s) /\ Ordered(s) /\ Complete(s) /\ Finished(s))'
    BY <1>0, <1>2, InStepStep, SessionStep DEF IInv
  <2>3. ASSUME NEW d \in Sessions \ {s}
        PROVE  (InStep(d) /\ InHand(d) /\ Ordered(d) /\ Complete(d) /\ Finished(d))'
    <3>1. data' = data /\ Same(d)
      BY <1>0, <1>2, OneActs
    <3>2. Quiet(d)
      BY <3>1 DEF Same, Quiet, Started
    <3>3. InStep(d)'
      BY <3>1 DEF IInv, InStep, Same, Started, FilesFor
    <3> QED
      BY <3>2, <3>3, QuietKeeps DEF IInv
  <2> QED
    BY <2>1, <2>2, <2>3 DEF IInv
<1> QED
  BY <1>1, <1>2 DEF Next, Acts

LEMMA Invariance == Spec => []IInv
BY InitHolds, Inductive, PTL DEF Spec

(* Every variable keeps its type: in particular the stream of a session    *)
(* stays inside the files start_session found, whatever seeks overlap with *)
(* reads.                                                                  *)
THEOREM TypeCorrect == Spec => []TypeOK
<1>1. IInv => TypeOK
  BY DEF IInv
<1> QED
  BY <1>1, Invariance, PTL

(* Playback that nobody sought in publishes in recorded order, without     *)
(* repeats, across the files; and everything that was asked for, when it   *)
(* comes to the end of the data or of the range, if timestamps and headers *)
(* are in order.                                                           *)
THEOREM ReplaysFaithfully == Spec => []ReplayFaithful
<1>1. IInv => ReplayFaithful
  BY DEF IInv, ReplayFaithful, Ordered, Finished, Sound
<1> QED
  BY <1>1, Invariance, PTL

(* After stop_session has returned the session publishes nothing.          *)
THEOREM StaysSilent == Spec => StoppedIsSilent
<1>1. ASSUME IInv, [Next]_vars
      PROVE  [\A s \in Sessions : stop[s] = "stopped" => sent'[s] = sent[s]]_vars
  <2> SUFFICES ASSUME Next, NEW d \in Sessions, stop[d] = "stopped" PROVE sent'[d] = sent[d]
    BY <1>1
  <2>1. PICK s \in Sessions : Acts(s)
    BY DEF Next, Acts
  <2>2. thread[d] = "done" /\ TypeOK
    BY <1>1 DEF IInv, InStep
  <2>3. CASE s # d
    BY <2>1, <2>2, <2>3, OneActs DEF Same
  <2>4. CASE s = d
    <3>1. UNCHANGED sent \/ PublishFrame(d)
      BY <2>1, <2>4 DEF Acts, StartStep, PlayStep, StartCheck, StartFails, StartSpawn,
                        StartRegister,
                  Lookup, LoopTop, ReadFrame, NextFile, LastFile, PassFrame, Pause, Resume, Seek,
                  Control, StopErase, StopFlag, StopJoined, playVars
    <3> QED
      BY <2>2, <3>1 DEF PublishFrame
  <2> QED
    BY <2>3, <2>4
<1> QED
  BY <1>1, Invariance, PTL DEF Spec, StoppedIsSilent

=============================================================================

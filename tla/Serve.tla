------------------------------- MODULE Serve -------------------------------
(***************************************************************************)
(* One serve connection of the agent (internal/agent, RunServe) reading    *)
(* the spool through its tailing reader (internal/spool, Reader), beside   *)
(* the writer, its janitor and their crashes (module Spool).               *)
(*                                                                         *)
(* The reader shares no lock with the writer.  refresh reads the directory *)
(* listing, manifest.ndjson and head.json one after the other, and         *)
(* position opens a file before it locks it; the writer and the janitor    *)
(* may run between any two of these.  What the stream carries is a frame   *)
(* at a time: a batch is a first gpidx and packets, so the gpidx of all    *)
(* but the first is implied.                                               *)
(***************************************************************************)
EXTENDS Spool

CONSTANT BatchMaxPackets

ASSUME BatchAssumption == BatchMaxPackets \in Nat \ {0}

VARIABLES
  rpc, cont,          \* where RunServe is; what it does after refresh
  exists, lines,      \* refresh: the files listed, the manifest lines kept
  view,               \* Reader.view
  rOldest, rHead,     \* Reader.oldest, Reader.head
  gpidx,              \* Reader.gpidx, or the position OpenReader is asked for
  file, offset,       \* Reader.fileSeq (-1: no file), Reader.offset in records
  held, reopened,     \* the reader's flock; it is not the one RunServe's defer closes
  stray,              \* flocks of readers that nobody closed
  batch, baseGpidx,   \* RunServe's batch
  frame,              \* the last frame sent
  expect              \* the commit point of a collector that has read them all

refreshVars == <<exists, lines>>
viewVars    == <<view, rOldest, rHead>>
fileVars    == <<file, offset>>
lockVars    == <<flocks, held, reopened, stray>>
streamVars  == <<batch, baseGpidx, frame, expect>>
readerVars  == <<rpc, cont, refreshVars, viewVars, gpidx, fileVars, held, reopened, stray,
                 streamVars>>
spoolVars   == <<contents, meta, synced, named, procVars, counters, advertised>>
allVars     == <<vars, readerVars>>

NoFrame == [type |-> "none"]
Batch(first, pkts, at) == [type |-> "batch", base |-> first, pkts |-> pkts, at |-> at]
Gap(to, at)            == [type |-> "gap", to |-> to, at |-> at]

\* A connection that is not there.
Closed ==
  /\ rpc' = "closed" /\ cont' = "start" /\ exists' = {} /\ lines' = {}
  /\ view' = {} /\ rOldest' = 0 /\ rHead' = 0 /\ gpidx' = 0 /\ file' = -1 /\ offset' = 0
  /\ batch' = <<>> /\ baseGpidx' = 0 /\ frame' = NoFrame /\ expect' = 0
  /\ held' = {} /\ reopened' = FALSE
\* RunServe returns.  Its "defer r.Close()" closes the reader it opened first; the
\* file and the flock of one it opened later stay until a garbage collection.
EndServe ==
  /\ Closed
  /\ stray' = stray \cup {s \in held : reopened}
  /\ flocks' = stray'
\* A garbage collection closes the files of readers that are gone.
Finalize ==
  /\ stray # {} /\ stray' = {}
  /\ flocks' = held
  /\ UNCHANGED <<rpc, cont, refreshVars, viewVars, gpidx, fileVars, held, reopened, streamVars>>

ServeInit ==
  /\ Init
  /\ rpc = "closed" /\ cont = "start" /\ exists = {} /\ lines = {}
  /\ view = {} /\ rOldest = 0 /\ rHead = 0 /\ gpidx = 0 /\ file = -1 /\ offset = 0
  /\ batch = <<>> /\ baseGpidx = 0 /\ frame = NoFrame /\ expect = 0
  /\ held = {} /\ reopened = FALSE /\ stray = {}

-----------------------------------------------------------------------------
(* OpenReader and refresh.                                                 *)

\* A commit point is 0 or follows a packet that was once readable.
Resumable == {0} \cup {x[1] + 1 : x \in advertised}

\* RunServe up to refresh: the source has a segment whose header can be read.
Connect ==
  /\ rpc = "closed"
  /\ \E newest \in onDisk \cap hdr : \A s \in onDisk : s <= newest
  /\ gpidx' \in Resumable /\ expect' = gpidx'
  /\ rpc' = "list" /\ cont' = "start"
  /\ UNCHANGED <<refreshVars, viewVars, fileVars, batch, baseGpidx, frame, lockVars>>

\* The collector goes away, or a write to it fails.
Disconnect == rpc # "closed" /\ EndServe

ListFiles ==
  /\ rpc = "list"
  /\ exists' = onDisk
  /\ rpc' = "manifest"
  /\ UNCHANGED <<cont, lines, viewVars, gpidx, fileVars, streamVars, lockVars>>

ReadManifest ==
  /\ rpc = "manifest"
  /\ lines' = {seg \in loadManifest : seg.seq \in exists}
  /\ rpc' = "head"
  /\ UNCHANGED <<cont, exists, viewVars, gpidx, fileVars, streamVars, lockVars>>

\* The edges of a view: its first start and its last end in order of starts.
OldestAnyOf(v) == IF v = {} THEN {0} ELSE {seg.start : seg \in v}     \* mutant: no sort
OldestOf(v) ==
  IF v = {} THEN {0} ELSE {seg.start : seg \in {s \in v : \A t \in v : s.start <= t.start}}
HeadOf(v) ==
  IF v = {} THEN {0} ELSE {seg.end : seg \in {s \in v : \A t \in v : t.start <= s.start}}

ReadHead ==
  /\ rpc = "head"
  /\ LET active1 == {seg \in {headFile} : seg.ok /\ seg.seq \in exists} IN
     view' = {seg \in lines : \A a \in active1 : a.seq # seg.seq} \cup active1
  /\ rOldest' \in OldestOf(view')
  /\ rHead' \in HeadOf(view')
  /\ exists' = {} /\ lines' = {}
  /\ rpc' = cont
  /\ UNCHANGED <<cont, gpidx, fileVars, streamVars, lockVars>>

Refresh(then) == rpc' = "list" /\ cont' = then

\* OpenReader after its refresh: a position behind retention, or past the head,
\* moves to the oldest packet.  RunServe then sends the GAP: on a first open only
\* if the position was behind retention, on a reopen always.
Clamped ==
  LET from == IF gpidx < rOldest THEN rOldest ELSE gpidx IN
  IF from > rHead THEN rOldest ELSE from

SendGapNever(to) == UNCHANGED <<frame, expect>>          \* mutant: no GAP
SendGap(to) == frame' = Gap(to, expect) /\ expect' = IF to > expect THEN to ELSE expect

OpenReader ==
  /\ rpc \in {"start", "reopen"}
  /\ gpidx' = Clamped
  /\ IF rpc = "reopen" \/ gpidx < rOldest THEN SendGap(Clamped) ELSE UNCHANGED <<frame, expect>>
  /\ rpc' = "next" /\ cont' = "start"
  /\ UNCHANGED <<refreshVars, viewVars, fileVars, batch, baseGpidx, lockVars>>

-----------------------------------------------------------------------------
(* Reader.Next and RunServe's loop around it.                              *)

Owning == {seg \in view : seg.start <= gpidx /\ gpidx < seg.end}

\* sendBatch; a collector skips what it has and commits the rest.
SendBatch(first, pkts) ==
  /\ batch' = <<>> /\ baseGpidx' = 0
  /\ frame' = Batch(first, pkts, expect)
  /\ expect' = IF first + Len(pkts) > expect THEN first + Len(pkts) ELSE expect

FlushNothing == UNCHANGED streamVars                     \* mutant: the batch is kept
FlushBatch == IF batch = <<>> THEN UNCHANGED streamVars ELSE SendBatch(baseGpidx, batch)

\* ErrNoData: flush, and ask again later.
NoData == /\ FlushBatch /\ rpc' = "next" /\ cont' = "start"
          /\ UNCHANGED <<viewVars, gpidx, fileVars, lockVars>>

\* ErrReaped: flush, close the reader, and open another one where this one was.
Reaped == /\ FlushBatch /\ Refresh("reopen")
          /\ file' = -1 /\ offset' = 0
          /\ held' = {} /\ reopened' = TRUE /\ flocks' = stray /\ UNCHANGED stray
          /\ view' = {} /\ rOldest' = 0 /\ rHead' = 0
          /\ UNCHANGED gpidx

\* The segment that owns the position is read, opened first if need be.
Seek ==
  \E seg \in Owning :
    /\ rpc' = IF file = seg.seq THEN "read" ELSE "open"
    /\ UNCHANGED <<cont, viewVars, gpidx, fileVars, streamVars, lockVars>>
AskRefresh(then) == Refresh(then) /\ UNCHANGED <<viewVars, gpidx, fileVars, streamVars, lockVars>>

NextRecord ==
  /\ rpc = "next"
  /\ \/ gpidx < rOldest /\ Reaped
     \/ gpidx >= rOldest /\ gpidx >= rHead /\ AskRefresh("tail")
     \/ gpidx >= rOldest /\ gpidx < rHead /\ Owning = {} /\ AskRefresh("hole")
     \/ gpidx >= rOldest /\ gpidx < rHead /\ Seek
  /\ UNCHANGED refreshVars

\* After the refresh of a reader that had caught up.
NextAtHead ==
  /\ rpc = "tail"
  /\ \/ gpidx < rOldest /\ Reaped
     \/ gpidx >= rOldest /\ gpidx >= rHead /\ NoData
     \/ gpidx >= rOldest /\ gpidx < rHead /\ Owning = {} /\ AskRefresh("hole")
     \/ gpidx >= rOldest /\ gpidx < rHead /\ Seek
  /\ UNCHANGED refreshVars

\* After the refresh that followed a hole in the view.
NextAtHole ==
  /\ rpc = "hole"
  /\ IF Owning = {} THEN NoData
                    ELSE rpc' = "next" /\ UNCHANGED <<cont, viewVars, gpidx, fileVars, streamVars, lockVars>>
  /\ UNCHANGED refreshVars

\* position: open the file, if it is still there ...
OpenFile ==
  /\ rpc = "open"
  /\ \E seg \in Owning :
       \/ /\ seg.seq \notin onDisk /\ EndServe
       \/ /\ seg.seq \in onDisk
          /\ file' = seg.seq
          /\ rpc' = "flock"
          /\ UNCHANGED <<cont, refreshVars, viewVars, gpidx, offset, streamVars, lockVars>>

\* Mutant: the file is read from its first record.
FlockFileUnskipped ==
  /\ rpc = "flock"
  /\ held' = {file} \cap onDisk /\ flocks' = held' \cup stray
  /\ offset' = 0
  /\ rpc' = "read"
  /\ UNCHANGED <<cont, refreshVars, viewVars, gpidx, file, reopened, stray, streamVars>>
\* ... then lock it (nothing is left to lock if the janitor was faster), let go of
\* the previous one, and skip the records before the position.
FlockFile ==
  /\ rpc = "flock"
  /\ held' = {file} \cap onDisk /\ flocks' = held' \cup stray
  /\ \E seg \in Owning : offset' = gpidx - seg.start
  /\ rpc' = "read"
  /\ UNCHANGED <<cont, refreshVars, viewVars, gpidx, file, reopened, stray, streamVars>>

Full(pkts) == Len(pkts) >= BatchMaxPackets

\* readAt, and RunServe adds the record to its batch and sends a full one.
\* (readAt never runs short: see Aligned.)
ReadRecord ==
  /\ rpc = "read"
  /\ LET pkts  == Append(batch, recs[file][offset + 1])
         first == IF batch = <<>> THEN gpidx ELSE baseGpidx IN
     IF Full(pkts)
       THEN SendBatch(first, pkts)
       ELSE batch' = pkts /\ baseGpidx' = first /\ UNCHANGED <<frame, expect>>
  /\ offset' = offset + 1
  /\ gpidx' = gpidx + 1
  /\ rpc' = "next"
  /\ UNCHANGED <<cont, refreshVars, viewVars, file, lockVars>>

-----------------------------------------------------------------------------
ReaderStep == ListFiles \/ ReadManifest \/ ReadHead \/ OpenReader \/ NextRecord \/ NextAtHead
                \/ NextAtHole \/ OpenFile \/ FlockFile \/ ReadRecord
Reader     == (Connect \/ Disconnect \/ Finalize \/ ReaderStep) /\ UNCHANGED spoolVars

\* Writer, janitor and crashes; a power cut takes the serve process with it.
Writer == /\ \/ /\ \/ Recover \/ WritePacket \/ Tick \/ Flush \/ Rotate \/ Close \/ Reap \/ Kill
                /\ UNCHANGED readerVars
             \/ PowerCut /\ Closed /\ stray' = {}
          /\ Advertised

ServeNext == Reader \/ Writer
ServeSpec == ServeInit /\ [][ServeNext]_allVars
\* The reader goes on while it is connected (it polls every 50ms), and the writer
\* comes back and ends what it has begun; the rest may come or not.
WriterGoesOn == (Recover \/ Flush \/ Rotate) /\ UNCHANGED readerVars /\ Advertised
FairServeSpec ==
  /\ ServeSpec
  /\ WF_allVars(ReaderStep /\ UNCHANGED spoolVars)
  /\ WF_allVars(WriterGoesOn)

-----------------------------------------------------------------------------
\* The reader's and RunServe's variables have their types, no batch is kept beyond
\* BatchMaxPackets, and the flocks on the segments are those of the readers.
ServeTypeOK ==
  /\ rpc \in {"closed", "list", "manifest", "head", "start", "reopen", "next", "tail", "hole",
              "open", "flock", "read"}
  /\ cont \in {"start", "reopen", "tail", "hole"}
  /\ exists \subseteq Seqs /\ lines \subseteq Segments /\ view \subseteq Segments
  /\ rOldest \in Nat /\ rHead \in Nat /\ gpidx \in Nat /\ baseGpidx \in Nat /\ expect \in Nat
  /\ file \in Seqs \cup {-1} /\ offset \in Nat
  /\ held \subseteq Seqs /\ stray \subseteq Seqs /\ reopened \in BOOLEAN /\ flocks = held \cup stray
  /\ Len(batch) < BatchMaxPackets
  /\ frame.type \in {"none", "batch", "gap"}

\* A record about to be read is the one of the reader's gpidx and lies inside the
\* durable extent: offset and gpidx, which Next and position advance separately,
\* agree, whatever the writer did to the view in between (Next, position, readAt).
Aligned ==
  rpc = "read" => \E seg \in Owning : file = seg.seq /\ offset = gpidx - seg.start

\* The wire tells the truth: the packet at place i of a batch is the one the
\* writer gave gpidx base + i, though only base is sent (RunServe, sendBatch).
WireTrue ==
  frame.type = "batch" =>
    \A i \in DOMAIN frame.pkts : <<frame.base + i - 1, frame.pkts[i]>> \in advertised

\* "Correct serve always precedes a discontinuity with a GAP" (demux.go, commit):
\* no batch starts beyond what the collector expects next.
NoForwardJump == frame.type = "batch" => frame.base <= frame.at

\* A GAP only covers packets that retention has taken: none of those it makes the
\* collector skip is in a file that is still there (OpenReader, refresh).
GapIsLoss ==
  frame.type = "gap" =>
    \A x \in advertised : frame.at <= x[1] /\ x[1] < frame.to => \A s \in onDisk : base[s] > x[1]

\* A shared flock is one of a reader that is there, on "the segment we are actively
\* replaying" (reader.go, position): when no connection is left nothing keeps the
\* janitor from the oldest segment.
LockedByReader == rpc = "closed" => flocks = {}

\* Every advertised packet is eventually sent, or given up in a GAP, while the
\* connection lasts (RunServe's loop, Next's retries).
StreamCatchesUp == []<>(rpc = "closed" \/ \A x \in advertised : x[1] < expect)
=============================================================================

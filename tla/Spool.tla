------------------------------- MODULE Spool -------------------------------
(***************************************************************************)
(* The durable spool of one capture source (internal/spool): the writer    *)
(* process (NewWriter, WritePacket, Tick, rotate, Close), its janitor      *)
(* (Reap), crash recovery (recoverSpool), and the directory they share     *)
(* with the independent reader.                                            *)
(*                                                                         *)
(* One step is one system call that another process, or a crash, can tell  *)
(* from the next one; w.mu makes the writer's operations exclude one       *)
(* another, so a single program counter drives them all.  A packet is the  *)
(* serial number of its capture, a file is the sequence of packets in it   *)
(* (a file does not know its gpidx: only manifest.ndjson and head.json     *)
(* do), and byte lengths are counted in records.                           *)
(***************************************************************************)
EXTENDS Integers, Sequences, FiniteSets, FiniteSetsExt

CONSTANTS
  MaxPackets,     \* bound: packets captured in a behaviour
  MaxSeq,         \* bound: highest segment sequence number
  MaxOutages,     \* bound: crashes, clean stops and I/O errors in a behaviour
  RotateRecs,     \* Config.RotateBytes, in records
  RetentionRecs,  \* the janitor's byte cap, in records
  Faults          \* the faults that may happen

FaultKinds == {"kill", "power", "torn", "io"}

ASSUME BoundsAssumption ==
  /\ MaxPackets \in Nat /\ MaxSeq \in Nat /\ MaxOutages \in Nat
  /\ RotateRecs \in Nat \ {0} /\ RetentionRecs \in Nat \ {0}
  /\ Faults \subseteq FaultKinds

VARIABLES
  \* the directory, as every process sees it
  onDisk,     \* sequence numbers of the segment files
  recs,       \* recs[s]: whole records in file s (kept, as a ghost, once s is unlinked)
  hdr,        \* files with a whole global header
  torn,       \* files with a partial record after their last whole one
  manifest,   \* lines of manifest.ndjson
  headFile,   \* head.json
  flocks,     \* files on which a reader holds a shared flock
  \* what a power cut keeps
  synced,     \* synced[s]: records of file s that are fdatasync'd
  named,      \* the directory as last fsync'd: the names that are durable
  manSynced,  \* lines of the manifest that are fdatasync'd
  \* the writer process
  pc, caller, goal,
  active,     \* Writer.active: sequence number and first gpidx
  head,       \* Writer.head; the running counter during recovery
  durable,    \* Writer.durableLen, in records of the active file
  nextSeq,    \* Writer.nextSeq; the next file to look at during recovery
  sealed,     \* Writer.sealed
  reseal,     \* recovered.reseal
  oldest,     \* Writer.oldestGpidx
  \* ghosts
  base,       \* base[s]: gpidx of the first packet of file s, when s was created
  advertised, \* every <<gpidx, packet>> a reader could ever have read
  captured,   \* packets captured so far
  outages     \* crashes, stops and I/O errors so far

contents == <<onDisk, recs, hdr, torn, base>>
meta     == <<manifest, manSynced, headFile>>
procVars == <<pc, caller, goal, active, head, durable, nextSeq, sealed, reseal, oldest>>
counters == <<captured, outages>>
vars     == <<contents, meta, synced, named, flocks, procVars, counters, advertised>>

Seqs    == 0..MaxSeq
Packets == 1..MaxPackets

\* A Segment record as JSON; ok is whether the line parses.
Segment(seq, start, end) ==
  [ok |-> TRUE, seq |-> seq, start |-> start, end |-> end]
Segments   == [ok : BOOLEAN, seq : Seqs, start : Nat, end : Nat]
Unparsable == [ok |-> FALSE, seq |-> 0, start |-> 0, end |-> 0]

NoSegment == [seq |-> -1, start |-> 0]   \* recovered.active = nil

-----------------------------------------------------------------------------
(* What is on disk, as loadManifest, refresh and the janitor read it.      *)

\* Mutant: the last line is taken for an unfinished one.
ParsedLinesShort == {i \in DOMAIN manifest : i < Len(manifest) /\ \A j \in 1..i : manifest[j].ok}
\* loadManifest stops at the first unparsable line and keeps the last record
\* of each sequence number.
ParsedLines == {i \in DOMAIN manifest : \A j \in 1..i : manifest[j].ok}
loadManifest ==
  {manifest[i] : i \in {k \in ParsedLines :
     \A j \in ParsedLines : manifest[j].seq = manifest[k].seq => j <= k}}

\* The reader's view: sealed segments plus the active pointer, which overrides
\* a sealed entry, restricted to files that exist.
View ==
  {seg \in loadManifest : seg.seq \in onDisk /\ ~(headFile.ok /\ headFile.seq = seg.seq)}
    \cup {seg \in {headFile} : seg.ok /\ seg.seq \in onDisk}

\* The pairs of gpidx and packet a reader of that view can be given.
Visible ==
  UNION {{<<g, recs[seg.seq][g - seg.start + 1]>> :
            g \in {n \in seg.start..(seg.end - 1) : n - seg.start < Len(recs[seg.seq])}}
         : seg \in View}

\* Mutant: unlinked files stay in the count.
SpoolRecsEver == MapThenSumSet(LAMBDA s : Len(recs[s]), Seqs)
SpoolRecs == MapThenSumSet(LAMBDA s : Len(recs[s]), onDisk)

Pending == head - active.start > durable      \* w.pendingBytes > 0

Init ==
  /\ onDisk = {} /\ hdr = {} /\ torn = {} /\ named = {} /\ flocks = {}
  /\ recs = [s \in Seqs |-> <<>>]
  /\ synced = [s \in Seqs |-> 0]
  /\ base = [s \in Seqs |-> 0]
  /\ manifest = <<>> /\ manSynced = 0 /\ headFile = Unparsable
  /\ pc = "down" /\ caller = "none" /\ goal = "none"
  /\ active = NoSegment /\ head = 0 /\ durable = 0 /\ nextSeq = 0
  /\ sealed = {} /\ reseal = <<>> /\ oldest = 0
  /\ advertised = {} /\ captured = 0 /\ outages = 0

\* The process ends: its memory is gone.
Exit ==
  /\ pc' = "down" /\ caller' = "none" /\ goal' = "none"
  /\ active' = NoSegment /\ head' = 0 /\ durable' = 0 /\ nextSeq' = 0
  /\ sealed' = {} /\ reseal' = <<>> /\ oldest' = 0

\* Mutant: the directory is not synced.
SyncDirSkipped == UNCHANGED named
\* fsync of the directory: files created are there, and files unlinked gone, for good.
SyncDir == named' = onDisk

-----------------------------------------------------------------------------
(* NewWriter: recoverSpool, then manifest, re-seals, active file, head.    *)

\* recoverSpool up to its loop; with no segment file it resumes past the
\* highest gpidx of the manifest.
RecoverBegin ==
  /\ pc = "down"
  /\ caller' = "start"
  /\ IF onDisk = {}
       THEN /\ pc' = "open"
            /\ head' \in {n \in {0} \cup {seg.end : seg \in loadManifest} :
                            \A seg \in loadManifest : seg.end <= n}
            /\ oldest' = head'
            /\ nextSeq' \in {n \in {0} \cup {seg.seq + 1 : seg \in loadManifest} :
                               \A seg \in loadManifest : seg.seq < n}
       ELSE /\ pc' = "scan"
            /\ UNCHANGED <<head, oldest, nextSeq>>
  /\ UNCHANGED <<contents, meta, synced, named, flocks, counters, goal, active,
                 durable, sealed, reseal>>

\* The loop visits files in sequence order; nextSeq is one past the last visited.
ScanNext(s) == s >= nextSeq /\ \A t \in onDisk : t >= nextSeq => s <= t
ScanFirstNever == FALSE                                \* mutant: haveRunning from the start
ScanFirst   == \A t \in onDisk : t >= nextSeq          \* !haveRunning
ScanLast(s) == \A t \in onDisk : t <= s                \* isLast

\* A sealed segment takes its range from the manifest.
RecoverSealed ==
  \E seg \in loadManifest :
    /\ pc = "scan" /\ seg.seq \in onDisk /\ ScanNext(seg.seq)
    /\ ScanFirst \/ seg.start = head
    /\ head' = seg.end
    /\ oldest' = IF ScanFirst THEN seg.start ELSE oldest
    /\ sealed' = sealed \cup {seg}
    /\ nextSeq' = seg.seq + 1
    /\ pc' = IF ScanLast(seg.seq) THEN "open" ELSE "scan"
    /\ UNCHANGED <<contents, meta, synced, named, flocks, counters, caller, goal, active,
                   durable, reseal>>

\* An unsealed file takes its range from the running counter; the last one
\* becomes the active file, an earlier one is to be sealed again.
RunningStartZero == 0                                  \* mutant: the counter is not carried over
RunningStart == IF ScanFirst THEN 0 ELSE head
Scanned(s)   == Segment(s, RunningStart, RunningStart + Len(recs[s]))

RecoverUnsealed(s) ==
  /\ pc = "scan" /\ ScanNext(s)
  /\ \A seg \in loadManifest : seg.seq # s
  /\ head' = RunningStart + Len(recs[s])
  /\ oldest' = IF ScanFirst THEN 0 ELSE oldest
  /\ nextSeq' = s + 1
  /\ UNCHANGED <<onDisk, recs, base, meta, named, flocks, counters, caller, goal>>

\* scanSegment with repair: a torn tail is cut, a missing header rewritten, and
\* the file is fdatasync'd if either was needed.
RecoverActive ==
  \E s \in onDisk :
    /\ RecoverUnsealed(s) /\ ScanLast(s)
    /\ hdr' = hdr \cup {s}
    /\ torn' = torn \ {s}
    /\ synced' = IF s \in torn \/ s \notin hdr THEN [synced EXCEPT ![s] = Len(recs[s])]
                                               ELSE synced
    /\ active' = [seq |-> s, start |-> RunningStart]
    /\ durable' = Len(recs[s])
    /\ pc' = "open"
    /\ UNCHANGED <<sealed, reseal>>

RecoverUnlisted ==
  \E s \in onDisk :
    /\ RecoverUnsealed(s) /\ ~ScanLast(s) /\ s \in hdr
    /\ sealed' = sealed \cup {Scanned(s)}
    /\ reseal' = Append(reseal, Scanned(s))
    /\ UNCHANGED <<pc, active, durable, hdr, torn, synced>>

\* Hard errors: a sealed range that does not continue the chain, or a file that
\* is neither sealed nor last and has no global header.
RecoverRefuse ==
  /\ pc = "scan"
  /\ \E s \in onDisk :
       /\ ScanNext(s)
       /\ \/ ~ScanFirst /\ \E seg \in loadManifest : seg.seq = s /\ seg.start # head
          \/ /\ \A seg \in loadManifest : seg.seq # s
             /\ ~ScanLast(s) /\ s \notin hdr
  /\ pc' = "failed"
  /\ UNCHANGED <<contents, meta, synced, named, flocks, counters, caller, goal, active,
                 head, durable, nextSeq, sealed, reseal, oldest>>

\* Mutant: an empty spool gets no first segment.
AfterResealNoCreate(list) == IF list # <<>> THEN "seal" ELSE "publish"
\* Where NewWriter goes once the re-seals in list are done.
AfterReseal(list) ==
  IF list # <<>> THEN "seal" ELSE IF active = NoSegment THEN "create" ELSE "publish"

OpenManifest ==
  /\ pc = "open"
  /\ SyncDir
  /\ pc' = AfterReseal(reseal)
  /\ nextSeq' = IF pc' = "create" THEN nextSeq + 1 ELSE nextSeq
  /\ UNCHANGED <<contents, meta, synced, flocks, counters, caller, goal, active, head,
                 durable, sealed, reseal, oldest>>

-----------------------------------------------------------------------------
(* Packets, flushes and rotation.                                          *)

\* One whole-record write, then the policy: a full file must rotate; elapsed
\* time and pending bytes may ask for a sync or a rotation of any file.
WritePacket ==
  LET s == active.seq IN
  /\ pc = "idle" /\ captured < MaxPackets
  /\ captured' = captured + 1
  /\ recs' = [recs EXCEPT ![s] = Append(@, captured')]
  /\ head' = head + 1
  /\ \/ head' - active.start < RotateRecs /\ pc' = "idle" /\ goal' = "none" /\ caller' = "none"
     \/ head' - active.start < RotateRecs /\ pc' = "sync" /\ goal' = "none" /\ caller' = "packet"
     \/ pc' = "sync" /\ goal' = "rotate" /\ caller' = "packet"
  /\ UNCHANGED <<onDisk, hdr, torn, base, meta, synced, named, flocks, outages, active,
                 durable, nextSeq, sealed, reseal, oldest>>

\* Mutant: one pending record is not worth a flush.
TickLazy ==
  /\ pc = "idle" /\ head - active.start > durable + 1
  /\ goal' \in {"none", "rotate"}
  /\ pc' = "sync" /\ caller' = "tick"
  /\ UNCHANGED <<contents, meta, synced, named, flocks, counters, active, head,
                 durable, nextSeq, sealed, reseal, oldest>>
Tick ==
  /\ pc = "idle"
  /\ \/ Pending /\ goal' = "none"
     \/ head > active.start /\ goal' = "rotate"
  /\ pc' = "sync" /\ caller' = "tick"
  /\ UNCHANGED <<contents, meta, synced, named, flocks, counters, active, head,
                 durable, nextSeq, sealed, reseal, oldest>>

\* Mutant: sync() without its fdatasync.
FdatasyncSkipped ==
  /\ pc = "sync"
  /\ durable' = head - active.start
  /\ pc' = "publish"
  /\ UNCHANGED <<contents, meta, synced, named, flocks, counters, caller, goal, active, head,
                 nextSeq, sealed, reseal, oldest>>
\* sync(): the fdatasync, and the durable extent it justifies.
Fdatasync ==
  /\ pc = "sync"
  /\ synced' = [synced EXCEPT ![active.seq] = Len(recs[active.seq])]
  /\ durable' = head - active.start
  /\ pc' = "publish"
  /\ UNCHANGED <<contents, meta, named, flocks, counters, caller, goal, active, head,
                 nextSeq, sealed, reseal, oldest>>

HeadNow == Segment(active.seq, active.start, active.start + durable)

\* publishHead: rename head.json into place and fsync the directory; the caller
\* then returns, seals (rotate) or exits (Close).
publishHead ==
  /\ pc = "publish"
  /\ headFile' = HeadNow
  /\ SyncDir
  /\ \/ goal = "close" /\ Exit
     \/ /\ goal = "rotate" /\ pc' = "seal"
        /\ UNCHANGED <<caller, goal, active, head, durable, nextSeq, sealed, reseal, oldest>>
     \/ /\ goal = "none" /\ pc' = "idle" /\ caller' = "none"
        /\ UNCHANGED <<goal, active, head, durable, nextSeq, sealed, reseal, oldest>>
  /\ UNCHANGED <<contents, manifest, manSynced, synced, flocks, counters>>

\* What sealToManifest is called with: a recovered segment, or the active one.
Sealing ==
  IF caller = "start" THEN reseal[1] ELSE HeadNow

SealWrite ==
  /\ pc = "seal"
  /\ manifest' = Append(manifest, Sealing)
  /\ pc' = "sealsync"
  /\ UNCHANGED <<contents, manSynced, headFile, synced, named, flocks, counters, caller,
                 goal, active, head, durable, nextSeq, sealed, reseal, oldest>>

SealSync ==
  /\ pc = "sealsync"
  /\ manSynced' = Len(manifest)
  /\ sealed' = {seg \in sealed : seg.seq # Sealing.seq} \cup {Sealing}
  /\ IF caller = "start"
       THEN reseal' = Tail(reseal) /\ pc' = AfterReseal(Tail(reseal))
       ELSE pc' = "create" /\ UNCHANGED reseal
  /\ nextSeq' = IF pc' = "create" THEN nextSeq + 1 ELSE nextSeq
  /\ UNCHANGED <<contents, manifest, headFile, synced, named, flocks, counters, caller,
                 goal, active, head, durable, oldest>>

\* openNewSegment, in three calls: create the file (its number, nextSeq - 1, is
\* already taken), write and sync its header, sync the directory and switch.
CreateFile ==
  LET s == nextSeq - 1 IN
  /\ pc = "create" /\ s \in Seqs
  /\ onDisk' = onDisk \cup {s}
  /\ recs' = [recs EXCEPT ![s] = <<>>]
  /\ base' = [base EXCEPT ![s] = head]
  /\ synced' = [synced EXCEPT ![s] = 0]
  /\ hdr' = hdr \ {s}
  /\ torn' = torn \ {s}
  /\ pc' = "header"
  /\ UNCHANGED <<meta, named, flocks, counters, caller, goal, active, head, durable,
                 nextSeq, sealed, reseal, oldest>>

WriteHeader ==
  /\ pc = "header"
  /\ hdr' = hdr \cup {nextSeq - 1}
  /\ pc' = "dirsync"
  /\ UNCHANGED <<onDisk, recs, torn, base, meta, synced, named, flocks, counters, caller,
                 goal, active, head, durable, nextSeq, sealed, reseal, oldest>>

SwitchActive ==
  /\ pc = "dirsync"
  /\ SyncDir
  /\ active' = [seq |-> nextSeq - 1, start |-> head]
  /\ durable' = 0
  /\ goal' = "none"
  /\ pc' = "publish"
  /\ UNCHANGED <<contents, meta, synced, flocks, counters, caller, head, nextSeq, sealed,
                 reseal, oldest>>

\* Writer.Close flushes what is pending, then the process ends.
CloseWriter ==
  IF Pending
    THEN /\ pc' = "sync" /\ goal' = "close"
         /\ UNCHANGED <<caller, active, head, durable, nextSeq, sealed, reseal, oldest>>
    ELSE Exit

Close ==
  /\ pc = "idle" /\ outages < MaxOutages
  /\ outages' = outages + 1
  /\ CloseWriter
  /\ UNCHANGED <<contents, meta, synced, named, flocks, captured>>

-----------------------------------------------------------------------------
(* The janitor.  Reap holds w.mu across its loop, but a crash or a reader   *)
(* can come between two unlinks.                                           *)

CandidatesAll == {seg \in sealed : seg.seq \in onDisk}    \* mutant: the active file too
Candidates == {seg \in sealed : seg.seq # active.seq /\ seg.seq \in onDisk}
OldestAny(c) == c \in Candidates                         \* mutant: no sort
Oldest(c)  == c \in Candidates /\ \A d \in Candidates : c.start <= d.start

FreeAll(seg) == flocks = {}                              \* mutant: any lock stops it
\* tryReap's exclusive flock succeeds.
Free(seg) == seg.seq \notin flocks

ReapBegin ==
  /\ pc = "idle" /\ SpoolRecs > RetentionRecs
  /\ pc' = "reap"
  /\ UNCHANGED <<contents, meta, synced, named, flocks, counters, caller, goal, active,
                 head, durable, nextSeq, sealed, reseal, oldest>>

\* tryReap of the oldest sealed segment, which ends the loop if it is locked.
ReapOne ==
  /\ pc = "reap" /\ SpoolRecs > RetentionRecs
  /\ \E seg \in Candidates :
       /\ Oldest(seg) /\ Free(seg)
       /\ onDisk' = onDisk \ {seg.seq}
       /\ oldest' = IF seg.end > oldest THEN seg.end ELSE oldest
       /\ sealed' = sealed \ {seg}
  /\ UNCHANGED <<recs, hdr, torn, base, meta, synced, named, flocks, counters, pc, caller,
                 goal, active, head, durable, nextSeq, reseal>>

ReapEnd ==
  /\ pc = "reap"
  /\ \/ SpoolRecs <= RetentionRecs
     \/ \A seg \in Candidates : Oldest(seg) => ~Free(seg)
  /\ pc' = "idle"
  /\ UNCHANGED <<contents, meta, synced, named, flocks, counters, caller, goal, active,
                 head, durable, nextSeq, sealed, reseal, oldest>>

\* A reader takes or drops its shared flock (Reader.position, Reader.Close).
ReaderFlock ==
  /\ flocks' \in {{}} \cup {{s} : s \in onDisk}
  /\ flocks' # flocks
  /\ UNCHANGED <<contents, meta, synced, named, procVars, counters>>

-----------------------------------------------------------------------------
(* Faults.                                                                 *)

\* What a call that did not return may have left: a torn manifest line, or a
\* renamed head.json without the directory's fsync.
HalfDone ==
  /\ \/ manifest' = manifest
     \/ pc = "seal" /\ "torn" \in Faults /\ manifest' = Append(manifest, Unparsable)
  /\ \/ headFile' = headFile
     \/ pc = "publish" /\ headFile' = HeadNow

\* The process is killed, perhaps inside a write.  The kernel keeps every byte
\* it was given.
Kill ==
  /\ "kill" \in Faults /\ outages < MaxOutages /\ pc \notin {"down", "failed"}
  /\ outages' = outages + 1
  /\ \/ torn' = torn
     \/ pc = "idle" /\ torn' = torn \cup {active.seq}
  /\ HalfDone
  /\ Exit
  /\ UNCHANGED <<onDisk, recs, hdr, base, manSynced, synced, named, flocks, captured>>

\* A power cut.  Of what was not synced any prefix survives: directory operations
\* (in the order they were made), records (the next one perhaps in part), the
\* last manifest line; the unsynced head.json may come back empty.
PowerCut ==
  /\ "power" \in Faults /\ outages < MaxOutages /\ pc # "failed"
  /\ outages' = outages + 1
  /\ \E lost \in SUBSET (onDisk \ named), k \in 0..(MaxSeq + 1) :
       onDisk' = (onDisk \ lost) \cup {s \in named \ onDisk : s >= k}
  /\ named' = onDisk'
  /\ \E keep \in [{s \in onDisk : synced[s] < Len(recs[s])} -> 0..MaxPackets] :
       /\ \A s \in DOMAIN keep : keep[s] \in synced[s]..Len(recs[s])
       /\ recs' = [s \in Seqs |-> IF s \in DOMAIN keep THEN SubSeq(recs[s], 1, keep[s])
                                                       ELSE recs[s]]
       /\ torn' \in {torn, torn \cup {s \in DOMAIN keep : keep[s] < Len(recs[s])}}
  /\ synced' = [s \in Seqs |-> Len(recs'[s])]
  /\ \E m \in manSynced..Len(manifest) :
       \/ manifest' = SubSeq(manifest, 1, m)
       \/ /\ m < Len(manifest) /\ "torn" \in Faults
          /\ manifest' = Append(SubSeq(manifest, 1, m), Unparsable)
  /\ manSynced' = Len(manifest')
  /\ headFile' \in {headFile, Unparsable}
  /\ flocks' = {}
  /\ Exit
  /\ UNCHANGED <<hdr, base, captured>>

\* A call fails.  maintenanceLoop only logs an error of Tick and goes on; one of
\* WritePacket ends the capture through Close, one of NewWriter at once.
Return ==
  \/ /\ caller = "tick" /\ pc' = "idle" /\ caller' = "none" /\ goal' = "none"
     /\ UNCHANGED <<active, head, durable, nextSeq, sealed, reseal, oldest>>
  \/ caller = "packet" /\ goal # "close" /\ CloseWriter
  \/ (caller \in {"start", "none"} \/ goal = "close") /\ Exit

FailCall ==
  /\ "io" \in Faults /\ outages < MaxOutages
  /\ pc \in {"sync", "publish", "seal", "sealsync", "create", "header", "dirsync"}
  /\ outages' = outages + 1
  /\ HalfDone
  /\ Return
  /\ UNCHANGED <<contents, manSynced, synced, named, flocks, captured>>

FailWrite ==
  /\ "io" \in Faults /\ outages < MaxOutages /\ pc = "idle"
  /\ outages' = outages + 1
  /\ torn' = torn \cup {active.seq}
  /\ CloseWriter
  /\ UNCHANGED <<onDisk, recs, hdr, base, meta, synced, named, flocks, captured>>

-----------------------------------------------------------------------------
Recover  == RecoverBegin \/ RecoverSealed \/ RecoverActive \/ RecoverUnlisted
              \/ RecoverRefuse \/ OpenManifest
Flush    == Fdatasync \/ publishHead
Rotate   == SealWrite \/ SealSync \/ CreateFile \/ WriteHeader \/ SwitchActive
Reap     == ReapBegin \/ ReapOne \/ ReapEnd
Fault    == Kill \/ PowerCut \/ FailCall \/ FailWrite
Step     == Recover \/ WritePacket \/ Tick \/ Flush \/ Rotate \/ Close \/ Reap
              \/ ReaderFlock \/ Fault

\* Whatever a reader could now be given joins what it could be given before.
Advertised == advertised' = advertised \cup Visible'
Next       == Step /\ Advertised

Spec == Init /\ [][Next]_vars

\* systemd restarts the process (Restart=always) and an operation that has begun
\* goes on.  maintenanceLoop calls Tick and Reap again and again, however often a
\* packet or the other of the two holds the writer's lock: strong fairness.
\* Nothing is owed by the environment: packets, readers, stops and faults.
GoesOn == Recover \/ Flush \/ Rotate \/ ReapOne \/ ReapEnd
FairSpec ==
  /\ Spec
  /\ WF_vars(GoesOn /\ Advertised)
  /\ SF_vars(Tick /\ Advertised) /\ SF_vars(ReapBegin /\ Advertised)

-----------------------------------------------------------------------------
\* Files, metadata and the writer's fields have their types
\* (spool.go, Writer; manifest.go, Segment).
TypeOK ==
  /\ onDisk \subseteq Seqs /\ hdr \subseteq Seqs /\ torn \subseteq Seqs
  /\ named \subseteq Seqs /\ flocks \subseteq Seqs
  /\ recs \in [Seqs -> Seq(Packets)]
  /\ synced \in [Seqs -> Nat] /\ base \in [Seqs -> Nat]
  /\ manifest \in Seq(Segments) /\ manSynced \in Nat /\ headFile \in Segments
  /\ pc \in {"down", "failed", "scan", "open", "idle", "sync", "publish", "seal", "sealsync",
             "create", "header", "dirsync", "reap"}
  /\ caller \in {"none", "start", "packet", "tick"}
  /\ goal \in {"none", "rotate", "close"}
  /\ active \in [seq : Seqs \cup {-1}, start : Nat]
  /\ head \in Nat /\ durable \in Nat /\ nextSeq \in Nat /\ oldest \in Nat
  /\ sealed \subseteq Segments /\ reseal \in Seq(Segments)
  /\ advertised \subseteq Nat \X Packets
  /\ captured \in 0..MaxPackets /\ outages \in 0..MaxOutages

\* No gpidx is ever given to two packets: "a crash can never silently shift or
\* reissue a gpidx" (recover.go).  The collector dedupes on the gpidx alone, so
\* the second packet of a reissued gpidx would be thrown away.
OneIdentity == \A x, y \in advertised : x[1] = y[1] => x[2] = y[2]

\* "Only fdatasync'd bytes are ever advertised to the reader" (spool.go, Writer).
AdvertisedDurable == \A seg \in View : seg.end - seg.start <= synced[seg.seq]

\* What was advertised stays readable until retention takes it: while the writer
\* runs, the view covers every advertised gpidx from the oldest file on.
NothingVanishes ==
  pc = "idle" => \A x \in advertised :
                   \/ \A s \in onDisk : x[1] < base[s]
                   \/ \E seg \in View : seg.start <= x[1] /\ x[1] < seg.end

\* No sequence of crashes makes recovery refuse its own spool (the hard errors
\* of recoverSpool and scanSegment).
NeverRefuses == pc # "failed"

\* The retention edge the agent reports (OldestGpidx, in STATS) is the first
\* gpidx of the oldest file.
OldestIsTrue == pc = "idle" => oldest = Min({base[s] : s \in onDisk})

\* The oldest file is one whose first gpidx recovery can know: the manifest has
\* it, or it is 0.  Retention must never leave the active file alone.
OldestAnchored ==
  \A s \in onDisk : (\A t \in onDisk : s <= t) =>
    base[s] = 0 \/ \E seg \in loadManifest : seg.seq = s

\* The file being appended to is never unlinked, not even after a rotation that
\* failed between the seal and the new file left it in Writer.sealed (Reap).
ActiveOnDisk == pc \notin {"down", "scan", "failed"} /\ active # NoSegment => active.seq \in onDisk

\* A captured packet is eventually shown to the reader, through kills and restarts:
\* Tick flushes what no later packet flushes, and recovery publishes what it finds.
EveryPacketShown == []<>(\A p \in 1..captured : \E x \in advertised : x[2] = p)

\* A spool over its cap gets back under it, unless a reader holds the very file that is
\* next in turn or only the active file is left (maintenanceLoop; Reap stops at the
\* oldest sealed file if that is locked, and at no other lock).
OldestLocked == \E seg \in Candidates : Oldest(seg) /\ seg.seq \in flocks
RetentionEnforced ==
  []<>(\/ SpoolRecs <= RetentionRecs
       \/ OldestLocked
       \/ Candidates = {} /\ pc = "idle")
=============================================================================

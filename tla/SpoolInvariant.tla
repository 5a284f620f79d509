--------------------------- MODULE SpoolInvariant ---------------------------
(***************************************************************************)
(* Type correctness of module Spool, its inductive invariant, what it says *)
(* of the view a reader gets, and that opening and recovering the spool    *)
(* keep it.                                                                *)
(***************************************************************************)
EXTENDS Spool, TLAPS

-----------------------------------------------------------------------------
(* Types.  Some of them depend on the control: an operation that uses the  *)
(* active file, the re-seal list or the new file's number has one.         *)

FilesTyped ==
  /\ onDisk \subseteq Seqs /\ hdr \subseteq Seqs /\ torn \subseteq Seqs
  /\ named \subseteq Seqs /\ flocks \subseteq Seqs
  /\ recs \in [Seqs -> Seq(Packets)]
  /\ synced \in [Seqs -> Nat] /\ base \in [Seqs -> Nat]
  /\ captured \in 0..MaxPackets
MetaTyped ==
  manifest \in Seq(Segments) /\ manSynced \in Nat /\ headFile \in Segments
MemTyped ==
  /\ active \in [seq : Seqs \cup {-1}, start : Nat]
  /\ head \in Nat /\ durable \in Nat /\ nextSeq \in Nat /\ oldest \in Nat
  /\ active.start <= head
  /\ sealed \subseteq Segments /\ reseal \in Seq(Segments)
Control ==
  /\ pc \in {"down", "failed", "scan", "open", "idle", "sync", "publish", "seal", "sealsync",
             "create", "header", "dirsync", "reap"}
  /\ caller \in {"none", "start", "packet", "tick"}
  /\ goal \in {"none", "rotate", "close"}
  /\ outages \in 0..MaxOutages
  /\ active = NoSegment \/ active.seq \in Seqs
  /\ pc \in {"down", "scan"} => active = NoSegment
  /\ pc = "down" => goal = "none"
  /\ pc \in {"idle", "reap"} => caller = "none"
  /\ pc \in {"scan", "open"} => caller = "start"
  /\ goal = "rotate" => caller \in {"packet", "tick"}
  /\ pc \in {"idle", "sync", "publish", "reap"} => active.seq \in Seqs
  /\ caller \in {"packet", "tick"} => active.seq \in Seqs
  /\ caller = "start" => goal = "none" /\ (pc \in {"seal", "sealsync"} => reseal # <<>>)
  /\ pc \in {"seal", "sealsync"} => caller # "none"
  /\ pc \in {"header", "dirsync"} => nextSeq - 1 \in Seqs

AdvertisedTyped == advertised \subseteq Nat \X Packets

Typed == FilesTyped /\ MetaTyped /\ MemTyped /\ Control

\* loadManifest returns Segment records.
LEMMA ManifestTyped ==
  manifest \in Seq(Segments) => loadManifest \subseteq Segments
BY DEF loadManifest, ParsedLines

\* A reader is given pairs of a gpidx and a captured packet.
LEMMA VisibleTyped ==
  /\ recs \in [Seqs -> Seq(Packets)] /\ manifest \in Seq(Segments) /\ headFile \in Segments
  => Visible \subseteq Nat \X Packets
<1> SUFFICES ASSUME recs \in [Seqs -> Seq(Packets)], manifest \in Seq(Segments),
                    headFile \in Segments,
                    NEW seg \in View,
                    NEW g \in {n \in seg.start..(seg.end - 1) : n - seg.start < Len(recs[seg.seq])}
             PROVE  <<g, recs[seg.seq][g - seg.start + 1]>> \in Nat \X Packets
  BY DEF Visible
<1>1. seg \in Segments
  BY ManifestTyped DEF View
<1>2. recs[seg.seq] \in Seq(Packets) /\ seg.start \in Nat /\ seg.end \in Nat
  BY <1>1 DEF Segments
<1>3. g - seg.start + 1 \in 1..Len(recs[seg.seq]) /\ g \in Nat
  BY <1>2
<1> QED BY <1>2, <1>3, SMTT(20)

\* The same of the state after a step.
LEMMA NewVisibleTyped ==
  (/\ recs \in [Seqs -> Seq(Packets)] /\ manifest \in Seq(Segments) /\ headFile \in Segments
   => Visible \subseteq Nat \X Packets)'
BY VisibleTyped, PTL

\* sealToManifest is called with a Segment record.
LEMMA SealingTyped ==
  MemTyped /\ Control /\ pc \in {"seal", "sealsync"} => Sealing \in Segments
<1> SUFFICES ASSUME MemTyped, Control, pc \in {"seal", "sealsync"} PROVE Sealing \in Segments
  OBVIOUS
<1>1. CASE caller = "start"
  <2>1. reseal \in Seq(Segments) /\ reseal # <<>>
    BY <1>1 DEF MemTyped, Control
  <2> QED BY <1>1, <2>1 DEF Sealing
<1>2. CASE caller # "start"
  <2>1. active.seq \in Seqs
    BY <1>2 DEF Control
  <2> QED BY <1>2, <2>1 DEF MemTyped, Sealing, HeadNow, Segment, Segments
<1> QED BY <1>1, <1>2

\* No step breaks the types of the files and of what is synced of them.
LEMMA FilesStep == Typed /\ Step => FilesTyped'
<1> SUFFICES ASSUME Typed, Step PROVE FilesTyped'
  OBVIOUS
<1>0. FilesTyped /\ MetaTyped /\ MemTyped /\ Control
  BY DEF Typed
<1>1. CASE UNCHANGED <<contents, synced, named, flocks, captured>>
  BY <1>0, <1>1 DEF FilesTyped, contents
<1>2. CASE RecoverActive
  BY <1>0, <1>2 DEF FilesTyped, RecoverActive, RecoverUnsealed, counters
<1>3. CASE WritePacket
  <2>1. captured' \in 0..MaxPackets /\ captured' \in Packets
    BY <1>0, <1>3, BoundsAssumption DEF FilesTyped, WritePacket, Packets
  <2>2. active.seq \in Seqs
    BY <1>0, <1>3 DEF WritePacket, Control
  <2>3. recs' \in [Seqs -> Seq(Packets)]
    BY <1>0, <1>3, <2>1, <2>2 DEF FilesTyped, WritePacket
  <2> QED
    BY <1>0, <1>3, <2>1, <2>3, SMTT(20) DEF FilesTyped, WritePacket
<1>4. CASE OpenManifest \/ SwitchActive \/ publishHead
  BY <1>0, <1>4 DEF FilesTyped, OpenManifest, SwitchActive, publishHead, SyncDir, contents, counters
<1>5. CASE Fdatasync
  <2>1. active.seq \in Seqs
    BY <1>0, <1>5 DEF Fdatasync, Control
  <2>2. synced' \in [Seqs -> Nat]
    BY <1>0, <1>5, <2>1 DEF FilesTyped, Fdatasync
  <2> QED
    BY <1>0, <1>5, <2>2 DEF FilesTyped, Fdatasync, contents, counters
<1>6. CASE CreateFile
  BY <1>0, <1>6, SMTT(20) DEF FilesTyped, CreateFile, counters, MemTyped
<1>7. CASE WriteHeader
  BY <1>0, <1>7 DEF FilesTyped, WriteHeader, counters, Control
<1>8. CASE ReapOne
  BY <1>0, <1>8 DEF FilesTyped, ReapOne, counters
<1>9. CASE ReaderFlock
  BY <1>0, <1>9 DEF FilesTyped, ReaderFlock, contents, counters
<1>10. CASE Kill
  BY <1>0, <1>10 DEF FilesTyped, Kill, Control
<1>11. CASE FailWrite
  BY <1>0, <1>11 DEF FilesTyped, FailWrite, Control
<1>12. CASE PowerCut
  <2>1. onDisk' \subseteq Seqs /\ named' \subseteq Seqs /\ hdr' \subseteq Seqs /\ flocks' \subseteq Seqs
    BY <1>0, <1>12 DEF FilesTyped, PowerCut
  <2>2. PICK keep \in [{s \in onDisk : synced[s] < Len(recs[s])} -> 0..MaxPackets] :
       /\ \A s \in DOMAIN keep : keep[s] \in synced[s]..Len(recs[s])
       /\ recs' = [s \in Seqs |-> IF s \in DOMAIN keep THEN SubSeq(recs[s], 1, keep[s])
                                                       ELSE recs[s]]
       /\ torn' \in {torn, torn \cup {s \in DOMAIN keep : keep[s] < Len(recs[s])}}
    BY <1>12, Zenon DEF PowerCut
  <2>3. recs' \in [Seqs -> Seq(Packets)]
    BY <1>0, <2>2 DEF FilesTyped
  <2>4. torn' \subseteq Seqs
    BY <1>0, <2>2 DEF FilesTyped
  <2>5. synced' \in [Seqs -> Nat]
    BY <1>12, <2>3, SMTT(20) DEF PowerCut
  <2> QED
    BY <1>0, <1>12, <2>1, <2>3, <2>4, <2>5, Zenon DEF FilesTyped, PowerCut
<1>13. CASE RecoverBegin \/ RecoverSealed \/ RecoverUnlisted \/ RecoverRefuse \/ Tick
            \/ SealWrite \/ SealSync \/ Close \/ ReapBegin \/ ReapEnd \/ FailCall
  BY <1>1, <1>13 DEF RecoverBegin, RecoverSealed, RecoverUnlisted, RecoverUnsealed, RecoverRefuse, Tick,
       SealWrite, SealSync, Close, ReapBegin, ReapEnd, FailCall, contents, counters
<1> QED
  BY <1>2, <1>3, <1>4, <1>5, <1>6, <1>7, <1>8, <1>9, <1>10, <1>11, <1>12, <1>13
  DEF Step, Recover, Flush, Rotate, Reap, Fault

\* No step breaks the types of manifest.ndjson and head.json.
LEMMA MetaStep == Typed /\ Step => MetaTyped'
<1> SUFFICES ASSUME Typed, Step PROVE MetaTyped'
  OBVIOUS
<1>0. MetaTyped /\ MemTyped /\ Control
  BY DEF Typed
<1>1. CASE UNCHANGED meta
  BY <1>0, <1>1 DEF MetaTyped, meta
<1>2. pc = "publish" => HeadNow \in Segments
  BY <1>0 DEF Control, MemTyped, HeadNow, Segment, Segments
<1>3. pc \in {"seal", "sealsync"} => Sealing \in Segments
  BY <1>0, SealingTyped
<1>4. Unparsable \in Segments
  BY BoundsAssumption DEF Unparsable, Segments, Seqs
<1>5. CASE publishHead
  BY <1>0, <1>2, <1>5 DEF MetaTyped, publishHead
<1>6. CASE SealWrite
  BY <1>0, <1>3, <1>6 DEF MetaTyped, SealWrite
<1>7. CASE SealSync
  BY <1>0, <1>7 DEF MetaTyped, SealSync
<1>8. CASE Kill \/ FailCall
  BY <1>0, <1>2, <1>4, <1>8 DEF MetaTyped, Kill, FailCall, HalfDone
<1>9. CASE PowerCut
  <2>1. PICK m \in manSynced..Len(manifest) :
          \/ manifest' = SubSeq(manifest, 1, m)
          \/ manifest' = Append(SubSeq(manifest, 1, m), Unparsable)
    BY <1>9 DEF PowerCut
  <2>2. SubSeq(manifest, 1, m) \in Seq(Segments)
    BY <1>0, <2>1 DEF MetaTyped
  <2>3. manifest' \in Seq(Segments)
    BY <1>4, <2>1, <2>2
  <2>4. manSynced' \in Nat
    BY <1>9, <2>3 DEF PowerCut
  <2> QED BY <1>0, <1>4, <1>9, <2>3, <2>4, Zenon DEF MetaTyped, PowerCut
<1>10. CASE Recover \/ WritePacket \/ Tick \/ Fdatasync \/ CreateFile \/ WriteHeader
            \/ SwitchActive \/ Close \/ Reap \/ ReaderFlock \/ FailWrite
  BY <1>1, <1>10, Zenon DEF Recover, RecoverBegin, RecoverSealed, RecoverActive, RecoverUnlisted,
       RecoverUnsealed, RecoverRefuse, OpenManifest, WritePacket, Tick, Fdatasync, CreateFile,
       WriteHeader, SwitchActive, Close, Reap, ReapBegin, ReapOne, ReapEnd, ReaderFlock, FailWrite
<1> QED
  BY <1>5, <1>6, <1>7, <1>8, <1>9, <1>10 DEF Step, Flush, Rotate, Fault

memory == <<active, head, durable, nextSeq, oldest, sealed, reseal>>

\* No step breaks the types of the writer's fields.
LEMMA MemStep == Typed /\ Step => MemTyped'
<1> SUFFICES ASSUME Typed, Step PROVE MemTyped'
  OBVIOUS
<1>0. FilesTyped /\ MetaTyped /\ MemTyped /\ Control
  BY DEF Typed
<1>m. loadManifest \subseteq Segments
  BY <1>0, ManifestTyped DEF MetaTyped
<1>u. CASE UNCHANGED memory
  BY <1>0, <1>u DEF MemTyped, memory
<1>e. CASE Exit
  BY <1>e DEF MemTyped, Exit, NoSegment
<1>1. CASE RecoverBegin
  <2>1. \A seg \in loadManifest : seg.end \in Nat /\ seg.seq \in Nat
    BY <1>m DEF Segments, Seqs
  <2>2. /\ active = NoSegment /\ head \in Nat /\ oldest \in Nat /\ nextSeq \in Nat
        /\ UNCHANGED <<active, durable, sealed, reseal>>
    BY <1>0, <1>1, Zenon DEF MemTyped, Control, RecoverBegin
  <2>3. head' \in Nat /\ oldest' \in Nat /\ nextSeq' \in Nat
    BY <1>1, <2>1, <2>2 DEF RecoverBegin
  <2>4. active.start <= head'
    BY <2>2, <2>3 DEF NoSegment
  <2> QED BY <1>0, <2>2, <2>3, <2>4, Zenon DEF MemTyped
<1>2. CASE RecoverSealed
  <2>1. PICK seg \in loadManifest :
          /\ pc = "scan" /\ head' = seg.end /\ oldest' = (IF ScanFirst THEN seg.start ELSE oldest)
          /\ sealed' = sealed \cup {seg} /\ nextSeq' = seg.seq + 1
          /\ UNCHANGED <<active, durable, reseal>>
    BY <1>2, Zenon DEF RecoverSealed
  <2>2. seg \in Segments /\ seg.end \in Nat /\ seg.start \in Nat /\ seg.seq + 1 \in Nat
    BY <1>m DEF Segments, Seqs
  <2>3. active.start <= head'
    BY <1>0, <2>1, <2>2 DEF Control, NoSegment
  <2> QED BY <1>0, <2>1, <2>2, <2>3, Zenon DEF MemTyped
<1>3. CASE RecoverActive
  <2>1. PICK s \in onDisk : /\ RecoverUnsealed(s)
                           /\ active' = [seq |-> s, start |-> RunningStart]
                           /\ durable' = Len(recs[s]) /\ UNCHANGED <<sealed, reseal>>
    BY <1>3 DEF RecoverActive
  <2>2. s \in Seqs /\ Len(recs[s]) \in Nat /\ RunningStart \in Nat
    BY <1>0 DEF MemTyped, FilesTyped, RunningStart
  <2>3. /\ head' = RunningStart + Len(recs[s]) /\ nextSeq' = s + 1
        /\ oldest' = (IF ScanFirst THEN 0 ELSE oldest)
    BY <2>1, Zenon DEF RecoverUnsealed
  <2>4. head' \in Nat /\ nextSeq' \in Nat /\ oldest' \in Nat /\ RunningStart <= head'
    BY <1>0, <2>2, <2>3 DEF MemTyped, Seqs
  <2>5. active' \in [seq : Seqs \cup {-1}, start : Nat] /\ active'.start = RunningStart
    BY <2>1, <2>2, Zenon
  <2> QED BY <1>0, <2>1, <2>2, <2>4, <2>5, Zenon DEF MemTyped
<1>4. CASE RecoverUnlisted
  <2>1. PICK s \in onDisk : /\ RecoverUnsealed(s) /\ UNCHANGED <<active, durable>>
                           /\ sealed' = sealed \cup {Scanned(s)}
                           /\ reseal' = Append(reseal, Scanned(s))
    BY <1>4 DEF RecoverUnlisted
  <2>2. s \in Seqs /\ Len(recs[s]) \in Nat /\ RunningStart \in Nat
    BY <1>0 DEF MemTyped, FilesTyped, RunningStart
  <2>3. Scanned(s) \in Segments
    BY <2>2 DEF Scanned, Segment, Segments
  <2>4. active = NoSegment
    BY <1>0, <2>1 DEF Control, RecoverUnsealed
  <2>5. /\ head' = RunningStart + Len(recs[s]) /\ nextSeq' = s + 1
        /\ oldest' = (IF ScanFirst THEN 0 ELSE oldest)
    BY <2>1, Zenon DEF RecoverUnsealed
  <2>6. head' \in Nat /\ nextSeq' \in Nat /\ oldest' \in Nat /\ active.start <= head'
    BY <1>0, <2>2, <2>4, <2>5 DEF MemTyped, Seqs, NoSegment
  <2>7. reseal' \in Seq(Segments)
    BY <1>0, <2>1, <2>3 DEF MemTyped
  <2> QED BY <1>0, <2>1, <2>3, <2>6, <2>7, Zenon DEF MemTyped
<1>5. CASE OpenManifest
  BY <1>0, <1>5 DEF MemTyped, OpenManifest
<1>6. CASE WritePacket
  BY <1>0, <1>6 DEF MemTyped, WritePacket
<1>7. CASE Fdatasync
  BY <1>0, <1>7 DEF MemTyped, Fdatasync
<1>8. CASE SealSync
  <2>1. Sealing \in Segments /\ (caller = "start" => reseal # <<>>)
    BY <1>0, <1>8, SealingTyped DEF SealSync, Control
  <2> QED BY <1>0, <1>8, <2>1 DEF MemTyped, SealSync
<1>9. CASE SwitchActive
  BY <1>0, <1>9 DEF MemTyped, Control, SwitchActive
<1>10. CASE ReapOne
  BY <1>0, <1>10 DEF MemTyped, ReapOne, Candidates, Segments
<1>11. CASE publishHead \/ Close \/ Kill \/ PowerCut \/ FailCall \/ FailWrite
  BY <1>u, <1>e, <1>11, SMTT(20) DEF publishHead, Close, Kill, PowerCut, FailCall, FailWrite, Return,
       CloseWriter, memory
<1>12. CASE RecoverRefuse \/ Tick \/ SealWrite \/ CreateFile \/ WriteHeader \/ ReapBegin
            \/ ReapEnd \/ ReaderFlock
  BY <1>u, <1>12, SMTT(20) DEF RecoverRefuse, Tick, SealWrite, CreateFile, WriteHeader, ReapBegin, ReapEnd,
       ReaderFlock, procVars, memory
<1> QED
  BY <1>1, <1>2, <1>3, <1>4, <1>5, <1>6, <1>7, <1>8, <1>9, <1>10, <1>11, <1>12
  DEF Step, Recover, Flush, Rotate, Reap, Fault

\* Every step keeps control state and writer's fields in agreement: there is an
\* active file once one was opened, and a segment to seal while re-sealing.
LEMMA ControlStep == Typed /\ Step => Control'
<1> SUFFICES ASSUME Typed, Step PROVE Control'
  OBVIOUS
<1>0. FilesTyped /\ MemTyped /\ Control
  BY DEF Typed
<1> USE BoundsAssumption DEF Control, counters
<1>1. CASE Recover
  <2>1. CASE RecoverBegin \/ RecoverSealed \/ RecoverRefuse
    BY <1>0, <2>1 DEF RecoverBegin, RecoverSealed, RecoverRefuse
  <2>2. CASE RecoverActive
    BY <1>0, <2>2 DEF RecoverActive, RecoverUnsealed, FilesTyped
  <2>3. CASE RecoverUnlisted
    BY <1>0, <2>3 DEF RecoverUnlisted, RecoverUnsealed
  <2>4. CASE OpenManifest
    BY <1>0, <2>4 DEF OpenManifest, AfterReseal
  <2> QED BY <1>1, <2>1, <2>2, <2>3, <2>4 DEF Recover
<1>2. CASE WritePacket \/ Tick \/ Flush
  BY <1>0, <1>2 DEF WritePacket, Tick, Flush, Fdatasync, publishHead, Exit
<1>3. CASE SealWrite \/ SealSync
  BY <1>0, <1>3, Zenon DEF SealWrite, SealSync, AfterReseal, MemTyped
<1>4. CASE CreateFile \/ WriteHeader \/ SwitchActive
  BY <1>0, <1>4 DEF CreateFile, WriteHeader, SwitchActive
<1>5. CASE Reap \/ ReaderFlock
  BY <1>0, <1>5 DEF Reap, ReapBegin, ReapOne, ReapEnd, ReaderFlock, procVars
<1>6. CASE Close \/ FailWrite
  BY <1>0, <1>6 DEF Close, FailWrite, CloseWriter, Exit
<1>7. CASE Kill \/ PowerCut
  BY <1>0, <1>7, SMTT(20) DEF Kill, PowerCut, Exit
<1>8. CASE FailCall
  BY <1>0, <1>8 DEF FailCall, Return, CloseWriter, Exit
<1> QED
  BY <1>1, <1>2, <1>3, <1>4, <1>5, <1>6, <1>7, <1>8, Zenon DEF Step, Rotate, Fault
\* The typing invariant is inductive.
LEMMA TypedStep == Typed /\ [Next]_vars => Typed'
<1> SUFFICES ASSUME Typed, [Next]_vars PROVE Typed'
  OBVIOUS
<1>1. CASE Next
  BY <1>1, FilesStep, MetaStep, MemStep, ControlStep DEF Next, Advertised, Typed
<1>2. CASE UNCHANGED vars
  BY <1>2 DEF Typed, FilesTyped, MetaTyped, MemTyped, Control, vars, contents, meta, procVars,
       counters
<1> QED BY <1>1, <1>2

\* It holds initially.
LEMMA TypedInit == Init => Typed
BY BoundsAssumption
   DEF Init, Typed, FilesTyped, MetaTyped, MemTyped, Control, NoSegment, Unparsable, Segments, Seqs

\* Type correctness, for every bound and every combination of faults.
THEOREM TypeCorrect == Spec => []TypeOK
<1>1. Init => Typed /\ AdvertisedTyped
  BY TypedInit DEF Init, AdvertisedTyped
<1>2. Typed /\ AdvertisedTyped /\ [Next]_vars
        => Typed' /\ AdvertisedTyped'
  <2> SUFFICES ASSUME Typed, AdvertisedTyped, [Next]_vars
               PROVE  Typed' /\ AdvertisedTyped'
    OBVIOUS
  <2>1. Typed'
    BY TypedStep
  <2>2. Visible' \subseteq Nat \X Packets
    BY <2>1, NewVisibleTyped DEF Typed, FilesTyped, MetaTyped
  <2> QED BY <2>1, <2>2 DEF Next, Advertised, vars, AdvertisedTyped
<1>3. Typed /\ AdvertisedTyped => TypeOK
  BY SMTT(20) DEF Typed, FilesTyped, MetaTyped, MemTyped, Control, AdvertisedTyped, TypeOK
<1> QED BY <1>1, <1>2, <1>3, PTL DEF Spec

-----------------------------------------------------------------------------
(* The active file.                                                        *)

\* With the file that openNewSegment has created and not yet made the active one.
ActiveThere ==
  /\ ActiveOnDisk
  /\ pc \in {"header", "dirsync"} => nextSeq - 1 \in onDisk

LEMMA ActiveThereStep == ASSUME Typed, ActiveThere, Step PROVE ActiveThere'
<1>1. /\ pc \notin {"down", "scan", "failed"} /\ active # NoSegment => active.seq \in onDisk
      /\ pc \in {"header", "dirsync"} => nextSeq - 1 \in onDisk
      /\ pc \in {"down", "scan"} => active = NoSegment
  BY Zenon DEF ActiveThere, ActiveOnDisk, Typed, Control
<1> SUFFICES /\ pc' \notin {"down", "scan", "failed"} /\ active' # NoSegment => active'.seq \in onDisk'
             /\ pc' \in {"header", "dirsync"} => nextSeq' - 1 \in onDisk'
  BY Zenon DEF ActiveThere, ActiveOnDisk
<1>2. CASE Exit
  BY <1>2 DEF Exit
<1>3. CASE RecoverBegin \/ RecoverSealed \/ RecoverUnlisted \/ RecoverRefuse
  BY <1>1, <1>3 DEF RecoverBegin, RecoverSealed, RecoverUnlisted, RecoverUnsealed, RecoverRefuse, contents
<1>4. CASE RecoverActive
  BY <1>4 DEF RecoverActive, RecoverUnsealed
<1>5. CASE OpenManifest \/ SealSync
  BY <1>1, <1>5 DEF OpenManifest, SealSync, AfterReseal, contents
<1>6. CASE WritePacket \/ Tick \/ Fdatasync \/ SealWrite \/ ReapBegin \/ ReapEnd
  BY <1>1, <1>6 DEF WritePacket, Tick, Fdatasync, SealWrite, ReapBegin, ReapEnd, contents
<1>7. CASE publishHead
  BY <1>1, <1>2, <1>7 DEF publishHead, contents
<1>8. CASE CreateFile
  BY <1>1, <1>8 DEF CreateFile
<1>9. CASE WriteHeader
  BY <1>1, <1>9 DEF WriteHeader
<1>10. CASE SwitchActive
  BY <1>1, <1>10 DEF SwitchActive, contents
<1>11. CASE Close \/ FailWrite
  BY <1>1, <1>2, <1>11 DEF Close, FailWrite, CloseWriter, contents
\* Reap leaves out the active file.
<1>12. CASE ReapOne
  BY <1>1, <1>12 DEF ReapOne, Candidates
<1>13. CASE ReaderFlock
  BY <1>1, <1>13 DEF ReaderFlock, contents, procVars
<1>14. CASE Kill \/ PowerCut
  BY <1>2, <1>14, Zenon DEF Kill, PowerCut
<1>15. CASE FailCall
  BY <1>1, <1>2, <1>15 DEF FailCall, Return, CloseWriter, contents
<1> QED
  BY <1>3, <1>4, <1>5, <1>6, <1>7, <1>8, <1>9, <1>10, <1>11, <1>12, <1>13, <1>14, <1>15, Zenon
  DEF Step, Recover, Flush, Rotate, Reap, Fault

\* Whatever fails, the file being appended to is never unlinked, for all bounds and faults:
\* Reap passes over it even when a failed rotation has left it among the sealed ones.
THEOREM ActiveOnDiskHolds == Spec => []ActiveOnDisk
<1>1. Init => Typed /\ ActiveThere
  BY TypedInit DEF Init, ActiveThere, ActiveOnDisk
<1>2. Typed /\ ActiveThere /\ [Next]_vars => Typed' /\ ActiveThere'
  <2>1. CASE Next
    BY <2>1, TypedStep, ActiveThereStep, Zenon DEF Next
  <2>2. CASE UNCHANGED vars
    BY <2>2, TypedStep, Zenon DEF vars, contents, procVars, ActiveThere, ActiveOnDisk
  <2> QED BY <2>1, <2>2, Zenon
<1>3. ActiveThere => ActiveOnDisk
  BY Zenon DEF ActiveThere
<1> QED BY <1>1, <1>2, <1>3, PTL DEF Spec

-----------------------------------------------------------------------------
(* The inductive invariant.                                                *)

\* The faults under which the theorems hold.  The runs of the other combinations
\* show what each of them breaks.
CleanFaults ==
  /\ "torn" \notin Faults /\ "io" \notin Faults
  /\ ~("kill" \in Faults /\ "power" \in Faults)

\* What no fault in Faults can take back: after a kill recovery takes whatever the
\* kernel has; otherwise only what was synced counts.
OnlySynced  == "kill" \notin Faults
Stable(s)   == IF OnlySynced THEN synced[s] ELSE Len(recs[s])
StableLines == IF OnlySynced THEN manSynced ELSE Len(manifest)
End(s)      == base[s] + Len(recs[s])

\* Files are created in sequence; retention takes them from below, and the newest
\* may not have a durable name yet.
Span(lo, hi, nlo, nhi) ==
  /\ onDisk = lo..hi /\ lo <= hi
  /\ named = nlo..nhi /\ nlo <= lo /\ nhi \in {hi - 1, hi}
  /\ lo <= nhi \/ (hi = 0 /\ nlo = 0)
  /\ nhi = hi - 1 => recs[hi] = <<>>

\* Each file starts where the one before it ends, and only the newest grows.
Chain(hi) ==
  /\ \A s, t \in Seqs : s < t /\ t <= hi => End(s) <= base[t]
  /\ \A s \in Seqs : s + 1 \in Seqs /\ s < hi => base[s + 1] = End(s)
  /\ \A s \in Seqs : s > hi => recs[s] = <<>>
  /\ \A s \in Seqs : s < hi => recs[s] # <<>> /\ Stable(s) = Len(recs[s]) /\ s \in hdr
  /\ \A s \in Seqs : synced[s] <= Len(recs[s])

\* A line is right about its file, comes once, and outlives any fault once the
\* next file exists.
True(seg) ==
  /\ seg.ok /\ seg.start = base[seg.seq] /\ seg.end = End(seg.seq)
  /\ seg.start < seg.end
Lines(hi) ==
  /\ manSynced <= Len(manifest)
  /\ \A i \in DOMAIN manifest :
       /\ True(manifest[i]) /\ manifest[i].seq <= hi /\ manifest[i].seq \in hdr
       /\ Stable(manifest[i].seq) = Len(recs[manifest[i].seq])
  /\ \A i, j \in DOMAIN manifest : manifest[i].seq = manifest[j].seq => i = j
  /\ \A s \in Seqs : s < hi => \E i \in 1..StableLines : manifest[i].seq = s

HeadTrue(nhi) ==
  headFile.ok =>
    /\ headFile.seq <= nhi /\ headFile.start = base[headFile.seq]
    /\ headFile.end <= base[headFile.seq] + Stable(headFile.seq)

\* Every packet a reader could have been given is still where it was.
At(x, s) ==
  /\ base[s] <= x[1] /\ x[1] < base[s] + Stable(s)
  /\ recs[s][x[1] - base[s] + 1] = x[2]
Kept == \A x \in advertised : \E s \in Seqs : At(x, s)

Unsealed(s) == \A i \in DOMAIN manifest : manifest[i].seq # s

Appending == {"idle", "sync", "publish", "seal", "sealsync", "reap"}

\* The writer's memory agrees with the disk, phase by phase.
Recovering(lo, hi) ==
  /\ pc = "down" => nextSeq = 0 /\ active = NoSegment
  /\ pc \in {"down", "scan", "open"} => \A s \in Seqs : Stable(s) = Len(recs[s])
  /\ pc = "scan" =>
       /\ active = NoSegment /\ nextSeq <= hi
       /\ nextSeq = 0 \/ (lo < nextSeq /\ head = base[nextSeq])
  /\ pc = "open" =>
       /\ nextSeq = hi + 1 /\ head = End(hi)
       /\ \/ active = NoSegment /\ ~Unsealed(hi)
          \/ /\ active = [seq |-> hi, start |-> base[hi]] /\ durable = Len(recs[hi])
             /\ Unsealed(hi) /\ hi \in hdr

Running(hi) ==
  pc \in Appending =>
    /\ nextSeq = hi + 1 /\ head = End(hi)
    /\ active = [seq |-> hi, start |-> base[hi]]
    /\ durable <= Stable(hi) /\ hi \in named /\ hi \in hdr
    /\ pc # "sealsync" => Unsealed(hi)
    /\ pc = "sealsync" => ~Unsealed(hi)
    /\ goal = "rotate" => recs[hi] # <<>>
    /\ pc = "publish" /\ goal # "none" => durable = Len(recs[hi])
    /\ pc \in {"seal", "sealsync"} =>
         durable = Len(recs[hi]) /\ caller # "start" /\ goal = "rotate"

Creating(hi) ==
  /\ pc = "create" =>
       /\ nextSeq = hi + 2 /\ head = End(hi) /\ hi \in named
       /\ \E i \in 1..StableLines : manifest[i].seq = hi
  /\ pc \in {"header", "dirsync"} => nextSeq = hi + 1 /\ head = base[hi] /\ recs[hi] = <<>>
  /\ pc = "dirsync" => hi \in hdr

Writer(lo, hi) ==
  /\ reseal = <<>> /\ pc # "failed"
  /\ pc # "sealsync" => StableLines = Len(manifest)
  /\ Recovering(lo, hi) /\ Running(hi) /\ Creating(hi)

\* The in-memory list of sealed segments is the files below the active one.
SealedTrue(hi) ==
  /\ \A seg \in sealed : True(seg) /\ ~Unsealed(seg.seq)
  /\ \A s \in onDisk :
       /\ s < hi \/ pc = "create" \/ (pc = "open" /\ active = NoSegment)
       /\ pc = "scan" => s < nextSeq
       /\ pc # "down"
       => \E seg \in sealed : seg.seq = s

\* Before the first file.
Empty ==
  /\ onDisk = {} /\ named = {} /\ manifest = <<>> /\ manSynced = 0
  /\ ~headFile.ok /\ sealed = {} /\ reseal = <<>> /\ active = NoSegment
  /\ \A s \in Seqs : recs[s] = <<>> /\ synced[s] = 0
  /\ pc \in {"down", "open", "create"}
  /\ pc # "down" => head = 0 /\ nextSeq = (IF pc = "open" THEN 0 ELSE 1)

Disk(lo, hi, nlo, nhi) ==
  Span(lo, hi, nlo, nhi) /\ Chain(hi) /\ Lines(hi) /\ HeadTrue(nhi)

Populated(lo, hi, nlo, nhi) ==
  Disk(lo, hi, nlo, nhi) /\ Writer(lo, hi) /\ SealedTrue(hi)

Core ==
  Empty \/ \E lo, hi, nlo \in Seqs, nhi \in Seqs \cup {-1} : Populated(lo, hi, nlo, nhi)

IInv ==
  /\ Typed /\ AdvertisedTyped /\ Kept
  /\ Core
-----------------------------------------------------------------------------
(* What the invariant says about the manifest and the view.                *)

\* Without torn lines loadManifest returns every line of the manifest.
LEMMA ManifestLoaded ==
  ASSUME Typed, NEW hi, Lines(hi)
  PROVE  loadManifest = {manifest[i] : i \in DOMAIN manifest}
<1>0. DOMAIN manifest = 1..Len(manifest) /\ Len(manifest) \in Nat
  BY DEF Typed, MetaTyped
<1>1. \A i \in DOMAIN manifest : i \in Nat /\ manifest[i].ok
  BY <1>0 DEF Lines, True
<1>2. ParsedLines = DOMAIN manifest
  BY <1>0, <1>1 DEF ParsedLines
<1>3. \A k \in DOMAIN manifest :
        \A j \in DOMAIN manifest : manifest[j].seq = manifest[k].seq => j <= k
  BY <1>1 DEF Lines
<1> QED BY <1>2, <1>3, Zenon DEF loadManifest

\* What outlives the faults is a prefix of the file.
LEMMA StableBounded ==
  ASSUME Typed, NEW hi, Chain(hi)
  PROVE  \A s \in Seqs : Stable(s) \in Nat /\ Stable(s) <= Len(recs[s])
BY DEF Typed, FilesTyped, Chain, Stable

\* Only the newest file can hold unstable records.
LEMMA OthersStable ==
  ASSUME Typed, NEW hi \in Seqs, Chain(hi)
  PROVE  \A s \in Seqs : s # hi => Stable(s) = Len(recs[s])
<1> SUFFICES ASSUME NEW s \in Seqs, s # hi PROVE Stable(s) = Len(recs[s])
  OBVIOUS
<1>1. CASE s < hi
  BY <1>1, Zenon DEF Chain
<1>2. CASE s > hi
  <2>1. Len(recs[s]) = 0
    BY <1>2 DEF Chain
  <2> QED BY <2>1, StableBounded
<1> QED BY <1>1, <1>2 DEF Seqs

\* Every segment a reader sees is right about where its file starts, and ends
\* no later than what is stable of it.
LEMMA ViewTrue ==
  ASSUME Typed, NEW lo, NEW hi, NEW nlo, NEW nhi, Populated(lo, hi, nlo, nhi), NEW seg \in View
  PROVE  /\ seg \in Segments /\ seg.start = base[seg.seq]
         /\ seg.end <= base[seg.seq] + Stable(seg.seq)
<1>1. loadManifest = {manifest[i] : i \in DOMAIN manifest}
  BY ManifestLoaded, Zenon DEF Populated, Disk
<1>2. loadManifest \subseteq Segments /\ headFile \in Segments
  BY ManifestTyped, Zenon DEF Typed, MetaTyped
<1>3. CASE seg \in loadManifest
  <2>1. True(seg) /\ Stable(seg.seq) = Len(recs[seg.seq])
    BY <1>1, <1>3 DEF Populated, Disk, Lines
  <2> QED BY <1>2, <1>3, <2>1 DEF True, End, Segments, Typed, FilesTyped
<1>4. CASE seg = headFile /\ seg.ok
  BY <1>2, <1>4, Zenon DEF Populated, Disk, HeadTrue
<1> QED BY <1>3, <1>4, Zenon DEF View

\* What a reader can be given is stably in the file its gpidx belongs to.
LEMMA VisibleAt ==
  ASSUME Typed, NEW lo, NEW hi, NEW nlo, NEW nhi, Populated(lo, hi, nlo, nhi), NEW x \in Visible
  PROVE  \E s \in Seqs : At(x, s)
<1>0. PICK seg \in View :
        \E g \in {n \in seg.start..(seg.end - 1) : n - seg.start < Len(recs[seg.seq])} :
          x = <<g, recs[seg.seq][g - seg.start + 1]>>
  BY Zenon DEF Visible
<1>1. PICK g \in seg.start..(seg.end - 1) : x = <<g, recs[seg.seq][g - seg.start + 1]>>
  BY <1>0, Zenon
<1>2. /\ seg \in Segments /\ seg.start = base[seg.seq]
      /\ seg.end <= base[seg.seq] + Stable(seg.seq)
  BY ViewTrue, Zenon
<1>3. seg.seq \in Seqs /\ seg.start \in Nat /\ seg.end \in Nat
  BY <1>2, Zenon DEF Segments
<1>4. Stable(seg.seq) \in Nat
  BY <1>3, StableBounded, Zenon DEF Populated, Disk
<1>5. At(x, seg.seq)
  BY <1>1, <1>2, <1>3, <1>4 DEF At
<1> QED BY <1>3, <1>5, Zenon

\* An empty directory shows a reader nothing.
LEMMA EmptyInvisible ==
  ASSUME Empty PROVE Visible = {}
BY Zenon DEF Empty, Visible, View

\* No gpidx belongs to two files.
LEMMA Disjoint ==
  ASSUME Typed, NEW hi \in Seqs, Chain(hi), NEW s \in Seqs, NEW t \in Seqs, NEW x, NEW y,
         x[1] \in Nat, x[1] = y[1], At(x, s), At(y, t)
  PROVE  s = t
<1>1. /\ Stable(s) \in Nat /\ Stable(s) <= Len(recs[s]) /\ Stable(t) \in Nat
      /\ Stable(t) <= Len(recs[t])
  BY StableBounded, Zenon
<1>2. base[s] \in Nat /\ base[t] \in Nat /\ Len(recs[s]) \in Nat /\ Len(recs[t]) \in Nat
  BY DEF Typed, FilesTyped
<1>3. x[1] < End(s) /\ x[1] < End(t) /\ base[s] <= x[1] /\ base[t] <= x[1]
  <2>1. base[s] <= x[1] /\ x[1] < base[s] + Stable(s)
    BY Zenon DEF At
  <2>2. base[t] <= x[1] /\ x[1] < base[t] + Stable(t)
    BY Zenon DEF At
  <2> QED BY <1>1, <1>2, <2>1, <2>2, SMTT(20) DEF End
<1>4. Len(recs[s]) # 0 /\ Len(recs[t]) # 0
  BY <1>1, <1>2, SMTT(20) DEF At
<1>5. s <= hi /\ t <= hi
  BY <1>4, BoundsAssumption, SMTT(20) DEF Chain, Seqs
<1>6. ~(s < t) /\ ~(t < s)
  BY <1>2, <1>3, <1>5, SMTT(20) DEF Chain, End
<1> QED BY <1>6 DEF Seqs
-----------------------------------------------------------------------------
(* Steps.                                                                  *)

\* No step takes back or moves a stable record.
Grows ==
  \A s \in Seqs : Stable(s) > 0 =>
    /\ base'[s] = base[s] /\ Stable(s)' >= Stable(s)
    /\ \A i \in 1..Stable(s) : recs'[s][i] = recs[s][i]

\* A packet stays where it is if no step shortens a file's stable part.
LEMMA KeptStep ==
  ASSUME Typed, Grows, \A s \in Seqs : Stable(s) \in Nat, (\A s \in Seqs : Stable(s) \in Nat)',
         NEW s \in Seqs, NEW x, x[1] \in Nat, At(x, s)
  PROVE  At(x, s)'
<1>1. Stable(s) \in Nat /\ Stable(s)' \in Nat /\ base[s] \in Nat
  BY Zenon DEF Typed, FilesTyped
<1>2. Stable(s) > 0 /\ x[1] - base[s] + 1 \in 1..Stable(s)
  BY <1>1 DEF At
<1>3. base'[s] = base[s] /\ Stable(s)' >= Stable(s)
  BY <1>2, Zenon DEF Grows
<1>4. recs'[s][x[1] - base[s] + 1] = recs[s][x[1] - base[s] + 1]
  BY <1>2, Zenon DEF Grows
<1> QED BY <1>1, <1>3, <1>4 DEF At

\* A step that leaves files and metadata alone keeps what is said of them.
LEMMA DiskFrame ==
  ASSUME Typed, NEW lo, NEW hi, NEW nlo, NEW nhi, Disk(lo, hi, nlo, nhi),
         UNCHANGED <<contents, meta, synced>>
  PROVE  (Chain(hi) /\ Lines(hi) /\ HeadTrue(nhi))' /\ Grows
<1> USE DEF contents, meta, Stable, StableLines, End
<1>2. Chain(hi)'
  BY Zenon DEF Disk, Chain
<1>3. Lines(hi)'
  BY Zenon DEF Disk, Lines, True
<1>4. HeadTrue(nhi)'
  BY Zenon DEF Disk, HeadTrue
<1>5. Grows
  BY StableBounded DEF Disk, Grows
<1> QED BY <1>2, <1>3, <1>4, <1>5, Zenon

\* The same with the directory's durable names.
LEMMA DiskSame ==
  ASSUME Typed, NEW lo, NEW hi, NEW nlo, NEW nhi, Disk(lo, hi, nlo, nhi),
         UNCHANGED <<contents, meta, synced, named>>
  PROVE  Disk(lo, hi, nlo, nhi)' /\ Grows
BY DiskFrame, Zenon DEF Disk, Span, contents

\* An fsync of the directory.
LEMMA DiskSynced ==
  ASSUME Typed, NEW lo \in Seqs, NEW hi \in Seqs, NEW nlo, NEW nhi \in Seqs \cup {-1},
         Disk(lo, hi, nlo, nhi), UNCHANGED <<contents, meta, synced>>, SyncDir
  PROVE  Disk(lo, hi, lo, hi)' /\ Grows
<1>1. (Chain(hi) /\ Lines(hi) /\ HeadTrue(nhi))' /\ Grows
  BY DiskFrame, Zenon
<1>2. Span(lo, hi, lo, hi)'
  BY BoundsAssumption DEF Disk, Span, SyncDir, contents, Seqs
<1>3. nhi <= hi
  BY DEF Disk, Span, Seqs
<1>4. HeadTrue(hi)'
  <2>1. headFile'.ok => headFile'.seq \in Seqs
    BY Zenon DEF Typed, MetaTyped, Segments, meta
  <2> QED BY <1>1, <1>3, <2>1 DEF HeadTrue, Seqs
<1> QED BY <1>1, <1>2, <1>4, Zenon DEF Disk

\* The process ends with everything on disk stable.
LEMMA ExitStep ==
  ASSUME NEW lo, NEW hi, Exit,
         \A s \in Seqs : Stable(s)' = Len(recs'[s]), StableLines' = Len(manifest')
  PROVE  Writer(lo, hi)' /\ SealedTrue(hi)'
BY Zenon DEF Exit, Writer, Recovering, Running, Creating, SealedTrue, Appending

\* The files on disk are those from the oldest to the newest.
LEMMA SpanEnds ==
  ASSUME NEW lo \in Seqs, NEW hi \in Seqs, NEW nlo, NEW nhi, Span(lo, hi, nlo, nhi)
  PROVE  /\ lo \in onDisk /\ hi \in onDisk /\ lo <= hi
         /\ \A s : s \in onDisk <=> s \in Seqs /\ lo <= s /\ s <= hi
BY BoundsAssumption DEF Span, Seqs

\* Tick (spool.go) keeps the invariant.
LEMMA TickStep ==
  ASSUME Typed, NEW lo \in Seqs, NEW hi \in Seqs, NEW nlo \in Seqs, NEW nhi \in Seqs \cup {-1},
         Populated(lo, hi, nlo, nhi), Tick
  PROVE  Populated(lo, hi, nlo, nhi)' /\ Grows
<1>1. UNCHANGED <<contents, meta, synced, named>>
  BY Zenon DEF Tick
<1>2. Disk(lo, hi, nlo, nhi)' /\ Grows
  BY <1>1, DiskSame, Zenon DEF Populated
<1>3. goal' = "rotate" => recs[hi] # <<>>
  BY DEF Tick, Populated, Writer, Running, Appending, End, Typed, FilesTyped
<1>4. Running(hi)'
  BY <1>1, <1>3, Zenon DEF Tick, Populated, Writer, Running, Appending, End, Unsealed, Stable, contents, meta
<1>5. Writer(lo, hi)'
  BY <1>1, <1>4, Zenon DEF Tick, Populated, Writer, Recovering, Creating, StableLines, meta
<1>6. SealedTrue(hi)'
  <2>1. /\ onDisk' = onDisk /\ recs' = recs /\ base' = base /\ manifest' = manifest
        /\ sealed' = sealed /\ pc = "idle" /\ pc' = "sync" /\ SealedTrue(hi)
    BY <1>1, Zenon DEF Tick, Populated, contents, meta
  <2>2. \A seg \in sealed' : (True(seg) /\ ~Unsealed(seg.seq))'
    BY <2>1, Zenon DEF SealedTrue, True, End, Unsealed
  <2>3. \A s \in onDisk' : s < hi => \E seg \in sealed' : seg.seq = s
    BY <2>1 DEF SealedTrue
  <2>4. pc' # "create" /\ pc' # "open" /\ pc' # "scan"
    BY <2>1
  <2> QED BY <2>2, <2>3, <2>4, Zenon DEF SealedTrue
<1> QED BY <1>2, <1>5, <1>6, Zenon DEF Populated

\* The steps of Reap that unlink nothing, and a reader's flock, keep the invariant.
LEMMA QuietSteps ==
  ASSUME Typed, NEW lo \in Seqs, NEW hi \in Seqs, NEW nlo \in Seqs, NEW nhi \in Seqs \cup {-1},
         Populated(lo, hi, nlo, nhi), ReapBegin \/ ReapEnd \/ ReaderFlock
  PROVE  Populated(lo, hi, nlo, nhi)' /\ Grows
<1>1. UNCHANGED <<contents, meta, synced, named>>
  BY Zenon DEF ReapBegin, ReapEnd, ReaderFlock
<1>2. Disk(lo, hi, nlo, nhi)' /\ Grows
  BY <1>1, DiskSame, Zenon DEF Populated
<1>3. Running(hi)' /\ Recovering(lo, hi)' /\ Creating(hi)'
  BY <1>1, ZenonT(60) DEF ReapBegin, ReapEnd, ReaderFlock, procVars, Populated, Writer, Running, Recovering,
       Creating, Appending, End, Unsealed, Stable, StableLines, contents, meta
<1>4. Writer(lo, hi)'
  BY <1>1, <1>3, Zenon DEF ReapBegin, ReapEnd, ReaderFlock, procVars, Populated, Writer, StableLines, meta
<1>5. SealedTrue(hi)'
  BY <1>1, Zenon DEF ReapBegin, ReapEnd, ReaderFlock, procVars, Populated, SealedTrue, True, End, Unsealed, contents, meta
<1> QED BY <1>2, <1>4, <1>5, Zenon DEF Populated

\* The start of recoverSpool keeps the invariant.
LEMMA RecoverBeginStep ==
  ASSUME Typed, NEW lo \in Seqs, NEW hi \in Seqs, NEW nlo \in Seqs, NEW nhi \in Seqs \cup {-1},
         Populated(lo, hi, nlo, nhi), RecoverBegin
  PROVE  Populated(lo, hi, nlo, nhi)' /\ Grows
<1>1. UNCHANGED <<contents, meta, synced, named>>
  BY Zenon DEF RecoverBegin
<1>2. Disk(lo, hi, nlo, nhi)' /\ Grows
  BY <1>1, DiskSame, Zenon DEF Populated
<1>3. lo \in onDisk /\ nextSeq = 0 /\ 0 <= hi
  <2>1. lo \in onDisk
    BY SpanEnds, Zenon DEF Populated, Disk
  <2>2. nextSeq = 0
    BY Zenon DEF RecoverBegin, Populated, Writer, Recovering
  <2> QED BY <2>1, <2>2 DEF Seqs
<1>4. pc' = "scan" /\ nextSeq' = 0 /\ active' = NoSegment /\ reseal' = <<>>
  BY <1>3, Zenon DEF RecoverBegin, Populated, Writer, Recovering
<1>5. Writer(lo, hi)'
  BY <1>1, <1>3, <1>4, Zenon DEF RecoverBegin, Populated, Writer, Recovering, Running, Creating, Appending,
       Stable, StableLines, contents, meta
<1>6. SealedTrue(hi)'
  <2>1. /\ onDisk' = onDisk /\ recs' = recs /\ base' = base /\ manifest' = manifest
        /\ sealed' = sealed /\ SealedTrue(hi)
    BY <1>1, Zenon DEF RecoverBegin, Populated, contents, meta
  <2>2. \A seg \in sealed' : (True(seg) /\ ~Unsealed(seg.seq))'
    BY <2>1, Zenon DEF SealedTrue, True, End, Unsealed
  <2>3. \A s \in onDisk : ~(s < 0)
    BY DEF Typed, FilesTyped, Seqs
  <2> QED BY <1>4, <2>1, <2>2, <2>3, Zenon DEF SealedTrue
<1> QED BY <1>2, <1>5, <1>6, Zenon DEF Populated
\* Which file the scan looks at next, and what the running counter is then.
LEMMA ScanAt ==
  ASSUME Typed, NEW lo \in Seqs, NEW hi \in Seqs, NEW nlo \in Seqs, NEW nhi \in Seqs \cup {-1},
         Populated(lo, hi, nlo, nhi), pc = "scan", NEW s \in onDisk, ScanNext(s)
  PROVE  /\ s \in Seqs /\ lo <= s /\ s <= hi /\ (ScanLast(s) <=> s = hi)
         /\ ScanFirst => s = lo
         /\ ~ScanFirst => s = nextSeq /\ head = base[s] /\ lo < s
<1>1. /\ lo \in onDisk /\ hi \in onDisk /\ lo <= hi
      /\ \A t : t \in onDisk <=> t \in Seqs /\ lo <= t /\ t <= hi
  BY SpanEnds, Zenon DEF Populated, Disk
<1>2. nextSeq \in Nat /\ nextSeq <= hi /\ (nextSeq = 0 \/ (lo < nextSeq /\ head = base[nextSeq]))
  BY Zenon DEF Typed, MemTyped, Populated, Writer, Recovering
<1>3. s \in Seqs /\ lo <= s /\ s <= hi /\ (ScanLast(s) <=> s = hi)
  BY <1>1 DEF ScanLast, Seqs
<1>4. CASE nextSeq = 0
  <2>1. ScanFirst /\ s = lo
    BY <1>1, <1>3, <1>4 DEF ScanFirst, ScanNext, Seqs
  <2> QED BY <1>3, <2>1, Zenon
<1>5. CASE lo < nextSeq /\ head = base[nextSeq]
  <2>1. ~ScanFirst
    BY <1>1, <1>2, <1>5 DEF ScanFirst, Seqs
  <2>2. nextSeq \in onDisk
    BY <1>1, <1>2, <1>5, BoundsAssumption DEF Seqs
  <2>3. s = nextSeq
    BY <1>3, <2>2 DEF ScanNext, Seqs
  <2> QED BY <1>3, <1>5, <2>1, <2>3, Zenon
<1> QED BY <1>2, <1>4, <1>5, Zenon

\* A line is there for every file but the newest, and is right.
LEMMA LineOf ==
  ASSUME Typed, NEW hi \in Seqs, Lines(hi)
  PROVE  /\ \A s \in Seqs : s < hi => ~Unsealed(s)
         /\ \A s : Unsealed(s) <=> \A seg \in loadManifest : seg.seq # s
         /\ \A seg \in loadManifest : seg \in Segments /\ True(seg) /\ seg.seq \in Seqs
<1>1. loadManifest = {manifest[i] : i \in DOMAIN manifest}
  BY ManifestLoaded, Zenon
<1>2. loadManifest \subseteq Segments
  BY ManifestTyped, Zenon DEF Typed, MetaTyped
<1>3. DOMAIN manifest = 1..Len(manifest) /\ Len(manifest) \in Nat /\ StableLines <= Len(manifest)
  BY DEF Typed, MetaTyped, Lines, StableLines
<1>4. StableLines \in Nat
  BY <1>3, Zenon DEF Typed, MetaTyped, StableLines
<1>5. \A s \in Seqs : s < hi => ~Unsealed(s)
  BY <1>3, <1>4 DEF Lines, Unsealed
<1> QED BY <1>1, <1>2, <1>5 DEF Unsealed, Lines, Segments

\* Taking a sealed segment's range from the manifest keeps the invariant.
LEMMA RecoverSealedStep ==
  ASSUME Typed, NEW lo \in Seqs, NEW hi \in Seqs, NEW nlo \in Seqs, NEW nhi \in Seqs \cup {-1},
         Populated(lo, hi, nlo, nhi), RecoverSealed
  PROVE  Populated(lo, hi, nlo, nhi)' /\ Grows
<1>1. UNCHANGED <<contents, meta, synced, named>> /\ pc = "scan"
  BY Zenon DEF RecoverSealed
<1>2. Disk(lo, hi, nlo, nhi)' /\ Grows
  BY <1>1, DiskSame, Zenon DEF Populated
<1>3. PICK seg \in loadManifest :
        /\ seg.seq \in onDisk /\ ScanNext(seg.seq)
        /\ head' = seg.end /\ sealed' = sealed \cup {seg}
        /\ nextSeq' = seg.seq + 1
        /\ pc' = IF ScanLast(seg.seq) THEN "open" ELSE "scan"
  BY Zenon DEF RecoverSealed
<1>4. /\ seg.seq \in Seqs /\ lo <= seg.seq /\ seg.seq <= hi /\ (ScanLast(seg.seq) <=> seg.seq = hi)
      /\ ScanFirst => seg.seq = lo
      /\ ~ScanFirst => seg.seq = nextSeq /\ head = base[seg.seq] /\ lo < seg.seq
  BY <1>1, <1>3, ScanAt, Zenon
<1>5. True(seg) /\ ~Unsealed(seg.seq)
  BY <1>3, LineOf, Zenon DEF Populated, Disk
<1>6. seg.seq # hi => seg.seq + 1 \in Seqs /\ base[seg.seq + 1] = End(seg.seq) /\ seg.seq + 1 <= hi
  <2>1. seg.seq # hi => seg.seq < hi /\ seg.seq + 1 \in Seqs /\ seg.seq + 1 <= hi
    BY <1>4, BoundsAssumption DEF Seqs
  <2>2. \A s \in Seqs : s + 1 \in Seqs /\ s < hi => base[s + 1] = End(s)
    BY Zenon DEF Populated, Disk, Chain
  <2> QED BY <1>4, <2>1, <2>2, Zenon
<1>7. head' = End(seg.seq) /\ active = NoSegment /\ active' = NoSegment /\ reseal' = <<>>
  BY <1>1, <1>3, <1>5, Zenon DEF True, RecoverSealed, Populated, Writer, Recovering
<1>8. Recovering(lo, hi)'
  <2>1. CASE seg.seq = hi
    BY <1>1, <1>3, <1>4, <1>5, <1>7, <2>1, Zenon DEF Populated, Writer, Recovering, Stable, End,
         Unsealed, contents, meta
  <2>2. CASE seg.seq # hi
    BY <1>1, <1>3, <1>4, <1>6, <1>7, <2>2, SMTT(20) DEF Populated, Writer, Recovering, Stable, contents, Seqs
  <2> QED BY <2>1, <2>2, Zenon
<1>9. Writer(lo, hi)'
  BY <1>1, <1>3, <1>7, <1>8, Zenon DEF Populated, Writer, Running, Creating, Appending, StableLines, meta
<1>10. SealedTrue(hi)'
  <2>1. \A s \in sealed' : (True(s) /\ ~Unsealed(s.seq))'
    BY <1>1, <1>3, <1>4, <1>5, ZenonT(60) DEF Populated, SealedTrue, True, End, Unsealed, contents, meta
  <2>2. ASSUME NEW s \in onDisk, pc' = "scan" => s < nextSeq'
        PROVE  \E g \in sealed' : g.seq = s
    <3>1. s \in Seqs /\ lo <= s /\ s < seg.seq + 1
      BY <1>3, <1>4, <2>2, SpanEnds DEF Populated, Disk, Seqs
    <3>2. CASE s = seg.seq
      BY <1>3, <3>2, Zenon
    <3>3. CASE s # seg.seq
      <4>1. s < nextSeq /\ s < hi
        BY <1>4, <3>1, <3>3 DEF Seqs
      <4> QED BY <1>1, <1>3, <2>2, <4>1, Zenon DEF Populated, SealedTrue
    <3> QED BY <3>2, <3>3, Zenon
  <2> QED BY <1>1, <2>1, <2>2, Zenon DEF SealedTrue, contents
<1> QED BY <1>2, <1>9, <1>10, Zenon DEF Populated
\* Indexes of the manifest's lines, and the files they are about.
LEMMA LinesSized ==
  ASSUME Typed, NEW hi, Lines(hi)
  PROVE  /\ DOMAIN manifest = 1..Len(manifest) /\ Len(manifest) \in Nat
         /\ StableLines \in Nat /\ StableLines <= Len(manifest)
         /\ \A i \in DOMAIN manifest : manifest[i].seq \in Seqs
         /\ \A s \in Seqs : ~Unsealed(s) =>
              s \in hdr /\ s <= hi /\ Stable(s) = Len(recs[s]) /\ recs[s] # <<>>
<1>1. manifest \in Seq(Segments) /\ manSynced \in Nat /\ manSynced <= Len(manifest)
  BY Zenon DEF Typed, MetaTyped, Lines
<1>2. DOMAIN manifest = 1..Len(manifest) /\ Len(manifest) \in Nat
  BY <1>1
<1>3. \A i \in DOMAIN manifest : manifest[i].seq \in Seqs
  <2>1. \A i \in DOMAIN manifest : manifest[i] \in Segments
    BY <1>1, <1>2
  <2> QED BY <2>1, Zenon DEF Segments
<1>4. StableLines \in Nat /\ StableLines <= Len(manifest)
  BY <1>1, <1>2 DEF StableLines
<1>5. ASSUME NEW s \in Seqs, ~Unsealed(s)
      PROVE  s \in hdr /\ s <= hi /\ Stable(s) = Len(recs[s]) /\ recs[s] # <<>>
  <2>1. PICK i \in DOMAIN manifest : manifest[i].seq = s
    BY <1>5, Zenon DEF Unsealed
  <2>2. True(manifest[i])
    BY Zenon DEF Lines
  <2>3. recs[s] # <<>>
    BY <2>1, <2>2 DEF True, End, Typed, FilesTyped
  <2> QED BY <2>1, <2>3, Zenon DEF Lines
<1> QED BY <1>2, <1>3, <1>4, <1>5, Zenon

\* The manifest stays right when it only loses unstable lines, the files it lists
\* do not change, and a newer file comes after all stable lines.
LEMMA LinesKept ==
  ASSUME Typed, NEW hi \in Seqs, NEW new \in Seqs, Lines(hi), manSynced' <= Len(manifest'),
         StableLines \in Nat, StableLines' \in Nat, StableLines <= StableLines',
         StableLines' <= Len(manifest'), Len(manifest') \in Nat,
         DOMAIN manifest' = 1..Len(manifest'),
         \A i \in DOMAIN manifest' : i \in DOMAIN manifest /\ manifest'[i] = manifest[i],
         \A s \in Seqs : ~Unsealed(s) =>
           /\ base'[s] = base[s] /\ recs'[s] = recs[s] /\ Stable(s)' = Len(recs'[s])
           /\ s \in hdr' /\ s <= new,
         \A s \in Seqs : s < new => s < hi \/ \E i \in 1..StableLines : manifest[i].seq = s
  PROVE  Lines(new)'
<1>1. \A i \in DOMAIN manifest' : /\ manifest'[i] = manifest[i] /\ manifest[i].seq \in Seqs
                                  /\ ~Unsealed(manifest[i].seq) /\ True(manifest[i])
  BY LinesSized, Zenon DEF Lines, Unsealed
<1>2. (\A i \in DOMAIN manifest : True(manifest[i]))'
  BY <1>1 DEF True, End
<1>3. (\A i, j \in DOMAIN manifest : manifest[i].seq = manifest[j].seq => i = j)'
  BY Zenon DEF Lines
<1>4. ASSUME NEW s \in Seqs, s < new PROVE \E i \in 1..StableLines' : manifest'[i].seq = s
  <2>1. PICK i \in 1..StableLines : manifest[i].seq = s
    BY <1>4, Zenon DEF Lines
  <2>2. i \in 1..StableLines' /\ i \in DOMAIN manifest'
    BY <2>1
  <2> QED BY <2>1, <2>2, Zenon
<1>5. (\A i \in DOMAIN manifest :
         /\ manifest[i].seq <= new /\ manifest[i].seq \in hdr
         /\ Stable(manifest[i].seq) = Len(recs[manifest[i].seq]))'
  BY <1>1, Zenon DEF Stable
<1> QED BY <1>2, <1>3, <1>4, <1>5, Zenon DEF Lines

\* Here the anchor is needed: a file scanned first and without a line starts at 0.
LEMMA RecoverActiveStep ==
  ASSUME Typed, NEW lo \in Seqs, NEW hi \in Seqs, NEW nlo \in Seqs, NEW nhi \in Seqs \cup {-1},
         Populated(lo, hi, nlo, nhi), RecoverActive, OldestAnchored
  PROVE  Populated(lo, hi, nlo, nhi)' /\ Grows
<1>1. PICK s \in onDisk :
        /\ RecoverUnsealed(s) /\ ScanLast(s)
        /\ hdr' = hdr \cup {s}
        /\ synced' = IF s \in torn \/ s \notin hdr THEN [synced EXCEPT ![s] = Len(recs[s])]
                                                   ELSE synced
        /\ active' = [seq |-> s, start |-> RunningStart]
        /\ durable' = Len(recs[s])
        /\ pc' = "open"
        /\ UNCHANGED <<sealed, reseal>>
  BY Zenon DEF RecoverActive
<1>2. /\ pc = "scan" /\ ScanNext(s) /\ head' = RunningStart + Len(recs[s]) /\ nextSeq' = s + 1
      /\ UNCHANGED <<onDisk, recs, base, meta, named>>
      /\ \A seg \in loadManifest : seg.seq # s
  BY <1>1, Zenon DEF RecoverUnsealed
<1>3. s = hi /\ lo <= hi /\ (ScanFirst => s = lo) /\ (~ScanFirst => head = base[s])
  BY <1>1, <1>2, ScanAt, Zenon
<1>4. Unsealed(hi)
  BY <1>2, <1>3, LineOf, Zenon DEF Populated, Disk
<1>5. RunningStart = base[hi]
  <2>1. CASE ScanFirst
    <3>1. \A t \in onDisk : hi <= t
      BY <1>3, <2>1, SpanEnds, Zenon DEF Populated, Disk
    <3>2. base[hi] = 0
      BY <1>1, <1>2, <1>3, <3>1, Zenon DEF OldestAnchored
    <3> QED BY <2>1, <3>2, Zenon DEF RunningStart
  <2>2. CASE ~ScanFirst
    BY <1>3, <2>2, Zenon DEF RunningStart
  <2> QED BY <2>1, <2>2, Zenon
<1>6. \A t \in Seqs : Stable(t) = Len(recs[t]) /\ Len(recs[t]) \in Nat
  BY <1>2 DEF Populated, Writer, Recovering, Typed, FilesTyped
<1>7. \A t \in Seqs : Stable(t)' = Stable(t)
  BY <1>1, <1>2, <1>3, <1>6, Zenon DEF Stable, Typed, FilesTyped
<1>8. \A t \in Seqs : synced'[t] <= Len(recs'[t])
  <2>1. \A t \in Seqs : synced[t] <= Len(recs[t])
    BY Zenon DEF Populated, Disk, Chain
  <2>2. \A t \in Seqs : synced'[t] = synced[t] \/ synced'[t] = Len(recs[t])
    BY <1>1, Zenon DEF Typed, FilesTyped
  <2>3. \A t \in Seqs : Len(recs[t]) <= Len(recs[t])
    BY <1>6
  <2> QED BY <1>2, <2>1, <2>2, <2>3, Zenon
<1>9. Disk(lo, hi, nlo, nhi)'
  <2>1. Span(lo, hi, nlo, nhi)'
    BY <1>2, Zenon DEF Populated, Disk, Span
  <2>2. Chain(hi)'
    BY <1>1, <1>2, <1>7, <1>8, ZenonT(60) DEF Populated, Disk, Chain, End
  <2>3. Lines(hi)'
    <3>1. /\ DOMAIN manifest = 1..Len(manifest) /\ Len(manifest) \in Nat
          /\ StableLines \in Nat /\ StableLines <= Len(manifest)
          /\ \A t \in Seqs : ~Unsealed(t) => t \in hdr /\ t <= hi
      BY LinesSized, Zenon DEF Populated, Disk
    <3>2. StableLines' = StableLines /\ manifest' = manifest /\ manSynced' <= Len(manifest')
      BY <1>2, Zenon DEF Populated, Disk, Lines, StableLines, meta
    <3>3. StableLines <= StableLines'
      BY <3>1, <3>2
    <3>4. \A t \in Seqs : ~Unsealed(t) => /\ base'[t] = base[t] /\ recs'[t] = recs[t]
                                         /\ Stable(t)' = Len(recs'[t]) /\ t \in hdr' /\ t <= hi
      BY <1>1, <1>2, <1>6, <1>7, <3>1, Zenon
    <3> QED BY <3>1, <3>2, <3>3, <3>4, LinesKept, Zenon DEF Populated, Disk
  <2>4. HeadTrue(nhi)'
    BY <1>2, <1>7, Zenon DEF Populated, Disk, HeadTrue, meta, Typed, MetaTyped, Segments
  <2> QED BY <2>1, <2>2, <2>3, <2>4, Zenon DEF Disk
<1>10. Grows
  BY <1>2, <1>6, <1>7 DEF Grows
<1>11. Recovering(lo, hi)'
  BY <1>1, <1>2, <1>3, <1>4, <1>5, <1>6, <1>7, Zenon DEF Recovering, End, Unsealed, meta
<1>12. Writer(lo, hi)'
  BY <1>1, <1>2, <1>11, Zenon DEF Populated, Writer, Running, Creating, Appending, StableLines, meta
<1>13. SealedTrue(hi)'
  <2>1. \A seg \in sealed' : (True(seg) /\ ~Unsealed(seg.seq))'
    BY <1>1, <1>2, Zenon DEF Populated, SealedTrue, True, End, Unsealed, meta
  <2>2. ASSUME NEW t \in onDisk, t < hi
        PROVE  \E seg \in sealed' : seg.seq = t
    <3>1. t < nextSeq
      <4>1. t \in Seqs /\ lo <= t
        BY <2>2, SpanEnds, Zenon DEF Populated, Disk
      <4>2. (ScanFirst => s = lo) /\ (~ScanFirst => s = nextSeq)
        BY <1>1, <1>2, ScanAt, Zenon
      <4> QED BY <1>3, <2>2, <4>1, <4>2 DEF Seqs
    <3> QED BY <1>1, <1>2, <2>2, <3>1, Zenon DEF Populated, SealedTrue
  <2>3. active' # NoSegment
    BY <1>1, <1>3 DEF NoSegment, Seqs
  <2> QED BY <1>1, <1>2, <2>1, <2>2, <2>3, Zenon DEF SealedTrue
<1> QED BY <1>9, <1>10, <1>12, <1>13, Zenon DEF Populated

\* The scan never meets an unlisted file below the newest, nor a range out of line.
LEMMA ScanClean ==
  ASSUME Typed, NEW lo \in Seqs, NEW hi \in Seqs, NEW nlo \in Seqs, NEW nhi \in Seqs \cup {-1},
         Populated(lo, hi, nlo, nhi)
  PROVE  ~RecoverUnlisted /\ ~RecoverRefuse
<1>1. ASSUME NEW s \in onDisk, pc = "scan", ScanNext(s), \A seg \in loadManifest : seg.seq # s
      PROVE  ScanLast(s)
  <2>1. s \in Seqs /\ s <= hi /\ (ScanLast(s) <=> s = hi)
    BY <1>1, ScanAt, Zenon
  <2>2. Unsealed(s) /\ (s < hi => ~Unsealed(s))
    BY <1>1, <2>1, LineOf, Zenon DEF Populated, Disk
  <2> QED BY <2>1, <2>2 DEF Seqs
<1>2. ASSUME NEW s \in onDisk, pc = "scan", ScanNext(s), ~ScanFirst,
             NEW seg \in loadManifest, seg.seq = s
      PROVE  seg.start = head
  BY <1>2, ScanAt, LineOf, Zenon DEF Populated, Disk, True
<1> QED BY <1>1, <1>2, Zenon DEF RecoverUnlisted, RecoverUnsealed, RecoverRefuse
\* NewWriter's opening of the manifest keeps the invariant.
LEMMA OpenManifestStep ==
  ASSUME Typed, NEW lo \in Seqs, NEW hi \in Seqs, NEW nlo \in Seqs, NEW nhi \in Seqs \cup {-1},
         Populated(lo, hi, nlo, nhi), OpenManifest
  PROVE  Populated(lo, hi, lo, hi)' /\ Grows
<1>1. UNCHANGED <<contents, meta, synced>> /\ SyncDir /\ pc = "open"
  BY Zenon DEF OpenManifest
<1>2. Disk(lo, hi, lo, hi)' /\ Grows
  BY <1>1, DiskSynced, Zenon DEF Populated
<1>3. reseal = <<>> /\ reseal' = <<>> /\ StableLines = Len(manifest) /\ StableLines' = Len(manifest')
  BY <1>1, Zenon DEF OpenManifest, Populated, Writer, StableLines, meta
<1>4. hi \in named'
  BY <1>1, SpanEnds, Zenon DEF Populated, Disk, SyncDir
<1>5. ASSUME active = NoSegment PROVE Writer(lo, hi)'
  <2>1. pc' = "create" /\ nextSeq' = nextSeq + 1 /\ head' = head
    BY <1>3, <1>5, Zenon DEF OpenManifest, AfterReseal
  <2>2. nextSeq = hi + 1 /\ head = End(hi) /\ ~Unsealed(hi)
    BY <1>1, <1>5 DEF Populated, Writer, Recovering, NoSegment, Seqs
  <2>3. \E i \in 1..StableLines' : manifest'[i].seq = hi
    BY <1>1, <1>3, <2>2, LinesSized, Zenon DEF Unsealed, Populated, Disk, meta
  <2>4. Creating(hi)'
    BY <1>1, <1>4, <2>1, <2>2, <2>3 DEF Creating, End, contents, Seqs
  <2> QED BY <1>3, <2>1, <2>4, Zenon DEF Writer, Recovering, Running, Appending
<1>6. ASSUME active # NoSegment PROVE Writer(lo, hi)'
  <2>1. pc' = "publish" /\ UNCHANGED <<nextSeq, head, active, durable, goal>>
    BY <1>3, <1>6, Zenon DEF OpenManifest, AfterReseal
  <2>2. /\ nextSeq = hi + 1 /\ head = End(hi) /\ active = [seq |-> hi, start |-> base[hi]]
        /\ durable = Len(recs[hi]) /\ Unsealed(hi) /\ hi \in hdr /\ Stable(hi) = Len(recs[hi])
    BY <1>1, <1>6, Zenon DEF Populated, Writer, Recovering
  <2>3. goal = "none"
    BY <1>1, Zenon DEF Typed, Control
  <2>4. Running(hi)'
    BY <1>1, <1>4, <2>1, <2>2, <2>3 DEF Running, End, Unsealed, Stable, contents, meta, Typed, FilesTyped
  <2> QED BY <1>3, <2>1, <2>4, Zenon DEF Writer, Recovering, Creating
<1>7. SealedTrue(hi)'
  <2>1. pc' # "open" /\ (pc' = "create" => active = NoSegment) /\ sealed' = sealed
    BY <1>3, Zenon DEF OpenManifest, AfterReseal
  <2> QED BY <1>1, <2>1, Zenon DEF Populated, SealedTrue, True, End, Unsealed, contents, meta
<1> QED BY <1>2, <1>5, <1>6, <1>7, Zenon DEF Populated
=============================================================================

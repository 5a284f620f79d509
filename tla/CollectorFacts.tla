---------------------------- MODULE CollectorFacts ----------------------------
(***************************************************************************)
(* What the proofs about the collector keep needing: the parts of the      *)
(* types, the fields of states and frames, what the operations of the      *)
(* mirror and the demux do to the files, and what a step leaves alone.     *)
(*                                                                         *)
(* Three frame lemmas carry most steps: what is said about the files and a *)
(* resume point survives when files are only cut and the agent's head and  *)
(* retention edge only grow (DurableKept, ProcessKept); so does what is    *)
(* said about the connection (LinkKept).                                   *)
(***************************************************************************)
EXTENDS CollectorInvariant, TLAPS

-----------------------------------------------------------------------------
(* Sequences.                                                              *)

LEMMA SeqLen ==
  ASSUME NEW S, NEW q \in Seq(S)
  PROVE  Len(q) \in Nat /\ (q = <<>> <=> Len(q) = 0) /\ \A i \in 1..Len(q) : q[i] \in S
  OBVIOUS

LEMMA SeqConcat ==
  ASSUME NEW S, NEW p \in Seq(S), NEW q \in Seq(S)
  PROVE  /\ p \o q \in Seq(S) /\ Len(p \o q) = Len(p) + Len(q)
         /\ \A i \in 1..(Len(p) + Len(q)) : (p \o q)[i] = IF i <= Len(p) THEN p[i] ELSE q[i - Len(p)]
  OBVIOUS

LEMMA SeqAppend ==
  ASSUME NEW S, NEW q \in Seq(S), NEW e \in S
  PROVE  /\ Append(q, e) \in Seq(S) /\ Len(Append(q, e)) = Len(q) + 1
         /\ Append(q, e)[Len(q) + 1] = e /\ \A i \in 1..Len(q) : Append(q, e)[i] = q[i]
  OBVIOUS

LEMMA SeqTail ==
  ASSUME NEW S, NEW q \in Seq(S), q # <<>>
  PROVE  /\ Tail(q) \in Seq(S) /\ Len(Tail(q)) = Len(q) - 1
         /\ \A i \in 1..Len(Tail(q)) : Tail(q)[i] = q[i + 1]
  OBVIOUS

\* A prefix of a sequence.
LEMMA SeqPrefix ==
  ASSUME NEW S, NEW q \in Seq(S), NEW n \in 0..Len(q)
  PROVE  /\ SubSeq(q, 1, n) \in Seq(S) /\ Len(SubSeq(q, 1, n)) = n
         /\ \A i \in 1..n : SubSeq(q, 1, n)[i] = q[i]
         /\ n = Len(q) => SubSeq(q, 1, n) = q
  OBVIOUS

-----------------------------------------------------------------------------
(* The parts of the types.                                                 *)

TypedSealed == Typed /\ Sealed
Pubs == [committed : Nat, session : Sessions, len : Nat]

\* The parts of the types that no step of the agent and the link changes.
MirrorTyped ==
  /\ files \in [Sessions -> Seq(Packets)] /\ created \subseteq Sessions /\ named \subseteq Sessions
  /\ header \in [Sessions -> Garbage..MaxEpoch] /\ gh \in 0..MaxEpoch
  /\ resume \in States /\ kept \in States /\ st \in States
  /\ fsynced \in [Sessions -> Nat]
  /\ mfile \in Sessions \cup {-1} /\ fileLen \in Nat /\ todo \in Seq(Packets)
  /\ pub \in Pubs
  /\ outages \in 0..MaxOutages
  /\ resume.start <= resume.committed /\ kept.start <= kept.committed /\ st.start <= st.committed
LinkTyped ==
  /\ aEpoch \in EpochIds /\ aHead \in [EpochIds -> 0..MaxGpidx] /\ aOldest \in [EpochIds -> 0..MaxGpidx]
  /\ conn \in {"up", "down"} /\ pos \in 0..MaxGpidx /\ wire \in Seq(Frames)
  /\ \A e \in EpochIds : aOldest[e] <= aHead[e]
PcTyped ==
  mpc \in {"down", "idle", "reading", "write", "sync", "open", "persist", "adopt",
           "publish", "publishLen"}

LEMMA TypedParts == Typed <=> MirrorTyped /\ LinkTyped /\ PcTyped
  BY Zenon DEF Typed, CollectorTypeOK, MirrorTyped, LinkTyped, PcTyped, Pubs

LEMMA ConstFacts ==
  /\ MaxSession \in Nat /\ MaxOutages \in Nat /\ MaxGpidx \in Nat \ {0} /\ MaxEpoch \in Nat \ {0}
  /\ MaxBatch \in Nat \ {0} /\ 0 \in Sessions /\ Sessions \subseteq Nat /\ EpochIds \subseteq Nat
  /\ 1 \in EpochIds
  BY MirrorAssumption, CollectorAssumption DEF Sessions, EpochIds

-----------------------------------------------------------------------------
(* Records and sequences.                                                  *)

LEMMA StateFields ==
  ASSUME NEW r \in States
  PROVE  /\ r.committed \in Nat /\ r.session \in Sessions /\ r.session \in Nat /\ r.start \in Nat
         /\ r.start \in 0..MaxGpidx /\ r.epoch \in Nat /\ r.epoch \in 0..MaxEpoch
<1>1. /\ r.committed \in Nat /\ r.session \in Sessions
      /\ r.start \in 0..MaxGpidx /\ r.epoch \in 0..MaxEpoch
  BY DEF States
<1>2. r.session \in Nat
  BY <1>1, ConstFacts, Zenon
<1>3. r.start \in Nat
  BY <1>1, ConstFacts
<1>4. r.epoch \in Nat
  BY <1>1, ConstFacts
<1> QED BY <1>1, <1>2, <1>3, <1>4

LEMMA CommittedExcept ==
  ASSUME NEW r \in States, NEW c \in Nat, NEW q, q = [r EXCEPT !.committed = c]
  PROVE  /\ q \in States /\ q.committed = c
         /\ q.session = r.session /\ q.start = r.start /\ q.epoch = r.epoch
  BY DEF States

LEMMA EpochExcept ==
  ASSUME NEW r \in States, NEW e \in EpochIds, NEW q, q = [r EXCEPT !.epoch = e]
  PROVE  /\ q \in States /\ q.epoch = e
         /\ q.session = r.session /\ q.start = r.start /\ q.committed = r.committed
  BY ConstFacts DEF States, EpochIds

LEMMA PubExcept ==
  ASSUME NEW p \in Pubs, NEW r \in States, NEW q, q = [p EXCEPT !.committed = r.committed, !.session = r.session]
  PROVE  q \in Pubs /\ q.committed = r.committed /\ q.session = r.session /\ q.len = p.len
  BY Zenon DEF Pubs, States

LEMMA PubLenExcept ==
  ASSUME NEW p \in Pubs, NEW n \in Nat, NEW q, q = [p EXCEPT !.len = n]
  PROVE  q \in Pubs /\ q.committed = p.committed /\ q.session = p.session /\ q.len = n
  BY DEF Pubs

LEMMA PairSeq ==
  ASSUME NEW S, NEW a \in S, NEW b \in S, NEW q, q = <<a>> \o <<b>>
  PROVE  q \in Seq(S) /\ Len(q) = 2 /\ q[1] = a /\ q[2] = b
  OBVIOUS

LEMMA OneSeq ==
  ASSUME NEW S, NEW a \in S, NEW q, q = <<a>> \o <<>>
  PROVE  q \in Seq(S) /\ Len(q) = 1 /\ q[1] = a
  OBVIOUS

-----------------------------------------------------------------------------
(* The mirror's operations.                                                *)

MirrorSound == MirrorTyped /\ PcTyped /\ Sealed

\* What openSession finds of a state's committed records.
LEMMA HavesAre ==
  ASSUME MirrorTyped, NEW r \in States, r.start <= r.committed, NEW n \in Haves(r)
  PROVE  n \in 0..Len(files[r.session]) /\ n \in 0..(r.committed - r.start)
<1>1. r.session \in Sessions /\ r.committed \in Nat /\ r.start \in Nat
  BY ConstFacts DEF States
<1>2. Len(files[r.session]) \in Nat
  BY <1>1, SeqLen DEF MirrorTyped
<1> QED BY <1>1, <1>2 DEF Haves

\* openSession on a state that is not behind the durable one.
LEMMA OpenFileSound ==
  ASSUME MirrorTyped, Sealed, NEW s \in Sessions, NEW n \in 0..Len(files[s]), OpenFile(s, n)
  PROVE  /\ files' \in [Sessions -> Seq(Packets)] /\ created' \subseteq Sessions
         /\ header' \in [Sessions -> Garbage..MaxEpoch] /\ fsynced' \in [Sessions -> Nat]
         /\ s \in created' /\ created \subseteq created' /\ created' \subseteq created \cup {s}
         /\ \A t \in Sessions : fsynced'[t] <= Len(files'[t])
         /\ \A t \in Sessions \ created' : files'[t] = <<>>
         /\ \A t \in Sessions \ {s} : files'[t] = files[t] /\ fsynced'[t] = fsynced[t]
<1> USE ConstFacts DEF MirrorTyped
<1> DEFINE new == IF Blank(s) THEN <<>> ELSE SubSeq(files[s], 1, n)
<1>1. new \in Seq(Packets) /\ Len(new) \in Nat
  <2>1. files[s] \in Seq(Packets)
    OBVIOUS
  <2>2. SubSeq(files[s], 1, n) \in Seq(Packets)
    BY <2>1, SeqPrefix
  <2> QED BY <2>2, SeqLen
<1>2. files' = [files EXCEPT ![s] = new]
  BY DEF OpenFile
<1> HIDE DEF new
<1>3. /\ created' = created \cup {s}
      /\ fsynced' = [fsynced EXCEPT ![s] = Len(files'[s])]
  BY DEF OpenFile
<1>4. header' \in [Sessions -> Garbage..MaxEpoch]
  BY DEF OpenFile, Garbage, NoHeader
<1>5. files'[s] = new /\ files' \in [Sessions -> Seq(Packets)]
  BY <1>1, <1>2
<1>6. \A t \in Sessions \ {s} : files'[t] = files[t] /\ fsynced'[t] = fsynced[t]
  BY <1>2, <1>3
<1>7. fsynced' \in [Sessions -> Nat] /\ fsynced'[s] = Len(files'[s])
  BY <1>1, <1>3, <1>5
<1>8. \A t \in Sessions : fsynced'[t] <= Len(files'[t])
  <2> TAKE t \in Sessions
  <2>1. CASE t = s
    BY <1>1, <1>5, <1>7, <2>1
  <2>2. CASE t # s
    BY <1>6, <2>2 DEF Sealed
  <2> QED BY <2>1, <2>2
<1>9. \A t \in Sessions \ created' : files'[t] = <<>>
  BY <1>3, <1>6, SMTT(20) DEF Sealed
<1> QED BY <1>3, <1>4, <1>5, <1>6, <1>7, <1>8, <1>9, Zenon

\* commit keeps whole packets of the batch.
LEMMA KeepTyped ==
  ASSUME NEW f \in Batches, pub.committed \in Nat PROVE Keep(f) \in Seq(Packets)
<1> DEFINE known == IF f.base < pub.committed THEN pub.committed - f.base ELSE 0
           len   == IF known < f.n THEN f.n - known ELSE 0
<1>1. f.base \in Nat /\ f.n \in Nat /\ f.base + f.n <= MaxGpidx /\ f.epoch \in EpochIds
  <2>1. f.base \in 0..MaxGpidx /\ f.n \in 1..MaxBatch /\ f.base + f.n <= MaxGpidx /\ f.epoch \in EpochIds
    BY DEF Batches
  <2>2. f.base \in Nat
    BY <2>1, ConstFacts
  <2>3. f.n \in Nat
    BY <2>1, ConstFacts
  <2> QED BY <2>1, <2>2, <2>3
<1>2. known \in Nat /\ len \in Nat /\ (len > 0 => known + len <= f.n)
  BY <1>1
<1>3. Keep(f) = [i \in 1..len |-> <<f.epoch, f.base + known + i - 1>>]
  BY DEF Keep
<1> HIDE DEF known, len
<1>4. ASSUME NEW i \in 1..len PROVE <<f.epoch, f.base + known + i - 1>> \in Packets
  <2>1. f.base + known + i - 1 \in 0..MaxGpidx
    BY <1>1, <1>2, ConstFacts
  <2> QED BY <1>1, <2>1 DEF Packets
<1> QED BY <1>2, <1>3, <1>4

\* A power cut keeps of every file a prefix that has all its synced records, unless
\* the file's name is lost.
LEMMA CutFiles ==
  ASSUME MirrorSound, MirrorPowerCut
  PROVE  /\ files' \in [Sessions -> Seq(Packets)]
         /\ \A s \in Sessions \ created' : files'[s] = <<>>
         /\ \A s \in Sessions \cap created' : \E n \in fsynced[s]..Len(files[s]) :
              files'[s] = SubSeq(files[s], 1, n) /\ Len(files'[s]) = n
<1> DEFINE dirty == {s \in Sessions : fsynced[s] < Len(files[s])}
<1>1. PICK keep \in [dirty -> UNION {fsynced[s]..Len(files[s]) : s \in dirty}] :
       /\ \A s \in dirty : keep[s] \in fsynced[s]..Len(files[s])
       /\ files' = [s \in Sessions |-> CASE s \notin created'         -> <<>>
                                         [] s \in created' \cap dirty -> SubSeq(files[s], 1, keep[s])
                                         [] OTHER -> files[s]]
  BY Zenon DEF MirrorPowerCut
<1>2. \A s \in Sessions : files[s] \in Seq(Packets) /\ Len(files[s]) \in Nat /\ fsynced[s] \in Nat
                          /\ fsynced[s] <= Len(files[s])
  BY SeqLen DEF MirrorSound, MirrorTyped, Sealed
<1>3. \A s \in Sessions \ created' : files'[s] = <<>>
  BY <1>1
<1>4. ASSUME NEW s \in Sessions, s \in created'
      PROVE  \E n \in fsynced[s]..Len(files[s]) : files'[s] = SubSeq(files[s], 1, n)
  <2>1. CASE s \in dirty
    BY <1>1, <1>4, <2>1, SMTT(20)
  <2>2. CASE s \notin dirty
    <3>1. files'[s] = files[s] /\ files[s] = SubSeq(files[s], 1, Len(files[s]))
      BY <1>1, <1>2, <1>4, <2>2, SeqPrefix
    <3> QED BY <1>2, <3>1
  <2> QED BY <2>1, <2>2
<1>5. ASSUME NEW s \in Sessions, NEW n \in fsynced[s]..Len(files[s])
      PROVE  SubSeq(files[s], 1, n) \in Seq(Packets) /\ Len(SubSeq(files[s], 1, n)) = n
  <2>1. n \in 0..Len(files[s])
    BY <1>2
  <2> QED BY <1>2, <2>1, SeqPrefix
<1>6. ASSUME NEW s \in Sessions PROVE files'[s] \in Seq(Packets)
  <2>1. CASE s \in created'
    BY <1>4, <1>5, <2>1, Zenon
  <2>2. CASE s \notin created'
    <3>1. files'[s] = <<>>
      BY <1>3, <2>2
    <3> QED BY <3>1
  <2> QED BY <2>1, <2>2
<1>7. files' \in [Sessions -> Seq(Packets)]
  <2>1. files' = [s \in Sessions |-> files'[s]]
    BY <1>1
  <2> QED BY <1>6, <2>1
<1> QED BY <1>3, <1>4, <1>5, <1>7

LEMMA SoundParts == TypedSealed <=> MirrorSound /\ LinkTyped
  BY TypedParts DEF TypedSealed, MirrorSound

-----------------------------------------------------------------------------
(* The frames of a step.                                                   *)

\* Files are cut, if they change at all.
Cut ==
  \A s \in Sessions : Len(files'[s]) <= Len(files[s])
                      /\ \A i \in 1..Len(files'[s]) : files'[s][i] = files[s][i]
AgentGrows ==
  aEpoch <= aEpoch' /\ \A e \in EpochIds : aHead[e] <= aHead'[e] /\ aOldest[e] <= aOldest'[e]

\* What the steps below start from and end in.
Sound == MirrorSound /\ LinkTyped

LEMMA AgentFacts ==
  ASSUME LinkTyped
  PROVE  /\ aEpoch \in EpochIds /\ aEpoch \in Nat
         /\ \A e \in EpochIds : e \in Nat /\ aHead[e] \in Nat /\ aOldest[e] \in Nat
                                /\ aOldest[e] <= aHead[e]
  BY ConstFacts DEF LinkTyped

LEMMA NewAgentFacts ==
  ASSUME LinkTyped'
  PROVE  /\ aEpoch' \in EpochIds /\ aEpoch' \in Nat
         /\ \A e \in EpochIds : e \in Nat /\ aHead'[e] \in Nat /\ aOldest'[e] \in Nat
                                /\ aOldest'[e] <= aHead'[e]
  BY ConstFacts DEF LinkTyped

LEMMA EpochFacts ==
  ASSUME NEW e \in 0..MaxEpoch PROVE e \in Nat /\ (e > 0 => e \in EpochIds)
  BY ConstFacts DEF EpochIds

LEMMA SeqFacts ==
  ASSUME NEW q \in Seq(Packets)
  PROVE  Len(q) \in Nat /\ (q = <<>> <=> Len(q) = 0) /\ \A i \in 1..Len(q) : q[i] \in Packets
  BY SeqLen

LEMMA FileFacts ==
  ASSUME MirrorTyped, NEW s \in Sessions
  PROVE  /\ s \in Nat /\ files[s] \in Seq(Packets) /\ Len(files[s]) \in Nat /\ fsynced[s] \in Nat
         /\ files[s] = <<>> <=> Len(files[s]) = 0
         /\ \A i \in 1..Len(files[s]) : files[s][i] \in Packets
<1>1. s \in Nat /\ files[s] \in Seq(Packets) /\ fsynced[s] \in Nat
  BY ConstFacts DEF MirrorTyped
<1> QED BY <1>1, SeqFacts

\* The same of the files after a step.
LEMMA NewFileFacts ==
  ASSUME MirrorTyped', NEW s \in Sessions
  PROVE  /\ s \in Nat /\ files'[s] \in Seq(Packets) /\ Len(files'[s]) \in Nat /\ fsynced'[s] \in Nat
         /\ files'[s] = <<>> <=> Len(files'[s]) = 0
         /\ \A i \in 1..Len(files'[s]) : files'[s][i] \in Packets
<1>1. s \in Nat /\ files'[s] \in Seq(Packets) /\ fsynced'[s] \in Nat
  BY ConstFacts DEF MirrorTyped
<1> QED BY <1>1, SeqFacts

LEMMA PacketFields ==
  ASSUME NEW p \in Packets
  PROVE  p[1] \in EpochIds /\ p[1] \in Nat /\ p[2] \in Nat /\ p[2] <= MaxGpidx
<1>1. PICK e \in EpochIds, g \in 0..MaxGpidx : p = <<e, g>>
  BY DEF Packets
<1> QED BY <1>1, ConstFacts

LEMMA FirstFacts ==
  ASSUME MirrorTyped, NEW s \in Sessions, files[s] # <<>>
  PROVE  /\ First(s)[1] \in EpochIds /\ First(s)[1] \in Nat /\ First(s)[2] \in Nat
         /\ Len(files[s]) \in Nat /\ 1 \in 1..Len(files[s]) /\ Len(files[s]) > 0
<1>1. 1 \in 1..Len(files[s])
  BY FileFacts
<1>2. files[s][1] \in Packets
  BY <1>1, FileFacts
<1> QED BY <1>1, <1>2, FileFacts, PacketFields DEF First

\* A file that is cut, but not to nothing, still begins with the same packet.
LEMMA CutFirst ==
  ASSUME MirrorTyped, MirrorTyped', Cut, NEW s \in Sessions, files'[s] # <<>>
  PROVE  /\ files[s] # <<>> /\ First(s)' = First(s)
         /\ Len(files'[s]) \in Nat /\ Len(files'[s]) <= Len(files[s])
<1>1. Len(files'[s]) \in Nat /\ Len(files[s]) \in Nat /\ 1 \in 1..Len(files'[s])
      /\ (files[s] = <<>> <=> Len(files[s]) = 0)
  BY FileFacts, NewFileFacts
<1> QED BY <1>1 DEF Cut, First

LEMMA LaterTrans ==
  ASSUME NEW a \in States, NEW b \in States, NEW c \in States, b.start <= b.committed,
         Later(a, b), Later(b, c), LinkTyped, Sane(c)
  PROVE  Later(a, c)
<1>1. a.committed \in Nat /\ b.start \in Nat /\ a.session \in Nat /\ b.session \in Nat
      /\ a.epoch \in Nat /\ b.epoch \in Nat /\ c.epoch \in 0..MaxEpoch /\ c.session \in Nat
      /\ b.committed \in Nat /\ c.start \in Nat /\ c.committed \in Nat /\ c.epoch \in Nat
  BY StateFields, ConstFacts
<1>2. c.epoch > 0 => c.epoch \in EpochIds
  BY <1>1, ConstFacts DEF EpochIds
<1>3. \A e \in EpochIds : aOldest[e] \in Nat
  BY AgentFacts
<1>4. c.epoch = 0 => c.session = 0
  BY DEF Sane, ZeroState
<1>5. a.session <= c.session /\ a.epoch <= c.epoch
  BY <1>1 DEF Later
<1>6. ASSUME a.session = c.session
      PROVE  a.start = c.start /\ a.committed <= c.committed /\ a.epoch \in {0, c.epoch}
  BY <1>1, <1>6 DEF Later
<1>7. ASSUME a.session < c.session, a.epoch = c.epoch
      PROVE  a.committed < c.start /\ c.start <= aOldest[c.epoch]
  <2>1. b.epoch = c.epoch /\ aOldest[c.epoch] \in Nat
    BY <1>1, <1>2, <1>3, <1>4, <1>7 DEF Later
  <2>2. CASE a.session < b.session /\ b.session < c.session
    BY <1>1, <1>7, <2>1, <2>2 DEF Later
  <2>3. CASE a.session < b.session /\ b.session = c.session
    BY <1>1, <1>7, <2>1, <2>3 DEF Later
  <2>4. CASE a.session = b.session
    BY <1>1, <1>7, <2>1, <2>4 DEF Later
  <2> QED BY <1>1, <1>7, <2>2, <2>3, <2>4 DEF Later
<1> QED BY <1>5, <1>6, <1>7 DEF Later

\* Steps that leave the mirror's directory alone.
LEMMA SameFiles ==
  ASSUME Sound, UNCHANGED files PROVE Cut
  BY FileFacts DEF Sound, MirrorSound, Cut

LEMMA PointsSynced ==
  ASSUME Durable
  PROVE  /\ resume.committed - resume.start <= fsynced[resume.session]
         /\ kept.committed - kept.start <= fsynced[kept.session]
  BY DEF Durable, Point, Backed

LEMMA AgentSame == ASSUME LinkTyped, UNCHANGED agentVars PROVE AgentGrows
  BY AgentFacts DEF agentVars, AgentGrows

LEMMA AgentStep ==
  ASSUME LinkTyped, Capture \/ Retire \/ Wipe PROVE AgentGrows
<1>1. CASE Capture
  BY <1>1, AgentFacts DEF Capture, AgentGrows, LinkTyped
<1>2. CASE Retire
  BY <1>2, AgentFacts DEF Retire, AgentGrows, LinkTyped
<1>3. CASE Wipe
  BY <1>3, AgentFacts DEF Wipe, AgentGrows
<1> QED BY <1>1, <1>2, <1>3

-----------------------------------------------------------------------------
(* Frames and the connection.                                              *)

LEMMA FrameFields ==
  ASSUME NEW f \in Frames
  PROVE  /\ f.type \in {"preamble", "batch", "gap"}
         /\ f.type = "preamble" => /\ f.from \in Nat /\ f.from \in 0..MaxGpidx
                                    /\ f.epoch \in 0..MaxEpoch /\ f.link \in EpochIds
         /\ f.type = "batch" => f.base \in Nat /\ f.n \in Nat /\ f.n > 0 /\ f.epoch \in EpochIds /\ f \in Batches
         /\ f.type = "gap" => f.to \in Nat /\ f.to \in 0..MaxGpidx
<1>1. CASE f \in Preambles
  <2>1. f.type = "preamble" /\ f.from \in 0..MaxGpidx /\ f.epoch \in 0..MaxEpoch /\ f.link \in EpochIds
    BY <1>1 DEF Preambles
  <2> QED BY <2>1, ConstFacts
<1>2. CASE f \in Batches
  <2>1. f.type = "batch" /\ f.base \in 0..MaxGpidx /\ f.epoch \in EpochIds /\ f.n \in 1..MaxBatch
    BY <1>2 DEF Batches
  <2> QED BY <1>2, <2>1, ConstFacts
<1>3. CASE f \in Gaps
  <2>1. f.type = "gap" /\ f.to \in 0..MaxGpidx
    BY <1>3 DEF Gaps
  <2> QED BY <2>1, ConstFacts
<1> QED BY <1>1, <1>2, <1>3 DEF Frames

LEMMA AfterIs ==
  ASSUME NEW f \in Frames
  PROVE  /\ After(f) \in Nat
         /\ f.type = "preamble" => After(f) = f.from
         /\ f.type = "batch" => After(f) = f.base + f.n
         /\ f.type = "gap" => After(f) = f.to
<1>1. CASE f.type = "preamble"
  BY <1>1, FrameFields DEF After
<1>2. CASE f.type = "batch"
  <2>1. After(f) = f.base + f.n
    BY <1>2 DEF After
  <2> QED BY <1>2, <2>1, FrameFields
<1>3. CASE f.type = "gap"
  <2>1. After(f) = f.to
    BY <1>3 DEF After
  <2> QED BY <1>3, <2>1, FrameFields
<1> QED BY <1>1, <1>2, <1>3, FrameFields

LEMMA WireFacts ==
  ASSUME LinkTyped
  PROVE  /\ Len(wire) \in Nat /\ wire \in Seq(Frames) /\ (wire = <<>> <=> Len(wire) = 0)
         /\ \A i \in 1..Len(wire) : wire[i] \in Frames
  BY SeqLen DEF LinkTyped

LEMMA ReachFacts ==
  ASSUME MirrorTyped PROVE Reach \in Nat /\ st.committed \in Nat /\ Len(todo) \in Nat
  BY StateFields, SeqLen, SMTT(20) DEF MirrorTyped, Reach

-----------------------------------------------------------------------------
(* The demux: what it does with a frame.                                   *)

\* Between frames, what is committed, persisted and published is the same.
LEMMA Reading ==
  ASSUME Sound, Process, mpc = "reading"
  PROVE  /\ st = resume /\ Opened /\ Published /\ todo = <<>> /\ Point(st, created) /\ Later(resume, st)
         /\ pub.committed = st.committed /\ Reach = st.committed /\ mfile = st.session
         /\ Len(files[st.session]) = st.committed - st.start
         /\ fsynced[st.session] = st.committed - st.start
         /\ \A i \in 1..Len(files[st.session]) : files[st.session][i] = <<st.epoch, st.start + i - 1>>
<1>1. /\ st = resume /\ Opened /\ Published /\ todo = <<>> /\ Point(st, created) /\ Later(resume, st)
  BY DEF Process
<1>2. pub.committed = st.committed
  BY <1>1 DEF Published
<1>3. Reach = st.committed
  BY <1>1, ReachFacts DEF Reach, Sound, MirrorSound
<1> QED BY <1>1, <1>2, <1>3 DEF Opened

LEMMA Received ==
  ASSUME Sound, Link, wire # <<>>
  PROVE  /\ conn = "up" /\ Stream /\ Position /\ Welcome /\ Clear
         /\ wire[1] \in Frames /\ Fits(wire[1], Reach) /\ Len(wire) \in Nat /\ Len(wire) > 0
<1>1. conn = "up"
  BY DEF Link, Sound, LinkTyped
<1>2. Stream /\ Position /\ Welcome /\ Clear
  BY <1>1 DEF Link
<1>3. 1 \in 1..Len(wire) /\ wire[1] \in Frames /\ Len(wire) \in Nat /\ Len(wire) > 0
  BY WireFacts DEF Sound
<1> QED BY <1>1, <1>2, <1>3 DEF Stream

\* A batch never jumps, and no packet of it lies at or above one that a crash has left
\* in a later session.
LEMMA CommitFits ==
  ASSUME Sound, Process, Link, mpc = "reading", wire # <<>>, wire[1].type = "batch"
  PROVE  /\ wire[1].base <= pub.committed /\ wire[1].epoch = st.epoch /\ st.epoch = aEpoch
         /\ wire[1].base + wire[1].n > st.committed => Topmost
         /\ wire[1].base + wire[1].n <= aHead[aEpoch]
<1>1. wire[1] \in Frames /\ Fits(wire[1], Reach) /\ Welcome /\ Clear /\ Len(wire) > 0 /\ Len(wire) \in Nat
  BY Received
<1>2. wire[1].base <= pub.committed /\ Reach = st.committed /\ pub.committed = st.committed /\ wire[1].epoch = aEpoch
  BY <1>1, Reading DEF Fits
<1>3. st.epoch = aEpoch
  BY <1>1 DEF Welcome, Greeted
<1>4. wire[1].base + wire[1].n <= aHead[aEpoch]
  BY <1>1, AfterIs DEF Fits
<1>5. ASSUME NEW s \in Sessions, s > st.session, files[s] # <<>> PROVE FALSE
  <2>1. Above(st)
    BY Reading DEF Point
  <2>2. First(s)[1] \in Nat /\ First(s)[2] \in Nat
    BY <1>5, FirstFacts DEF Sound, MirrorSound
  <2>3. First(s)[1] = aEpoch
    BY <1>3, <1>5, <2>1, <2>2, AgentFacts DEF Above, Sound
  <2>4. st.committed < First(s)[2]
    BY <1>3, <1>5, <2>1, <2>3 DEF Above
  <2>5. First(s)[2] <= wire[1].base
    <3>1. 1 \in 1..Len(wire)
      BY <1>1
    <3> QED BY <1>1, <1>3, <1>5, <2>3, <3>1 DEF Clear
  <2>6. wire[1].base \in Nat /\ st.committed \in Nat
    BY <1>1, FrameFields, ReachFacts DEF Sound, MirrorSound
  <2> QED BY <1>2, <2>2, <2>4, <2>5, <2>6
<1> QED BY <1>2, <1>3, <1>4, <1>5 DEF Topmost

\* SetHeader cuts no record, as the file it rewrites has none.
LEMMA HeaderKeeps ==
  ASSUME Sound, Durable, Process, mpc = "reading", NEW h \in EpochIds, SetHeader(h)
  PROVE  /\ UNCHANGED <<files, fsynced, created, resume, named, kept>>
         /\ \A s \in created : header'[s] # NoHeader
<1>1. /\ mfile = st.session /\ mfile \in Sessions /\ fsynced[mfile] = st.committed - st.start
      /\ Len(files[mfile]) = st.committed - st.start /\ st.committed \in Nat /\ st.start \in Nat
  BY Reading, StateFields, Zenon DEF Sound, MirrorSound, MirrorTyped
<1>2. UNCHANGED <<created, resume, named, kept>>
  BY DEF SetHeader
<1>3. CASE ~Rewrites(h)
  BY <1>2, <1>3 DEF SetHeader, Durable, Runs
<1>4. CASE Rewrites(h)
  <2>1. /\ header' = [header EXCEPT ![mfile] = h] /\ files' = [files EXCEPT ![mfile] = <<>>]
        /\ fsynced' = [fsynced EXCEPT ![mfile] = 0]
    BY <1>4 DEF SetHeader
  <2>2. files[mfile] = <<>> /\ fsynced[mfile] = 0
    BY <1>1, <1>4, FileFacts DEF Rewrites, Sound, MirrorSound
  <2>3. files' = files /\ fsynced' = fsynced
    BY <2>1, <2>2 DEF Sound, MirrorSound, MirrorTyped
  <2>4. \A s \in created : header'[s] # NoHeader
    BY <2>1, ConstFacts DEF Durable, Runs, Sound, MirrorSound, MirrorTyped, NoHeader, EpochIds
  <2> QED BY <1>2, <2>3, <2>4
<1> QED BY <1>3, <1>4

-----------------------------------------------------------------------------
(* Append, openSession, and what a crash leaves.                           *)

\* What the file of the open session begins with, and where it ends, after the write.
LEMMA Written ==
  ASSUME Sound, Process, MirrorWrite
  PROVE  /\ mfile = st.session /\ mfile \in Sessions
         /\ \A s \in Sessions \ {mfile} : files'[s] = files[s]
         /\ Len(files'[mfile]) = fileLen + Len(todo) /\ Len(files'[mfile]) > 0 /\ Len(files[mfile]) = fileLen
         /\ \A i \in 1..Len(files[mfile]) : files'[mfile][i] = files[mfile][i]
         /\ \A i \in 1..Len(files'[mfile]) : files'[mfile][i] = <<st.epoch, st.start + i - 1>>
<1>1. /\ mfile = st.session /\ fileLen = st.committed - st.start /\ Len(files[mfile]) = fileLen
      /\ \A i \in 1..Len(files[mfile]) : files[mfile][i] = <<st.epoch, st.start + i - 1>>
  BY DEF MirrorWrite, Process, Opened
<1>2. todo # <<>> /\ \A i \in 1..Len(todo) : todo[i] = <<st.epoch, st.committed + i - 1>>
  BY DEF MirrorWrite, Process
<1>3. mfile \in Sessions /\ st.committed \in Nat /\ st.start \in Nat /\ files[mfile] \in Seq(Packets)
      /\ todo \in Seq(Packets)
  BY <1>1, StateFields DEF Sound, MirrorSound, MirrorTyped
<1> DEFINE new == files[mfile] \o todo
<1>4. files' = [files EXCEPT ![mfile] = new]
  BY DEF MirrorWrite
<1>5. Len(files[mfile]) \in Nat /\ Len(todo) \in Nat /\ Len(todo) > 0
  BY <1>2, <1>3, SeqFacts
<1>6. /\ Len(new) = Len(files[mfile]) + Len(todo)
      /\ \A i \in 1..(Len(files[mfile]) + Len(todo)) :
           new[i] = IF i <= Len(files[mfile]) THEN files[mfile][i] ELSE todo[i - Len(files[mfile])]
  BY <1>3, SeqConcat
<1> HIDE DEF new
<1>7. files'[mfile] = new /\ \A s \in Sessions \ {mfile} : files'[s] = files[s]
  BY <1>3, <1>4 DEF Sound, MirrorSound, MirrorTyped
<1>8. \A i \in 1..Len(files[mfile]) : new[i] = files[mfile][i]
  BY <1>5, <1>6
<1>9. ASSUME NEW i \in 1..Len(new) PROVE new[i] = <<st.epoch, st.start + i - 1>>
  <2> DEFINE n == Len(files[mfile])
             m == Len(todo)
  <2>1. n \in Nat /\ m \in Nat /\ i \in 1..(n + m) /\ st.committed = st.start + n
    BY <1>1, <1>3, <1>5, <1>6
  <2>2. /\ i <= n => new[i] = files[mfile][i]
        /\ ~(i <= n) => new[i] = todo[i - n]
    BY <1>6, <2>1
  <2>3. /\ \A j \in 1..n : files[mfile][j] = <<st.epoch, st.start + j - 1>>
        /\ \A j \in 1..m : todo[j] = <<st.epoch, st.committed + j - 1>>
    BY <1>1, <1>2
  <2> HIDE DEF n, m
  <2>4. CASE i <= n
    BY <2>1, <2>2, <2>3, <2>4
  <2>5. CASE ~(i <= n)
    <3>1. i - n \in 1..m /\ st.committed + (i - n) - 1 = st.start + i - 1
      BY <1>3, <2>1, <2>5
    <3> QED BY <2>2, <2>3, <2>5, <3>1
  <2> QED BY <2>4, <2>5
<1> QED BY <1>1, <1>3, <1>5, <1>6, <1>7, <1>8, <1>9, SMTT(20)

LEMMA CommittedSame ==
  ASSUME NEW r \in States, NEW q, q = [r EXCEPT !.committed = r.committed] PROVE q = r
  BY DEF States

LEMMA OpenKeeps ==
  ASSUME Sound, Sound', Durable, NEW r \in States, r.start <= r.committed, Backed(r, created),
         OpenSession(r)
  PROVE  /\ st' = r /\ mfile' = r.session /\ fileLen' = r.committed - r.start
         /\ Len(files'[r.session]) = r.committed - r.start
         /\ fsynced'[r.session] = r.committed - r.start
         /\ Cut /\ created' = created \cup {r.session}
         /\ \A s \in created' : header'[s] # NoHeader
         /\ \A s \in Sessions \ {r.session} : files'[s] = files[s] /\ fsynced'[s] = fsynced[s]
<1> DEFINE s == r.session
           n == r.committed - r.start
<1>1. s \in Sessions /\ n \in Nat /\ r.committed \in Nat /\ r.start \in Nat /\ r.start + n = r.committed
  BY StateFields
<1>2. /\ n > 0 => s \in created
      /\ n <= Len(files[s])
  <2>1. (n > 0 => s \in created) /\ n <= fsynced[s]
    BY DEF Backed
  <2>2. fsynced[s] <= Len(files[s]) /\ fsynced[s] \in Nat /\ Len(files[s]) \in Nat
    BY <1>1, FileFacts DEF Sound, MirrorSound, Sealed
  <2> QED BY <1>1, <2>1, <2>2
<1>3. \A t \in created : header[t] # NoHeader
  BY DEF Durable, Runs
<1>4. Len(files[s]) \in Nat /\ files[s] \in Seq(Packets)
  BY <1>1, FileFacts DEF Sound, MirrorSound
<1>5. PICK k \in Haves(r) :
         /\ OpenFile(s, k)
         /\ st' = IF Blank(s) THEN r ELSE [r EXCEPT !.committed = r.start + k]
         /\ mfile' = s /\ fileLen' = Len(files'[s])
  BY DEF OpenSession
<1>6. k \in 0..Len(files[s])
  BY <1>1, HavesAre DEF Sound, MirrorSound
<1>7. /\ \A t \in Sessions \ {s} : files'[t] = files[t] /\ fsynced'[t] = fsynced[t]
      /\ files'[s] \in Seq(Packets)
  BY <1>1, <1>5, <1>6, OpenFileSound DEF Sound, MirrorSound
<1>8. created' = created \cup {s} /\ fsynced'[s] = Len(files'[s])
  BY <1>1, <1>5 DEF OpenFile, Sound, MirrorSound, MirrorTyped
<1>9. Blank(s) <=> s \notin created
  BY <1>3 DEF Blank
<1>10. gh # NoHeader
  BY ConstFacts DEF Sound, MirrorSound, MirrorTyped, NoHeader
<1>11. \A t \in created' : header'[t] # NoHeader
  <2>1. header' = [header EXCEPT ![s] = IF Blank(s) THEN gh ELSE IF header[s] = NoHeader THEN Garbage ELSE header[s]]
    BY <1>5 DEF OpenFile
  <2>2. \A t \in Sessions \ {s} : header'[t] = header[t]
    BY <2>1 DEF Sound, MirrorSound, MirrorTyped
  <2>3. header'[s] # NoHeader
    BY <1>1, <1>3, <1>9, <1>10, <2>1 DEF Sound, MirrorSound, MirrorTyped
  <2>4. created' \subseteq Sessions
    BY DEF Sound, MirrorSound, MirrorTyped
  <2> QED BY <1>3, <1>8, <2>2, <2>3, <2>4
<1>12. st' = r /\ Len(files'[s]) = n /\ \A i \in 1..n : files'[s][i] = files[s][i]
  <2>1. CASE s \notin created
    <3>1. files'[s] = <<>> /\ n = 0 /\ st' = r
      BY <1>1, <1>2, <1>5, <1>9, <2>1, SMTT(20) DEF OpenFile, Sound, MirrorSound, MirrorTyped
    <3> QED BY <3>1
  <2>2. CASE s \in created
    <3>1. k = n
      BY <1>1, <1>2, <1>3, <1>4, <1>5, <2>2 DEF Haves
    <3>2. files'[s] = SubSeq(files[s], 1, n)
      BY <1>1, <1>5, <1>9, <2>2, <3>1, Zenon DEF OpenFile, Sound, MirrorSound, MirrorTyped
    <3>3. st' = [r EXCEPT !.committed = r.committed]
      BY <1>1, <1>5, <1>9, <2>2, <3>1, Zenon
    <3>4. st' = r
      BY <3>3, CommittedSame
    <3>5. files[s] \in Seq(Packets) /\ n \in 0..Len(files[s])
      BY <1>1, <1>2, <1>4
    <3> HIDE DEF n, s
    <3> QED BY <3>2, <3>4, <3>5, SeqPrefix
  <2> QED BY <2>1, <2>2
<1>13. Cut
  <2> SUFFICES ASSUME NEW t \in Sessions
               PROVE  Len(files'[t]) <= Len(files[t]) /\ \A i \in 1..Len(files'[t]) : files'[t][i] = files[t][i]
    BY DEF Cut
  <2>1. CASE t = s
    BY <1>2, <1>12, <2>1
  <2>2. CASE t # s
    BY <1>7, <2>2, FileFacts DEF Sound, MirrorSound
  <2> QED BY <2>1, <2>2
<1> QED BY <1>5, <1>7, <1>8, <1>11, <1>12, <1>13

\* The resume.json that a crash may leave is a sound one.
LEMMA HalfPoint ==
  ASSUME Sound, Durable, Process, NEW r \in HalfPersisted
  PROVE  /\ r \in States /\ r.start <= r.committed /\ Point(r, created) /\ Later(kept, r)
         /\ \A s \in created : s <= r.session + 1 /\ (r.epoch = 0 => s = 0)
<1>1. resume \in States /\ st \in States /\ kept \in States /\ resume.start <= resume.committed
      /\ st.start <= st.committed
  BY DEF Sound, MirrorSound, MirrorTyped
<1>2. CASE r = resume
  BY <1>1, <1>2 DEF Durable, Names
<1>3. CASE r = st /\ mpc \in {"persist", "adopt"}
  <2>1. Point(st, created) /\ Later(resume, st) /\ st.epoch > 0
    BY <1>3 DEF Process
  <2>2. Later(kept, st)
    BY <1>1, <2>1, LaterTrans DEF Durable, Point, Sound
  <2>3. resume.session \in Nat /\ st.session \in Nat /\ resume.session <= st.session
    BY <1>1, <2>1, StateFields DEF Later
  <2>4. \A s \in created : s \in Nat /\ s <= resume.session + 1
    BY ConstFacts DEF Durable, Names, Sound, MirrorSound, MirrorTyped
  <2> QED BY <1>1, <1>3, <2>1, <2>2, <2>3, <2>4
<1> QED BY <1>2, <1>3 DEF HalfPersisted

\* What a power cut leaves of the files: a prefix with what was synced.
LEMMA PowerFiles ==
  ASSUME Sound, Sound', MirrorPowerCut
  PROVE  /\ \A s \in Sessions \ created' : files'[s] = <<>>
         /\ \A s \in created' : /\ fsynced[s] <= Len(files'[s]) /\ Len(files'[s]) <= Len(files[s])
                                /\ \A i \in 1..Len(files'[s]) : files'[s][i] = files[s][i]
<1>1. \A s \in Sessions \ created' : files'[s] = <<>>
  BY CutFiles DEF Sound
<1>2. ASSUME NEW s \in created'
      PROVE  /\ fsynced[s] <= Len(files'[s]) /\ Len(files'[s]) <= Len(files[s])
             /\ \A i \in 1..Len(files'[s]) : files'[s][i] = files[s][i]
  <2>1. s \in Sessions
    BY <1>2 DEF Sound, MirrorSound, MirrorTyped
  <2>2. PICK n \in fsynced[s]..Len(files[s]) : files'[s] = SubSeq(files[s], 1, n) /\ Len(files'[s]) = n
    BY <1>2, <2>1, CutFiles DEF Sound
  <2>3. files[s] \in Seq(Packets) /\ Len(files[s]) \in Nat /\ fsynced[s] \in Nat
    BY <2>1, FileFacts DEF Sound, MirrorSound
  <2>4. n \in 0..Len(files[s])
    BY <2>3
  <2> QED BY <2>2, <2>3, <2>4, SeqPrefix
<1> QED BY <1>1, <1>2

-----------------------------------------------------------------------------
(* The parts of CInv.                                                      *)

LEMMA InvParts == CInv <=> Sound /\ Durable /\ Process /\ Link
  BY SoundParts DEF CInv, TypedSealed, Sound

LEMMA InvPartsNext == CInv' <=> Sound' /\ Durable' /\ Process' /\ Link'
  BY InvParts, PTL

\* On a disk that does not fail, a call on a closed file does not happen either.
LEMMA NeverBroken ==
  ASSUME Sound, Process, CallsSucceed
  PROVE  ~WriteToClosed /\ ~HeaderClosed /\ ~MirrorFail /\ ~HeaderFail
<1>1. mpc \in {"write", "reading"} => mfile = st.session /\ mfile # -1
  BY StateFields, ConstFacts DEF Process, Opened, Sound, MirrorSound, MirrorTyped
<1> QED BY <1>1, Zenon DEF WriteToClosed, HeaderClosed, SetHeaderClosed, MirrorFail, HeaderFail, SetHeaderFail, CallsSucceed

-----------------------------------------------------------------------------
(* Resume points.                                                          *)

LEMMA SaneGrows ==
  ASSUME Sound, Sound', AgentGrows, NEW r \in States, Sane(r) PROVE Sane(r)'
<1>1. r.committed \in Nat /\ r.epoch \in 0..MaxEpoch /\ r.epoch \in Nat
  BY StateFields
<1>2. aEpoch \in Nat /\ aEpoch' \in Nat /\ (r.epoch > 0 => r.epoch \in EpochIds)
  BY <1>1, AgentFacts, NewAgentFacts, EpochFacts, Zenon DEF Sound
<1>3. \A e \in EpochIds : aHead[e] \in Nat /\ aHead'[e] \in Nat
  BY AgentFacts, NewAgentFacts DEF Sound
<1>4. r.epoch > 0 => r.committed <= aHead'[r.epoch]
  BY <1>1, <1>2, <1>3 DEF Sane, AgentGrows
<1>5. r.epoch <= aEpoch'
  BY <1>1, <1>2 DEF Sane, AgentGrows
<1> QED BY <1>4, <1>5 DEF Sane

LEMMA AboveKept ==
  ASSUME Sound, Sound', AgentGrows, Cut, NEW r \in States, Sane(r), Above(r) PROVE Above(r)'
<1>1. r.committed \in Nat /\ r.epoch \in 0..MaxEpoch /\ r.session \in Nat
  BY StateFields
<1> SUFFICES ASSUME NEW s \in Sessions, s > r.session, files'[s] # <<>>
             PROVE  /\ First(s)'[1] \in r.epoch..aEpoch'
                    /\ First(s)'[1] = r.epoch =>
                         r.committed < First(s)'[2] /\ First(s)'[2] <= aOldest'[r.epoch]
  BY DEF Above
<1>2. files[s] # <<>> /\ First(s)' = First(s)
  BY CutFirst DEF Sound, MirrorSound
<1>3. First(s)[1] \in EpochIds /\ First(s)[1] \in Nat /\ First(s)[2] \in Nat
  BY <1>2, FirstFacts, Zenon DEF Sound, MirrorSound
<1>4. aEpoch \in Nat /\ aEpoch' \in Nat /\ \A e \in EpochIds : aOldest[e] \in Nat /\ aOldest'[e] \in Nat
  BY ConstFacts, SMTT(20) DEF Sound, LinkTyped
<1>5. First(s)[1] \in r.epoch..aEpoch
      /\ (First(s)[1] = r.epoch => r.committed < First(s)[2] /\ First(s)[2] <= aOldest[r.epoch])
  BY <1>2 DEF Above
<1>6. aEpoch <= aEpoch' /\ aOldest[First(s)[1]] <= aOldest'[First(s)[1]]
  BY <1>3, Zenon DEF AgentGrows
<1>7. First(s)[1] \in r.epoch..aEpoch'
  BY <1>1, <1>3, <1>4, <1>5, <1>6
<1>8. ASSUME First(s)[1] = r.epoch
      PROVE  r.committed < First(s)[2] /\ First(s)[2] <= aOldest'[r.epoch]
  <2>1. aOldest[r.epoch] \in Nat /\ aOldest'[r.epoch] \in Nat /\ aOldest[r.epoch] <= aOldest'[r.epoch]
    BY <1>3, <1>4, <1>6, <1>8, Zenon
  <2>2. r.committed < First(s)[2] /\ First(s)[2] <= aOldest[r.epoch]
    BY <1>5, <1>8, Zenon
  <2> QED BY <1>3, <2>1, <2>2
<1> QED BY <1>2, <1>7, <1>8, Zenon

LEMMA BelowKept ==
  ASSUME Sound, Sound', Cut, NEW r \in States, Below(r) PROVE Below(r)'
<1>1. r.start \in Nat /\ r.epoch \in Nat /\ r.session \in Nat
  BY StateFields
<1> SUFFICES ASSUME NEW s \in Sessions, s < r.session, files'[s] # <<>>
             PROVE  \/ First(s)'[1] < r.epoch
                    \/ First(s)'[1] = r.epoch /\ First(s)'[2] + Len(files'[s]) <= r.start
  BY DEF Below
<1>2. files[s] # <<>> /\ First(s)' = First(s) /\ Len(files'[s]) \in Nat /\ Len(files'[s]) <= Len(files[s])
  BY CutFirst DEF Sound, MirrorSound
<1>3. First(s)[1] \in Nat /\ First(s)[2] \in Nat /\ Len(files[s]) \in Nat
  BY <1>2, FirstFacts DEF Sound, MirrorSound
<1>4. \/ First(s)[1] < r.epoch
      \/ First(s)[1] = r.epoch /\ First(s)[2] + Len(files[s]) <= r.start
  BY <1>2 DEF Below
<1> QED BY <1>1, <1>2, <1>3, <1>4

\* What is committed stays backed if no more than the rest is cut.
LEMMA BackedKept ==
  ASSUME Sound, Sound', Cut, NEW r \in States, NEW there, Backed(r, there), NEW there2,
         r.committed > r.start => r.session \in there2,
         r.start <= r.committed, r.committed - r.start <= fsynced'[r.session]
  PROVE  Backed(r, there2)'
<1> DEFINE n == r.committed - r.start
<1>1. r.committed \in Nat /\ r.start \in Nat /\ r.session \in Sessions /\ n \in Nat
  BY StateFields
<1>2. fsynced'[r.session] \in Nat /\ Len(files'[r.session]) \in Nat
      /\ fsynced'[r.session] <= Len(files'[r.session])
  BY <1>1, NewFileFacts, Zenon DEF Sound, MirrorSound, Sealed
<1>3. \A i \in 1..n : i \in 1..Len(files'[r.session])
  BY <1>1, <1>2
<1>4. \A i \in 1..n : files'[r.session][i] = <<r.epoch, r.start + i - 1>>
  BY <1>1, <1>3, Zenon DEF Cut, Backed
<1> QED BY <1>1, <1>4 DEF Backed

LEMMA PointKept ==
  ASSUME Sound, Sound', AgentGrows, Cut, NEW r \in States, NEW there, Point(r, there), NEW there2,
         r.committed > r.start => r.session \in there2,
         r.start <= r.committed, r.committed - r.start <= fsynced'[r.session]
  PROVE  Point(r, there2)'
<1>1. Sane(r)' /\ Above(r)' /\ Below(r)'
  BY SaneGrows, AboveKept, BelowKept, Zenon DEF Point
<1>2. Backed(r, there2)'
  BY BackedKept DEF Point
<1> QED BY <1>1, <1>2 DEF Point

LEMMA LaterGrows ==
  ASSUME Sound, Sound', AgentGrows, NEW a \in States, NEW b \in States, Later(a, b), Sane(b)
  PROVE  Later(a, b)'
<1>1. a.committed \in Nat /\ b.start \in Nat /\ a.session \in Nat /\ b.session \in Nat
      /\ a.epoch \in Nat /\ b.epoch \in 0..MaxEpoch
  BY StateFields
<1>2. b.epoch > 0 => b.epoch \in EpochIds
  BY <1>1, ConstFacts DEF EpochIds
<1>3. \A e \in EpochIds : aOldest[e] \in Nat /\ aOldest'[e] \in Nat /\ aOldest[e] <= aOldest'[e]
  BY ConstFacts DEF Sound, LinkTyped, AgentGrows
<1>4. b.epoch = 0 => b.session = 0
  BY DEF Sane, ZeroState
<1> QED BY <1>1, <1>2, <1>3, <1>4, ConstFacts DEF Later

LEMMA LaterSelf ==
  ASSUME NEW a \in States PROVE Later(a, a)
  BY StateFields DEF Later

LEMMA RunsKept ==
  ASSUME Sound, Sound', Cut, Runs, \A s \in created' : header'[s] # NoHeader PROVE Runs'
<1>1. ASSUME NEW s \in Sessions, NEW i \in 1..Len(files'[s])
      PROVE  files'[s][i] = <<First(s)'[1], First(s)'[2] + i - 1>>
  <2>1. Len(files'[s]) \in Nat /\ Len(files[s]) \in Nat /\ files'[s] # <<>>
    BY FileFacts, NewFileFacts, <1>1 DEF Sound, MirrorSound
  <2>2. First(s)' = First(s) /\ i \in 1..Len(files[s]) /\ files'[s][i] = files[s][i]
    BY <2>1, <1>1, CutFirst DEF Cut, Sound, MirrorSound
  <2> QED BY <2>2, SMTT(20) DEF Runs
<1>2. ASSUME NEW s \in Sessions, NEW t \in Sessions, s < t, files'[s] # <<>>, files'[t] # <<>>
      PROVE  \/ First(s)'[1] < First(t)'[1]
             \/ First(s)'[1] = First(t)'[1] /\ First(s)'[2] + Len(files'[s]) <= First(t)'[2]
  <2>1. files[s] # <<>> /\ First(s)' = First(s) /\ files[t] # <<>> /\ First(t)' = First(t)
        /\ Len(files'[s]) \in Nat /\ Len(files'[s]) <= Len(files[s])
    BY <1>2, CutFirst, Zenon DEF Sound, MirrorSound
  <2>2. First(s)[2] \in Nat /\ First(t)[2] \in Nat /\ Len(files[s]) \in Nat
    BY <2>1, FirstFacts, Zenon DEF Sound, MirrorSound
  <2>3. \/ First(s)[1] < First(t)[1]
        \/ First(s)[1] = First(t)[1] /\ First(s)[2] + Len(files[s]) <= First(t)[2]
    BY <1>2, <2>1, Zenon DEF Runs
  <2> QED BY <2>1, <2>2, <2>3
<1> QED BY <1>1, <1>2, Zenon DEF Runs

\* What holds of the disk holds on, if files are only cut, none below a resume point.
LEMMA DurableKept ==
  ASSUME Sound, Sound', AgentGrows, Cut, Durable, UNCHANGED <<resume, named, kept>>,
         created \subseteq created',
         \A s \in created' : /\ s <= resume.session + 1 /\ (resume.epoch = 0 => s = 0)
                             /\ header'[s] # NoHeader,
         resume.committed - resume.start <= fsynced'[resume.session],
         kept.committed - kept.start <= fsynced'[kept.session]
  PROVE  Durable'
<1>1. resume \in States /\ kept \in States /\ resume.start <= resume.committed /\ kept.start <= kept.committed
  BY DEF Sound, MirrorSound, MirrorTyped
<1>2. resume.committed \in Nat /\ resume.start \in Nat /\ kept.committed \in Nat /\ kept.start \in Nat
  BY <1>1, StateFields, Zenon
<1>3. /\ resume.committed > resume.start => resume.session \in created
      /\ kept.committed > kept.start => kept.session \in named
  BY <1>2 DEF Durable, Point, Backed
<1>4. Point(resume, created)' /\ Point(kept, named)'
  BY <1>1, <1>3, PointKept, Zenon DEF Durable
<1>5. Later(kept, resume)'
  BY <1>1, LaterGrows, Zenon DEF Durable, Point
<1>6. Runs'
  BY RunsKept, Zenon DEF Durable
<1>7. Names'
  BY Zenon DEF Durable, Names
<1> QED BY <1>4, <1>5, <1>6, <1>7, Zenon DEF Durable

LEMMA DiskKept ==
  ASSUME Sound, Sound', AgentGrows, Durable, UNCHANGED disk PROVE Durable'
<1>1. UNCHANGED <<files, created, header, resume, fsynced, named, kept>>
  BY Zenon DEF disk
<1> QED BY <1>1, SameFiles, PointsSynced, DurableKept, Zenon DEF Durable, Names, Runs

-----------------------------------------------------------------------------
(* Steps of the agent and the network.                                     *)

\* The process goes on as it was, while the agent's spool grows or its link goes down.
LEMMA ProcessKept ==
  ASSUME Sound, Sound', AgentGrows, Process, conn' \in {conn, "down"},
         UNCHANGED <<files, created, resume, fsynced, kept, mpc, st, mfile, fileLen, todo, pub>>
  PROVE  Process'
<1>1. UNCHANGED <<files, created, resume, fsynced, kept, mpc, st, mfile, fileLen, todo, pub>>
  OBVIOUS
<1>2. Cut
  BY <1>1, SameFiles, Zenon
<1>3. st \in States /\ resume \in States /\ st.start <= st.committed /\ st.committed \in Nat /\ st.start \in Nat
      /\ st.epoch \in 0..MaxEpoch /\ st.epoch \in Nat
  BY StateFields, Zenon DEF Sound, MirrorSound, MirrorTyped
<1>4. mpc # "down" => Point(st, created)'
  BY <1>1, <1>2, <1>3, PointKept, Zenon DEF Process, Point, Backed
<1>5. mpc # "down" => Later(resume, st)'
  BY <1>1, <1>3, LaterGrows, Zenon DEF Process, Point
<1>6. Opened' = Opened /\ Topmost' = Topmost /\ Published' = Published
  BY <1>1, Zenon DEF Opened, Topmost, Published
<1>7. st.epoch > 0 => st.committed + Len(todo) <= aHead'[st.epoch]
  <2>1. st.epoch > 0 => st.epoch \in EpochIds
    BY <1>3, EpochFacts, Zenon
  <2>2. Len(todo) \in Nat
    BY SeqLen, Zenon DEF Sound, MirrorSound, MirrorTyped
  <2> QED BY <1>3, <2>1, <2>2, AgentFacts, NewAgentFacts, SMTT(20) DEF AgentGrows, Process, Sound
<1>8. mpc = "down" => conn' = "down"
  BY DEF Process
<1> QED BY <1>1, <1>4, <1>5, <1>6, <1>7, <1>8 DEF Process

-----------------------------------------------------------------------------
(* Frames and the connection.                                              *)

LEMMA NewReachFacts ==
  ASSUME MirrorTyped' PROVE Reach' \in Nat /\ st'.committed \in Nat /\ Len(todo') \in Nat
<1>1. st' \in States /\ todo' \in Seq(Packets)
  BY DEF MirrorTyped
<1> QED BY <1>1, StateFields, SeqLen DEF Reach

LEMMA LinkDown ==
  ASSUME Hangup PROVE Link'
  BY Zenon DEF Hangup, Link

\* The link is as it was, and the process has not moved with respect to it.
LEMMA LinkKept ==
  ASSUME Sound, Sound', Link, AgentGrows, aEpoch' = aEpoch, UNCHANGED linkVars,
         Reach' = Reach, st'.session = st.session, st'.epoch = st.epoch,
         mpc = "reading" => mpc' = mpc /\ st'.committed = st.committed,
         mpc' = "idle" => conn = "down",
         \A s \in Sessions : s > st.session /\ files'[s] # <<>> =>
           files[s] # <<>> /\ First(s)' = First(s)
  PROVE  Link'
<1>1. conn' = conn /\ pos' = pos /\ wire' = wire
  BY Zenon DEF linkVars
<1> SUFFICES ASSUME conn = "up" PROVE Stream' /\ Position' /\ Welcome' /\ Clear'
  BY <1>1, Zenon DEF Link
<1>2. Stream /\ Position /\ Welcome /\ Clear
  BY Zenon DEF Link
<1>3. aHead[aEpoch] \in Nat /\ aHead'[aEpoch] \in Nat /\ aHead[aEpoch] <= aHead'[aEpoch]
      /\ aOldest[aEpoch] \in Nat /\ aOldest'[aEpoch] \in Nat /\ aOldest[aEpoch] <= aOldest'[aEpoch]
  BY AgentFacts, NewAgentFacts, Zenon DEF Sound, AgentGrows
<1>4. ASSUME NEW f \in Frames, NEW p, Fits(f, p) PROVE Fits(f, p)'
  BY <1>3, <1>4, AfterIs, FrameFields DEF Fits, After
<1>5. Stream'
  <2>1. Preamble1'
    BY <1>1, <1>2, Zenon DEF Stream, Preamble1
  <2>2. ASSUME NEW i \in 1..Len(wire), i # 1 PROVE Fits(wire[i], After(wire[i - 1]))'
    BY <1>1, <1>2, <1>4, <2>2, WireFacts, Zenon DEF Stream, Sound
  <2>3. 1 \in 1..Len(wire) => Fits(wire[1], Reach)'
    BY <1>1, <1>2, <1>4, WireFacts, Zenon DEF Stream, Sound
  <2> QED BY <1>1, <2>1, <2>2, <2>3, Zenon DEF Stream
<1>6. Position'
  <2>1. pos \in Nat
    BY ConstFacts DEF Sound, LinkTyped
  <2> QED BY <1>1, <1>2, <1>3, <2>1 DEF Position, After
<1>7. Welcome'
  <2>1. Greeted' = Greeted
    BY <1>1, Zenon DEF Greeted
  <2>2. CASE Greeted
    BY <1>2, <2>1, <2>2, Zenon DEF Welcome
  <2>3. CASE ~Greeted
    <3>1. wire[1] \in Frames /\ wire[1].type = "preamble" /\ 1 \in 1..Len(wire)
      BY <2>3, WireFacts DEF Greeted, Sound
    <3>2. mpc = "reading" /\ wire[1].from \in Nat
      BY <1>2, <3>1, FrameFields, Zenon DEF Stream, Preamble1
    <3>3. st'.committed = st.committed
      BY <3>2, Zenon
    <3>4. wire[1].from = st.committed \/ wire[1].from <= aOldest'[aEpoch]
      BY <1>2, <1>3, <2>3, <3>2 DEF Welcome
    <3> QED BY <1>1, <1>2, <2>1, <2>3, <3>3, <3>4, Zenon DEF Welcome
  <2> QED BY <2>2, <2>3
<1>8. Clear'
  BY <1>1, <1>2, Zenon DEF Clear
<1> QED BY <1>5, <1>6, <1>7, <1>8, Zenon

\* serve puts a frame on the wire.
LEMMA SendLink ==
  ASSUME Sound, Sound', Process, Link, Send PROVE Link'
<1>1. UNCHANGED <<mirrorVars, agentVars, conn>> /\ conn = "up"
  BY DEF Send
<1>2. UNCHANGED <<st, todo, files, mpc, aEpoch, aHead, aOldest>> /\ Reach' = Reach
  BY <1>1, Zenon DEF mirrorVars, disk, memory, agentVars, Reach
<1>3. Stream /\ Position /\ Welcome /\ Clear
  BY <1>1, Zenon DEF Link
<1>4. pos \in Nat /\ aHead[aEpoch] \in Nat /\ aOldest[aEpoch] \in Nat /\ aOldest[aEpoch] <= aHead[aEpoch]
      /\ aOldest[aEpoch] \in 0..MaxGpidx
  BY AgentFacts, ConstFacts DEF Sound, LinkTyped
<1>5. PICK f \in Frames :
         /\ wire' = Append(wire, f) /\ pos' = After(f) /\ f.type # "preamble"
         /\ Fits(f, pos) /\ (f.type = "batch" => aOldest[aEpoch] <= f.base)
  <2>1. CASE pos < aOldest[aEpoch] /\ wire' = Append(wire, GapTo(aOldest[aEpoch])) /\ pos' = aOldest[aEpoch]
    <3> DEFINE f == GapTo(aOldest[aEpoch])
    <3>1. f \in Frames /\ f.type = "gap" /\ f.to = aOldest[aEpoch]
      BY <1>4, Zenon DEF GapTo, Frames, Gaps
    <3>2. After(f) = aOldest[aEpoch]
      BY <3>1, AfterIs, Zenon
    <3> HIDE DEF f
    <3>3. Fits(f, pos)
      BY <1>4, <3>1, <3>2 DEF Fits
    <3> QED BY <2>1, <3>1, <3>2, <3>3, Zenon DEF f
  <2>2. ASSUME NEW n \in 1..MaxBatch, pos + n <= aHead[aEpoch], pos >= aOldest[aEpoch],
               wire' = Append(wire, PktBatch(pos, n)), pos' = pos + n
        PROVE  \E f \in Frames :
                 /\ wire' = Append(wire, f) /\ pos' = After(f) /\ f.type # "preamble"
                 /\ Fits(f, pos) /\ (f.type = "batch" => aOldest[aEpoch] <= f.base)
    <3> DEFINE f == PktBatch(pos, n)
    <3>1. f \in Frames
      BY <2>2, ConstFacts DEF PktBatch, Frames, Batches, Sound, LinkTyped
    <3>2. f.type = "batch" /\ f.base = pos /\ f.n = n /\ f.epoch = aEpoch
      BY Zenon DEF PktBatch
    <3>3. After(f) = pos + n
      BY <3>1, <3>2, AfterIs, Zenon
    <3> HIDE DEF f
    <3>4. Fits(f, pos)
      BY <1>4, <2>2, <3>2, <3>3 DEF Fits
    <3> QED BY <1>4, <2>2, <3>1, <3>2, <3>3, <3>4, Zenon DEF f
  <2> QED BY <2>1, <2>2, Zenon DEF Send
<1>6. /\ Len(wire) \in Nat /\ Len(wire') = Len(wire) + 1 /\ wire' # <<>>
      /\ \A i \in 1..Len(wire) : wire'[i] = wire[i]
      /\ wire'[Len(wire) + 1] = f
  BY <1>5, WireFacts, SeqAppend DEF Sound
<1>7. \A g, p : Fits(g, p)' <=> Fits(g, p)
  BY <1>2, Zenon DEF Fits, After
<1>8. wire = <<>> <=> Len(wire) = 0
  BY WireFacts, Zenon DEF Sound
<1>9. Stream'
  <2>1. Preamble1'
    BY <1>2, <1>3, <1>5, <1>6, SMTT(20) DEF Stream, Preamble1
  <2>2. Len(wire) = 0 => Fits(f, Reach)
    BY <1>3, <1>4, <1>5, <1>8, FrameFields, ReachFacts, SMTT(20) DEF Position, Fits, Sound, MirrorSound
  <2>3. Len(wire) > 0 => Fits(f, After(wire[Len(wire)]))
    BY <1>3, <1>5, <1>6, <1>8 DEF Position
  <2>4. ASSUME NEW i \in 1..Len(wire')
        PROVE  Fits(wire'[i], IF i = 1 THEN Reach ELSE After(wire'[i - 1]))
    <3>1. CASE i = Len(wire) + 1
      BY <1>6, <2>2, <2>3, <3>1
    <3>2. CASE i \in 1..Len(wire)
      BY <1>3, <1>6, <3>2 DEF Stream
    <3> QED BY <1>6, <3>1, <3>2
  <2> QED BY <1>2, <1>7, <2>1, <2>4, Zenon DEF Stream, After
<1>10. Position'
  BY <1>2, <1>5, <1>6, Zenon DEF Position, After, Fits
<1>11. Welcome'
  <2>1. CASE Len(wire) = 0
    BY <1>2, <1>3, <1>5, <1>6, <1>8, <2>1 DEF Welcome, Greeted
  <2>2. CASE Len(wire) > 0
    <3>1. wire'[1] = wire[1] /\ Greeted' = Greeted
      BY <1>6, <1>8, <2>2 DEF Greeted
    <3>2. Len(wire) > 1 => wire'[2] = wire[2] /\ Len(wire') > 1
      BY <1>6
    <3> QED BY <1>2, <1>3, <3>1, <3>2, Zenon DEF Welcome
  <2> QED BY <1>6, <2>1, <2>2
<1>12. Clear'
  <2> SUFFICES ASSUME NEW s \in Sessions, s > st.session, files[s] # <<>>, First(s)[1] = aEpoch,
                      st.epoch = aEpoch, NEW i \in 1..Len(wire'), wire'[i].type = "batch"
               PROVE  First(s)[2] <= wire'[i].base
    BY <1>2, Zenon DEF Clear, First
  <2>1. CASE i \in 1..Len(wire)
    BY <1>3, <1>6, <2>1, Zenon DEF Clear
  <2>2. CASE i = Len(wire) + 1
    <3>1. Above(st)
      BY <1>1, Zenon DEF Process, Point
    <3>2. First(s)[2] <= aOldest[aEpoch] /\ First(s)[2] \in Nat
      BY <3>1, FirstFacts, Zenon DEF Above, Sound, MirrorSound
    <3> QED BY <1>4, <1>5, <1>6, <2>2, <3>2, FrameFields
  <2> QED BY <1>6, <2>1, <2>2
<1> QED BY <1>1, <1>6, <1>9, <1>10, <1>11, <1>12, <1>2, Zenon DEF Link

\* The reader of a new connection is put at or below the commit point, or a GAP says why
\* not.
LEMMA runOnceLink ==
  ASSUME CallsSucceed, Sound, Sound', Process, Link, runOnce PROVE Link'
<1>1. UNCHANGED <<disk, memory, agentVars>> /\ conn' = "up" /\ mpc' = "reading" /\ mpc = "idle"
  BY Zenon DEF runOnce
<1>2. UNCHANGED <<st, todo, files, pub, aEpoch, aHead, aOldest>> /\ Reach' = Reach
  BY <1>1, Zenon DEF disk, memory, agentVars, Reach
<1>3. pub.committed = st.committed /\ todo = <<>> /\ st.committed \in Nat
  BY <1>1, ReachFacts DEF Process, Published, Sound, MirrorSound
<1>4. Reach = st.committed
  BY <1>3 DEF Reach
<1>5. aHead[aEpoch] \in Nat /\ aOldest[aEpoch] \in Nat /\ aOldest[aEpoch] <= aHead[aEpoch]
  BY AgentFacts DEF Sound
<1>6. PICK v \in Views, id \in Ids :
       LET clamped == IF pub.committed < v.oldest THEN v.oldest ELSE pub.committed
           from    == IF clamped > v.head THEN v.oldest ELSE clamped IN
       /\ pos' = from
       /\ wire' = <<Preamble(id, from)>> \o
                    (IF pub.committed < v.oldest THEN <<GapTo(from)>> ELSE <<>>)
  BY Zenon DEF runOnce
<1>7. /\ v.oldest \in Nat /\ v.head \in Nat /\ v.oldest <= v.head
      /\ v.oldest <= aOldest[aEpoch] /\ v.head <= aHead[aEpoch]
  BY <1>5 DEF Views
<1>8. /\ pos' \in Nat /\ pos' <= aHead[aEpoch]
      /\ pos' = st.committed \/ pos' <= aOldest[aEpoch]
      /\ st.committed < v.oldest => pos' = v.oldest
      /\ st.committed >= v.oldest => pos' <= st.committed
  BY <1>3, <1>6, <1>7, <1>5
<1>9. id = aEpoch /\ Preamble(id, pos') \in Frames /\ GapTo(pos') \in Frames
  <2>1. pos' \in 0..MaxGpidx /\ aEpoch \in EpochIds
    BY AgentFacts, Zenon DEF Sound, LinkTyped
  <2>2. id = aEpoch
    BY Zenon DEF Ids, CallsSucceed
  <2>3. id \in 0..MaxEpoch
    BY <2>1, <2>2, ConstFacts DEF EpochIds
  <2> QED BY <2>1, <2>2, <2>3, Zenon DEF Preamble, GapTo, Frames, Preambles, Gaps
<1> DEFINE p == Preamble(id, pos')
           g == GapTo(pos')
<1>10. /\ p.type = "preamble" /\ p.epoch = aEpoch /\ p.link = aEpoch /\ p.from = pos'
       /\ g.type = "gap" /\ g.to = pos'
  BY <1>9, Zenon DEF Preamble, GapTo
<1>11. After(p) = pos' /\ After(g) = pos' /\ p \in Frames /\ g \in Frames
  BY <1>9, <1>10, AfterIs, Zenon
<1>12. CASE st.committed < v.oldest
  <2>1. wire' = <<p>> \o <<g>>
    BY <1>3, <1>6, <1>12, Zenon
  <2> HIDE DEF p, g
  <2>2. Len(wire') = 2 /\ wire'[1] = p /\ wire'[2] = g
    BY <1>11, <2>1, PairSeq
  <2>3. \A i \in 1..2 : i = 1 \/ i = 2
    OBVIOUS
  <2>4. wire' # <<>>
    <3>1. Len(<<>>) = 0 /\ 2 # 0
      OBVIOUS
    <3> QED BY <2>2, <3>1, Zenon
  <2>5. Stream'
    BY <1>1, <1>2, <1>7, <1>8, <1>10, <1>11, <1>12, <2>2, <2>3, <1>5, Zenon DEF Stream, Preamble1, Fits, After
  <2>6. Position'
    BY <1>2, <1>8, <1>11, <2>2, <2>4, Zenon DEF Position, After
  <2>7. Welcome'
    BY <1>2, <1>8, <1>10, <2>2, <2>4 DEF Welcome, Greeted
  <2>8. Clear'
    BY <1>10, <2>2, <2>3, Zenon DEF Clear
  <2> QED BY <1>1, <2>5, <2>6, <2>7, <2>8, Zenon DEF Link
<1>13. CASE st.committed >= v.oldest
  <2>0. ~(pub.committed < v.oldest)
    BY <1>3, <1>7, <1>13
  <2>1. wire' = <<p>> \o <<>>
    BY <1>6, <2>0, Zenon
  <2> HIDE DEF p, g
  <2>2. Len(wire') = 1 /\ wire'[1] = p
    BY <1>11, <2>1, OneSeq, Zenon
  <2>3. \A i \in 1..1 : i = 1
    OBVIOUS
  <2>4. wire' # <<>>
    <3>1. Len(<<>>) = 0 /\ 1 # 0
      OBVIOUS
    <3> QED BY <2>2, <3>1, Zenon
  <2>5. Stream'
    BY <1>1, <1>2, <1>7, <1>8, <1>10, <1>11, <2>2, <2>3, <1>5, Zenon DEF Stream, Preamble1, Fits, After
  <2>6. Position'
    BY <1>2, <1>8, <1>11, <2>2, <2>4, SMTT(20) DEF Position, After
  <2>7. Welcome'
    BY <1>2, <1>8, <1>10, <1>13, <2>2, <2>4 DEF Welcome, Greeted
  <2>8. Clear'
    BY <1>10, <2>2, <2>3, Zenon DEF Clear
  <2> QED BY <1>1, <2>5, <2>6, <2>7, <2>8 DEF Link
<1> QED BY <1>3, <1>7, <1>12, <1>13

\* The demux takes a frame off the wire: the next one fits, if the process has got to
\* where the frame ends or the next one is a GAP.
LEMMA TailLink ==
  ASSUME Sound, Sound', Link, wire # <<>>, wire' = Tail(wire), UNCHANGED <<agentVars, conn, pos>>,
         After(wire[1]) <= Reach' \/ (Len(wire) > 1 /\ wire[2].type = "gap"),
         st'.epoch = aEpoch, mpc' # "idle",
         \A s \in Sessions : s > st'.session /\ files'[s] # <<>> /\ First(s)'[1] = aEpoch =>
           s > st.session /\ files[s] # <<>> /\ First(s)' = First(s) /\ st.epoch = aEpoch
  PROVE  Link'
<1>1. UNCHANGED <<aEpoch, aHead, aOldest>> /\ conn = "up" /\ conn' = "up" /\ pos' = pos
  BY Zenon DEF agentVars, Link, Sound, LinkTyped
<1>2. Stream /\ Position /\ Welcome /\ Clear
  BY <1>1, Zenon DEF Link
<1>3. /\ Len(wire) \in Nat /\ Len(wire) > 0 /\ wire \in Seq(Frames)
      /\ \A i \in 1..Len(wire) : wire[i] \in Frames
  BY WireFacts DEF Sound
<1>4. /\ Len(wire') = Len(wire) - 1
      /\ \A i \in 1..Len(wire') : wire'[i] = wire[i + 1] /\ i + 1 \in 1..Len(wire)
  BY <1>3, SeqTail
<1>5. wire' = <<>> <=> Len(wire') = 0
  <2>1. wire' \in Seq(Frames)
    BY Zenon DEF Sound, LinkTyped
  <2> QED BY <2>1, SeqLen, Zenon
<1>6. Reach' \in Nat /\ After(wire[1]) \in Nat
  <2>1. Reach' \in Nat
    BY NewReachFacts, Zenon DEF Sound, MirrorSound
  <2> QED BY <1>3, <2>1, AfterIs
<1>7. \A g, p : Fits(g, p)' <=> Fits(g, p)
  BY <1>1, Zenon DEF Fits, After
<1>8. Stream'
  <2>1. Preamble1'
    BY <1>1, <1>2, <1>4, <1>3 DEF Stream, Preamble1
  <2>2. ASSUME NEW i \in 1..Len(wire'), i # 1 PROVE Fits(wire'[i], After(wire'[i - 1]))
    <3>1. i - 1 \in 1..Len(wire') /\ i + 1 \in 1..Len(wire) /\ i + 1 # 1 /\ (i + 1) - 1 = i /\ (i - 1) + 1 = i
      BY <1>3, <1>4, <2>2
    <3> QED BY <1>2, <1>4, <3>1, Zenon DEF Stream
  <2>3. ASSUME 1 \in 1..Len(wire') PROVE Fits(wire'[1], Reach')
    <3>1. wire'[1] = wire[2] /\ 2 \in 1..Len(wire) /\ wire[2] \in Frames
      BY <1>3, <1>4, <2>3
    <3>2. Fits(wire[2], After(wire[1]))
      <4>1. 2 # 1 /\ 2 - 1 = 1
        OBVIOUS
      <4> QED BY <1>2, <3>1, <4>1, Zenon DEF Stream
    <3>3. wire[2].type = "batch" => wire[2].base <= Reach'
      BY <1>6, <3>1, <3>2, FrameFields DEF Fits
    <3> QED BY <3>1, <3>2, <3>3, Zenon DEF Fits
  <2> QED BY <1>4, <1>7, <2>1, <2>2, <2>3, Zenon DEF Stream, After
<1>9. Position'
  <2>1. pos \in Nat
    BY ConstFacts DEF Sound, LinkTyped
  <2>2. CASE Len(wire) = 1
    BY <1>1, <1>2, <1>4, <1>5, <1>6, <2>1, <2>2 DEF Position
  <2>3. CASE Len(wire) > 1
    <3>1. wire'[Len(wire')] = wire[Len(wire)]
      BY <1>3, <1>4, <2>3
    <3>2. pos = After(wire[Len(wire)]) /\ pos <= aHead[aEpoch]
      BY <1>2, Zenon DEF Position
    <3>3. wire' # <<>>
      BY <1>3, <1>4, <1>5, <2>3
    <3>4. After(wire'[Len(wire')]) = pos
      BY <3>1, <3>2, Zenon
    <3> QED BY <1>1, <3>2, <3>3, <3>4, Zenon DEF Position
  <2>4. Len(wire) = 1 \/ Len(wire) > 1
    <3>1. Len(wire) \in Nat /\ Len(wire) > 0
      BY <1>3, Zenon
    <3> DEFINE n == Len(wire)
    <3> HIDE DEF n
    <3>2. n \in Nat /\ n > 0 => n = 1 \/ n > 1
      OBVIOUS
    <3> QED BY <3>1, <3>2, Zenon DEF n
  <2> QED BY <2>2, <2>3, <2>4, Zenon
<1>10. Welcome'
  <2>1. ASSUME wire' # <<>> PROVE wire'[1].type # "preamble"
    <3>1. 1 \in 1..Len(wire') /\ 1 + 1 # 1
      BY <1>3, <1>4, <1>5, <2>1
    <3>2. wire'[1] = wire[1 + 1] /\ 1 + 1 \in 1..Len(wire)
      BY <1>4, <3>1, Zenon
    <3> QED BY <1>2, <3>1, <3>2, Zenon DEF Stream, Preamble1
  <2>2. Greeted'
    BY <2>1, Zenon DEF Greeted
  <2> QED BY <1>1, <2>2, Zenon DEF Welcome
<1>11. Clear'
  <2> SUFFICES ASSUME NEW s \in Sessions, s > st'.session, files'[s] # <<>>, First(s)'[1] = aEpoch,
                      NEW i \in 1..Len(wire'), wire'[i].type = "batch"
               PROVE  First(s)'[2] <= wire'[i].base
    BY <1>1, Zenon DEF Clear
  <2> QED BY <1>1, <1>2, <1>4, Zenon DEF Clear
<1> QED BY <1>1, <1>8, <1>9, <1>10, <1>11, Zenon DEF Link
=============================================================================

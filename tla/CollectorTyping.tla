--------------------------- MODULE CollectorTyping ----------------------------
(***************************************************************************)
(* What holds of the mirror whatever fails: its types, and that a session  *)
(* with a durable successor stays as it is.                                *)
(***************************************************************************)
EXTENDS CollectorFacts

LEMMA TypedPartsNext == Typed' <=> MirrorTyped' /\ LinkTyped' /\ PcTyped'
  BY TypedParts, PTL

-----------------------------------------------------------------------------
(* The link.                                                               *)

LEMMA CaptureTyped == ASSUME LinkTyped, Capture PROVE LinkTyped'
<1>1. /\ aEpoch \in EpochIds /\ aHead \in [EpochIds -> 0..MaxGpidx] /\ aOldest \in [EpochIds -> 0..MaxGpidx]
      /\ aHead[aEpoch] < MaxGpidx /\ aHead' = [aHead EXCEPT ![aEpoch] = @ + 1]
      /\ UNCHANGED <<aEpoch, aOldest, conn, pos, wire>>
  BY Zenon DEF Capture, LinkTyped, linkVars
<1>2. aHead' \in [EpochIds -> 0..MaxGpidx]
  BY <1>1, ConstFacts
<1>3. ASSUME NEW e \in EpochIds, aOldest[e] <= aHead[e] PROVE aOldest[e] <= aHead'[e]
  BY <1>1, <1>3, ConstFacts
<1> QED BY <1>1, <1>2, <1>3, Zenon DEF LinkTyped

LEMMA RetireTyped == ASSUME LinkTyped, Retire PROVE LinkTyped'
<1>1. PICK n \in (aOldest[aEpoch] + 1)..aHead[aEpoch] : aOldest' = [aOldest EXCEPT ![aEpoch] = n]
  BY Zenon DEF Retire
<1>2. /\ aEpoch \in EpochIds /\ aHead \in [EpochIds -> 0..MaxGpidx] /\ aOldest \in [EpochIds -> 0..MaxGpidx]
      /\ UNCHANGED <<aEpoch, aHead, conn, pos, wire>>
  BY Zenon DEF Retire, LinkTyped, linkVars
<1>3. n \in 0..MaxGpidx /\ n <= aHead[aEpoch]
  BY <1>2, ConstFacts
<1>4. aOldest' \in [EpochIds -> 0..MaxGpidx]
  BY <1>1, <1>2, <1>3, Zenon
<1>5. ASSUME NEW e \in EpochIds, aOldest[e] <= aHead[e] PROVE aOldest'[e] <= aHead[e]
  BY <1>1, <1>2, <1>3, <1>5
<1> QED BY <1>2, <1>4, <1>5, Zenon DEF LinkTyped

LEMMA HangupTyped ==
  ASSUME LinkTyped, Hangup, UNCHANGED agentVars PROVE LinkTyped'
  BY ConstFacts DEF Hangup, LinkTyped, agentVars

LEMMA WipeTyped == ASSUME LinkTyped, Wipe PROVE LinkTyped'
  BY ConstFacts DEF Wipe, Hangup, LinkTyped, EpochIds

LEMMA SendTyped == ASSUME LinkTyped, Send PROVE LinkTyped'
<1> USE ConstFacts DEF LinkTyped
<1>1. UNCHANGED <<agentVars, conn>> /\ wire \in Seq(Frames)
  BY Zenon DEF Send
<1>2. CASE pos < aOldest[aEpoch] /\ wire' = Append(wire, GapTo(aOldest[aEpoch])) /\ pos' = aOldest[aEpoch]
  <2>1. GapTo(aOldest[aEpoch]) \in Frames
    BY Zenon DEF GapTo, Frames, Gaps
  <2> QED BY <1>1, <1>2, <2>1 DEF agentVars
<1>3. ASSUME NEW n \in 1..MaxBatch, pos + n <= aHead[aEpoch],
             wire' = Append(wire, PktBatch(pos, n)), pos' = pos + n
      PROVE  LinkTyped'
  <2>1. PktBatch(pos, n) \in Frames
    BY <1>3 DEF PktBatch, Frames, Batches
  <2> QED BY <1>1, <1>3, <2>1 DEF agentVars
<1> QED BY <1>2, <1>3, Zenon DEF Send

LEMMA runOnceTyped == ASSUME LinkTyped, runOnce, pub.committed \in Nat PROVE LinkTyped'
<1> USE ConstFacts DEF LinkTyped
<1>1. PICK v \in Views, id \in Ids :
       LET clamped == IF pub.committed < v.oldest THEN v.oldest ELSE pub.committed
           from    == IF clamped > v.head THEN v.oldest ELSE clamped IN
       /\ pos' = from
       /\ wire' = <<Preamble(id, from)>> \o
                    (IF pub.committed < v.oldest THEN <<GapTo(from)>> ELSE <<>>)
  BY Zenon DEF runOnce
<1>2. v.oldest \in 0..MaxGpidx /\ v.head \in 0..MaxGpidx
  BY DEF Views
<1>3. pos' \in 0..MaxGpidx
  BY <1>1, <1>2
<1>4. Preamble(id, pos') \in Frames /\ GapTo(pos') \in Frames
  <2>1. id \in 0..MaxEpoch
    BY DEF Ids, EpochIds
  <2> QED BY <1>3, <2>1, Zenon DEF Preamble, GapTo, Frames, Preambles, Gaps
<1>5. wire' \in Seq(Frames)
  <2>1. wire' = <<Preamble(id, pos')>> \o <<GapTo(pos')>> \/ wire' = <<Preamble(id, pos')>> \o <<>>
    BY <1>1, Zenon
  <2> QED BY <1>4, <2>1, PairSeq, OneSeq, ZenonT(30)
<1> QED BY <1>3, <1>5, Zenon DEF runOnce, agentVars

LEMMA ReceiveTyped == ASSUME LinkTyped, NEW type, Receive(type) PROVE LinkTyped'
<1>1. wire' \in Seq(Frames)
  BY SeqTail, Zenon DEF Receive, LinkTyped
<1> QED BY <1>1, Zenon DEF Receive, LinkTyped, agentVars

-----------------------------------------------------------------------------
(* The mirror, step by step.                                               *)

LEMMA WriteSound == ASSUME MirrorSound, MirrorWrite PROVE MirrorSound'
<1> USE ConstFacts
<1>1. mfile \in Sessions /\ files[mfile] \in Seq(Packets) /\ todo \in Seq(Packets)
  BY Zenon DEF MirrorWrite, MirrorSound, MirrorTyped
<1> DEFINE new == files[mfile] \o todo
<1>2. new \in Seq(Packets) /\ Len(new) = Len(files[mfile]) + Len(todo)
  BY <1>1, SeqConcat, Zenon
<1>3. Len(files[mfile]) \in Nat /\ Len(todo) \in Nat
  BY <1>1, SeqLen, Zenon
<1>4. files' = [files EXCEPT ![mfile] = new]
  BY Zenon DEF MirrorWrite
<1> HIDE DEF new
<1>5. MirrorTyped'
  BY <1>2, <1>4, Zenon DEF MirrorWrite, memory, MirrorSound, MirrorTyped
<1>6. Sealed'
  <2>1. UNCHANGED <<created, resume, fsynced, named, kept, st, mfile>> /\ mpc # "down" /\ mpc' # "down" /\ mfile # -1
    BY Zenon DEF MirrorWrite, memory
  <2>2. \A s \in Sessions : fsynced[s] <= Len(files'[s])
    BY <1>1, <1>2, <1>3, <1>4 DEF MirrorSound, MirrorTyped, Sealed
  <2>3. \A s \in Sessions \ created : files'[s] = <<>>
    BY <1>4, Zenon DEF MirrorWrite, MirrorSound, MirrorTyped, Sealed
  <2> QED BY <2>1, <2>2, <2>3, Zenon DEF MirrorSound, Sealed
<1> QED BY <1>5, <1>6, Zenon DEF MirrorSound, MirrorWrite, PcTyped

LEMMA SyncSound == ASSUME MirrorSound, MirrorSync PROVE MirrorSound'
<1> USE ConstFacts
<1>1. /\ mfile \in Sessions /\ Len(files[mfile]) \in Nat /\ Len(todo) \in Nat
      /\ st \in States /\ st.start <= st.committed
  BY SeqLen, Zenon DEF MirrorSound, MirrorTyped, MirrorSync, Sealed
<1>2. st' \in States /\ st'.start <= st'.committed /\ st'.session = st.session
  <2>1. st.committed \in Nat /\ st.start \in Nat
    <3>1. st \in States
      BY <1>1, Zenon
    <3> QED BY <3>1, StateFields, Zenon
  <2>2. st.committed + Len(todo) \in Nat
    BY <1>1, <2>1
  <2>3. st' = [st EXCEPT !.committed = st.committed + Len(todo)]
    BY Zenon DEF MirrorSync
  <2> QED BY <1>1, <2>1, <2>2, <2>3, CommittedExcept
<1>3. /\ fsynced' = [fsynced EXCEPT ![mfile] = Len(files[mfile])] /\ fileLen' = fileLen + Len(todo)
      /\ UNCHANGED <<files, created, header, resume, named, kept, gh, mfile, pub, outages>>
      /\ todo' = <<>> /\ mpc' = "persist" /\ mpc = "sync"
  BY Zenon DEF MirrorSync
<1>4. fsynced' \in [Sessions -> Nat] /\ \A s \in Sessions : fsynced'[s] <= Len(files[s])
  BY <1>1, <1>3, SMTT(20) DEF MirrorSound, MirrorTyped, Sealed
<1>5. todo' \in Seq(Packets) /\ fileLen' \in Nat
  BY <1>1, <1>3 DEF MirrorSound, MirrorTyped
<1>6. MirrorTyped'
  BY <1>2, <1>3, <1>4, <1>5, Zenon DEF MirrorSound, MirrorTyped
<1>7. Sealed'
  BY <1>2, <1>3, <1>4, Zenon DEF MirrorSound, Sealed
<1> QED BY <1>3, <1>6, <1>7, Zenon DEF MirrorSound, PcTyped

LEMMA PersistSound == ASSUME MirrorSound, persistState PROVE MirrorSound'
<1>1. /\ mpc # "down" /\ mpc' \notin {"down", "sync"} /\ resume' = st /\ kept' = st /\ named' = created
      /\ UNCHANGED <<files, created, header, fsynced, memory, outages>> /\ PcTyped'
  BY Zenon DEF persistState, PcTyped
<1>2. MirrorTyped'
  BY <1>1, Zenon DEF MirrorSound, MirrorTyped, memory
<1>3. Sealed'
  <2>1. st.session <= st.session
    BY StateFields DEF MirrorSound, MirrorTyped
  <2> QED BY <1>1, <2>1, Zenon DEF MirrorSound, Sealed, memory
<1> QED BY <1>1, <1>2, <1>3, Zenon DEF MirrorSound

LEMMA PublishSound ==
  ASSUME MirrorSound, PublishSession \/ PublishLen PROVE MirrorSound'
<1>1. pub \in Pubs /\ st \in States /\ fileLen \in Nat
  BY Zenon DEF MirrorSound, MirrorTyped
<1>2. pub' \in Pubs
  <2>1. CASE PublishSession
    BY <1>1, <2>1, PubExcept, Zenon DEF PublishSession
  <2>2. CASE PublishLen
    BY <1>1, <2>2, PubLenExcept, Zenon DEF PublishLen
  <2> QED BY <2>1, <2>2, Zenon
<1>3. UNCHANGED <<disk, gh, st, mfile, fileLen, todo, outages>> /\ mpc # "down" /\ mpc' \notin {"down", "sync"} /\ PcTyped'
  BY Zenon DEF PublishSession, PublishLen, PcTyped
<1>4. MirrorTyped'
  BY <1>2, <1>3, Zenon DEF disk, MirrorSound, MirrorTyped
<1>5. Sealed'
  BY <1>3, Zenon DEF disk, MirrorSound, Sealed
<1> QED BY <1>3, <1>4, <1>5, Zenon DEF MirrorSound

LEMMA OpenSound ==
  ASSUME MirrorSound, OpenMirror \/ NewSessionFile PROVE MirrorSound'
<1> DEFINE r == IF mpc = "down" THEN resume ELSE st
<1>1. OpenSession(r) /\ mpc' \notin {"down", "sync"} /\ UNCHANGED <<resume, named, kept, gh, todo, outages>> /\ PcTyped'
  BY Zenon DEF OpenMirror, NewSessionFile, PcTyped
<1>2. r \in States /\ r.start <= r.committed /\ resume.session <= r.session
  <2>1. resume.session <= resume.session
    BY StateFields DEF MirrorSound, MirrorTyped
  <2> QED BY <2>1, Zenon DEF MirrorSound, MirrorTyped, Sealed
<1> HIDE DEF r
<1>3. r.session \in Sessions /\ r.start \in Nat
  BY <1>2, ConstFacts DEF States
<1>4. PICK n \in Haves(r) :
        /\ OpenFile(r.session, n)
        /\ st' = IF Blank(r.session) THEN r ELSE [r EXCEPT !.committed = r.start + n]
        /\ mfile' = r.session /\ fileLen' = Len(files'[r.session])
  BY <1>1, Zenon DEF OpenSession
<1>5. n \in 0..Len(files[r.session])
  BY <1>2, <1>4, HavesAre, Zenon DEF MirrorSound
<1>6. n \in Nat /\ r.start + n \in Nat /\ r.start <= r.start + n
  BY <1>3, <1>5
<1>7. st' \in States /\ st'.session = r.session /\ st'.start <= st'.committed
  BY <1>2, <1>4, <1>6, CommittedExcept
<1>8. /\ files' \in [Sessions -> Seq(Packets)] /\ created' \subseteq Sessions
      /\ header' \in [Sessions -> Garbage..MaxEpoch] /\ fsynced' \in [Sessions -> Nat]
      /\ r.session \in created' /\ created' \subseteq created \cup {r.session}
      /\ \A t \in Sessions : fsynced'[t] <= Len(files'[t])
      /\ \A t \in Sessions \ created' : files'[t] = <<>>
  BY <1>3, <1>4, <1>5, OpenFileSound, Zenon DEF MirrorSound
<1>9. mfile' = r.session /\ fileLen' = Len(files'[r.session])
  BY <1>4, Zenon
<1>10. fileLen' \in Nat
  BY <1>3, <1>8, <1>9, SeqLen, Zenon
<1>11. pub' \in Pubs
  <2>1. st'.committed \in Nat /\ st'.session \in Sessions
    BY <1>7, StateFields, Zenon
  <2>2. pub' = pub \/ pub' = [committed |-> st'.committed, session |-> st'.session, len |-> fileLen']
    BY Zenon DEF OpenMirror, NewSessionFile
  <2> QED BY <1>10, <2>1, <2>2, SMTT(20) DEF MirrorSound, MirrorTyped, Pubs
<1>12. MirrorTyped'
  BY <1>1, <1>3, <1>7, <1>8, <1>9, <1>10, <1>11, Zenon DEF MirrorSound, MirrorTyped
<1>13. Sealed'
  <2>1. \A s \in created' : s < kept.session => s \in named
    <3>1. kept.session <= r.session /\ kept.session \in Nat /\ r.session \in Nat
      <4>1. kept.session \in Nat /\ r.session \in Nat /\ resume.session \in Nat
        BY <1>2, StateFields, Zenon DEF MirrorSound, MirrorTyped
      <4> QED BY <1>2, <4>1 DEF MirrorSound, Sealed
    <3> QED BY <1>8, <3>1 DEF MirrorSound, Sealed
  <2> QED BY <1>1, <1>2, <1>7, <1>8, <1>9, <2>1, Zenon DEF MirrorSound, Sealed
<1> QED BY <1>1, <1>12, <1>13, Zenon DEF MirrorSound

\* The memory a preamble, a GAP or an error leaves the mirror with.
LEMMA StartSound ==
  ASSUME NEW e \in 0..MaxEpoch, NEW from \in 0..MaxGpidx, StartSession(e, from), st \in States
  PROVE  /\ st' \in States /\ st'.start <= st'.committed /\ st.session <= st'.session
         /\ mfile' = -1 /\ mpc' = "open" /\ UNCHANGED <<fileLen, todo, pub, outages>>
<1>1. st.session \in Nat /\ from \in Nat /\ st.session < MaxSession
  BY StateFields, ConstFacts DEF StartSession
<1>2. st' = [committed |-> from, session |-> st.session + 1, start |-> from, epoch |-> e]
  BY Zenon DEF StartSession
<1>3. st.session + 1 \in Sessions
  BY <1>1, ConstFacts DEF Sessions
<1>4. st' \in States
  BY <1>1, <1>2, <1>3, Zenon DEF States
<1>5. st'.start <= st'.committed /\ st.session <= st'.session
  BY <1>1, <1>2
<1> QED BY <1>4, <1>5, Zenon DEF StartSession

\* SetHeader empties the file of an empty session, or leaves all but gh alone.
LEMMA HeaderSound ==
  ASSUME MirrorSound, NEW h \in EpochIds, SetHeader(h)
  PROVE  /\ files' \in [Sessions -> Seq(Packets)] /\ fsynced' \in [Sessions -> Nat]
         /\ header' \in [Sessions -> Garbage..MaxEpoch] /\ gh' \in 0..MaxEpoch
         /\ \A s \in Sessions : fsynced'[s] <= Len(files'[s])
         /\ \A s \in Sessions \ created : files'[s] = <<>>
         /\ UNCHANGED <<created, resume, named, kept>>
<1>1. gh' = h /\ UNCHANGED <<created, resume, named, kept>> /\ h \in 0..MaxEpoch /\ h \in Garbage..MaxEpoch
  BY ConstFacts DEF SetHeader, EpochIds, Garbage
<1>2. CASE UNCHANGED <<header, files, fsynced>>
  BY <1>1, <1>2, Zenon DEF MirrorSound, MirrorTyped, Sealed
<1>3. CASE /\ mfile # -1 /\ header' = [header EXCEPT ![mfile] = h]
           /\ files' = [files EXCEPT ![mfile] = <<>>] /\ fsynced' = [fsynced EXCEPT ![mfile] = 0]
  <2>1. mfile \in Sessions /\ <<>> \in Seq(Packets) /\ Len(<<>>) = 0
    BY <1>3 DEF MirrorSound, MirrorTyped
  <2>2. /\ files' \in [Sessions -> Seq(Packets)] /\ fsynced' \in [Sessions -> Nat]
        /\ header' \in [Sessions -> Garbage..MaxEpoch]
    BY <1>1, <1>3, <2>1, Zenon DEF MirrorSound, MirrorTyped
  <2>3. \A s \in Sessions : fsynced'[s] <= Len(files'[s])
    BY <1>3, <2>1 DEF MirrorSound, MirrorTyped, Sealed
  <2>4. \A s \in Sessions \ created : files'[s] = <<>>
    BY <1>3, <2>1, Zenon DEF MirrorSound, MirrorTyped, Sealed
  <2> QED BY <1>1, <2>2, <2>3, <2>4, Zenon
<1> QED BY <1>2, <1>3, Zenon DEF SetHeader

LEMMA PreambleSound ==
  ASSUME MirrorSound, LinkTyped, reconcileEpoch PROVE MirrorSound'
<1> DEFINE f == wire[1]
<1>1. f.epoch \in 0..MaxEpoch /\ f.link \in EpochIds /\ f.from \in 0..MaxGpidx /\ mpc = "reading"
  <2>1. f \in Frames /\ f.type = "preamble"
    BY SeqLen DEF reconcileEpoch, Receive, LinkTyped
  <2> QED BY <2>1, Zenon DEF Frames, Preambles, Batches, Gaps, reconcileEpoch, Receive
<1>2. SetHeader(f.link)
  BY Zenon DEF reconcileEpoch
<1>3. \/ f.epoch # 0 /\ AdoptEpoch(f.epoch)
      \/ UNCHANGED <<mpc, st, mfile, fileLen, todo, pub, outages>>
      \/ StartSession(f.epoch, f.from)
  BY Zenon DEF reconcileEpoch
<1> HIDE DEF f
<1>4. /\ files' \in [Sessions -> Seq(Packets)] /\ fsynced' \in [Sessions -> Nat]
      /\ header' \in [Sessions -> Garbage..MaxEpoch] /\ gh' \in 0..MaxEpoch
      /\ \A s \in Sessions : fsynced'[s] <= Len(files'[s])
      /\ \A s \in Sessions \ created : files'[s] = <<>>
      /\ UNCHANGED <<created, resume, named, kept>>
  BY <1>1, <1>2, HeaderSound, Zenon
<1>5. st \in States /\ st.start <= st.committed /\ st.session \in Nat
  BY StateFields, Zenon DEF MirrorSound, MirrorTyped
<1>6. /\ st' \in States /\ st'.start <= st'.committed /\ st.session <= st'.session
      /\ mpc' \in {"reading", "adopt", "open"} /\ UNCHANGED <<fileLen, todo, pub, outages>>
      /\ mfile' = -1 \/ (mfile' = mfile /\ st'.session = st.session)
  <2>1. CASE f.epoch # 0 /\ AdoptEpoch(f.epoch)
    <3>1. st' = [st EXCEPT !.epoch = f.epoch]
      BY <2>1, Zenon DEF AdoptEpoch
    <3>0. f.epoch \in EpochIds
      BY <1>1, <2>1, ConstFacts DEF EpochIds
    <3>2. st' \in States /\ st'.session = st.session /\ st'.start = st.start /\ st'.committed = st.committed
      BY <1>5, <3>0, <3>1, EpochExcept
    <3> QED BY <1>5, <2>1, <3>2 DEF AdoptEpoch
  <2>2. CASE UNCHANGED <<mpc, st, mfile, fileLen, todo, pub, outages>>
    BY <1>1, <1>5, <2>2
  <2>3. CASE StartSession(f.epoch, f.from)
    BY <1>1, <1>5, <2>3, StartSound, Zenon
  <2> QED BY <1>3, <2>1, <2>2, <2>3, Zenon
<1>7. MirrorTyped'
  <2>1. mfile' \in Sessions \cup {-1}
    BY <1>6, Zenon DEF MirrorSound, MirrorTyped
  <2> QED BY <1>4, <1>6, <2>1, Zenon DEF MirrorSound, MirrorTyped
<1>8. Sealed'
  <2>1. resume.session <= st'.session
    <3>1. resume.session \in Nat /\ st'.session \in Nat /\ resume.session <= st.session
      BY <1>1, <1>6, StateFields, Zenon DEF MirrorSound, MirrorTyped, Sealed
    <3> QED BY <1>5, <1>6, <3>1
  <2> QED BY <1>1, <1>4, <1>6, <2>1, Zenon DEF MirrorSound, Sealed
<1> QED BY <1>6, <1>7, <1>8, Zenon DEF MirrorSound, PcTyped

LEMMA GapSound ==
  ASSUME MirrorSound, LinkTyped, handleGap PROVE MirrorSound'
<1> DEFINE f == wire[1]
<1>1. f.to \in 0..MaxGpidx /\ mpc = "reading"
  <2>1. f \in Frames /\ f.type = "gap"
    BY SeqLen DEF handleGap, Receive, LinkTyped
  <2> QED BY <2>1, Zenon DEF Frames, Preambles, Batches, Gaps, handleGap, Receive
<1>2. UNCHANGED mirrorVars \/ (StartSession(st.epoch, f.to) /\ UNCHANGED <<disk, gh>>)
  BY Zenon DEF handleGap
<1> HIDE DEF f
<1>3. CASE UNCHANGED mirrorVars
  BY <1>3, Zenon DEF mirrorVars, disk, memory, MirrorSound, MirrorTyped, PcTyped, Sealed
<1>4. CASE StartSession(st.epoch, f.to) /\ UNCHANGED <<disk, gh>>
  <2>1. /\ st \in States /\ st.session \in Nat /\ st.epoch \in 0..MaxEpoch /\ resume.session \in Nat
        /\ resume.session <= st.session
    BY <1>1, StateFields, Zenon DEF MirrorSound, MirrorTyped, Sealed
  <2>2. /\ st' \in States /\ st'.start <= st'.committed /\ st.session <= st'.session
        /\ mfile' = -1 /\ mpc' = "open" /\ UNCHANGED <<fileLen, todo, pub, outages>>
    BY <1>1, <1>4, <2>1, StartSound, Zenon
  <2>3. resume.session <= st'.session
    <3>1. st'.session \in Nat
      BY <2>2, StateFields, Zenon
    <3> QED BY <2>1, <2>2, <3>1
  <2>4. MirrorTyped'
    BY <1>4, <2>2, Zenon DEF MirrorSound, MirrorTyped, disk
  <2>5. Sealed'
    BY <1>1, <1>4, <2>2, <2>3, Zenon DEF MirrorSound, Sealed, disk
  <2> QED BY <2>2, <2>4, <2>5, Zenon DEF MirrorSound, PcTyped
<1> QED BY <1>2, <1>3, <1>4, Zenon

LEMMA CommitSound ==
  ASSUME MirrorSound, LinkTyped, commit PROVE MirrorSound'
<1>1. todo' \in Seq(Packets)
  <2>1. wire[1] \in Frames /\ wire[1].type = "batch"
    BY SeqLen DEF commit, LinkTyped
  <2>2. wire[1] \in Batches
    BY <2>1, Zenon DEF Frames, Preambles, Batches, Gaps
  <2>3. Keep(wire[1]) \in Seq(Packets)
    BY <2>2, KeepTyped, Zenon DEF MirrorSound, MirrorTyped, Pubs
  <2> QED BY <2>3, Zenon DEF commit, memory, MirrorSound, MirrorTyped
<1>2. /\ UNCHANGED <<disk, gh, st, mfile, fileLen, pub, outages>>
      /\ mpc = "reading" /\ mpc' \in {"idle", "reading", "write"}
  BY Zenon DEF commit, memory
<1>3. MirrorTyped'
  BY <1>1, <1>2, Zenon DEF disk, MirrorSound, MirrorTyped
<1>4. Sealed'
  BY <1>2, Zenon DEF disk, MirrorSound, Sealed
<1> QED BY <1>2, <1>3, <1>4, Zenon DEF MirrorSound, PcTyped

\* Steps that move at most the program counter, of a live process.
LEMMA PcSound ==
  ASSUME MirrorSound, UNCHANGED <<disk, memory>>, outages' \in 0..MaxOutages, PcTyped',
         mpc = mpc' \/ (mpc # "down" /\ mpc' \notin {"down", "sync"})
  PROVE  MirrorSound'
<1>1. MirrorTyped'
  BY Zenon DEF disk, memory, MirrorSound, MirrorTyped
<1>2. Sealed'
  BY Zenon DEF disk, memory, MirrorSound, Sealed
<1> QED BY <1>1, <1>2, Zenon DEF MirrorSound

LEMMA LinkSound ==
  ASSUME MirrorSound, Capture \/ Retire \/ Wipe \/ Send \/ runOnce \/ Drop \/ Heartbeat
  PROVE  MirrorSound'
<1>1. outages \in 0..MaxOutages /\ PcTyped
  BY Zenon DEF MirrorSound, MirrorTyped
<1>2. CASE Capture \/ Retire \/ Wipe \/ Send \/ Heartbeat
  <2>1. UNCHANGED mirrorVars
    BY <1>2, Zenon DEF Capture, Retire, Wipe, Send, Heartbeat, cvars
  <2> QED BY <1>1, <2>1, PcSound, Zenon DEF mirrorVars, PcTyped
<1>3. CASE runOnce
  BY <1>1, <1>3, PcSound, Zenon DEF runOnce, PcTyped
<1>4. CASE Drop
  <2>1. outages' \in 0..MaxOutages
    BY <1>1, <1>4, ConstFacts DEF Drop
  <2> QED BY <1>4, <2>1, PcSound, Zenon DEF Drop, PcTyped
<1> QED BY <1>2, <1>3, <1>4, Zenon

LEMMA ClosedSound ==
  ASSUME MirrorSound, WriteToClosed PROVE MirrorSound'
<1>1. /\ todo' = <<>> /\ UNCHANGED <<disk, gh, st, mfile, fileLen, pub, outages>>
      /\ mpc = "write" /\ mpc' = "idle"
  BY Zenon DEF WriteToClosed
<1>2. <<>> \in Seq(Packets)
  OBVIOUS
<1>3. MirrorTyped'
  BY <1>1, <1>2, Zenon DEF disk, MirrorSound, MirrorTyped
<1>4. Sealed'
  BY <1>1, Zenon DEF disk, MirrorSound, Sealed
<1> QED BY <1>1, <1>3, <1>4, Zenon DEF MirrorSound, PcTyped

LEMMA HeaderErrorSound ==
  ASSUME MirrorSound, LinkTyped, HeaderClosed \/ HeaderFail PROVE MirrorSound'
<1> DEFINE h == wire[1].link
<1>1. h \in 0..MaxEpoch /\ mpc = "reading"
  <2>1. wire[1] \in Frames /\ wire[1].type = "preamble"
    BY SeqLen DEF HeaderClosed, HeaderFail, LinkTyped
  <2>2. h \in EpochIds
    BY <2>1, Zenon DEF Frames, Preambles, Batches, Gaps
  <2> QED BY <2>2, ConstFacts DEF EpochIds, HeaderClosed, HeaderFail
<1>2. SetHeaderClosed(h) \/ SetHeaderFail(h)
  BY Zenon DEF HeaderClosed, HeaderFail
<1> HIDE DEF h
<1>3. /\ UNCHANGED <<created, resume, named, kept, st, mfile, fileLen, todo, pub>>
      /\ gh' = h /\ mpc' = "idle"
  BY <1>2, Zenon DEF SetHeaderClosed, SetHeaderFail, disk
<1>4. outages' \in 0..MaxOutages
  BY <1>2, ConstFacts, SMTT(20) DEF SetHeaderClosed, SetHeaderFail, MirrorSound, MirrorTyped
<1>5. /\ files' \in [Sessions -> Seq(Packets)] /\ fsynced' \in [Sessions -> Nat]
      /\ header' \in [Sessions -> Garbage..MaxEpoch]
      /\ \A s \in Sessions : fsynced'[s] <= Len(files'[s])
      /\ \A s \in Sessions \ created : files'[s] = <<>>
  <2>1. CASE UNCHANGED <<files, fsynced, header>>
    BY <2>1, Zenon DEF MirrorSound, MirrorTyped, Sealed
  <2>2. CASE /\ mfile # -1 /\ files' = [files EXCEPT ![mfile] = <<>>]
             /\ fsynced' = [fsynced EXCEPT ![mfile] = 0] /\ header' = [header EXCEPT ![mfile] = NoHeader]
    <3>1. mfile \in Sessions /\ <<>> \in Seq(Packets) /\ Len(<<>>) = 0 /\ NoHeader \in Garbage..MaxEpoch
      BY <2>2, ConstFacts DEF MirrorSound, MirrorTyped, NoHeader, Garbage
    <3>2. /\ files' \in [Sessions -> Seq(Packets)] /\ fsynced' \in [Sessions -> Nat]
          /\ header' \in [Sessions -> Garbage..MaxEpoch]
      BY <2>2, <3>1, Zenon DEF MirrorSound, MirrorTyped
    <3>3. \A s \in Sessions : fsynced'[s] <= Len(files'[s])
      BY <2>2, <3>1 DEF MirrorSound, MirrorTyped, Sealed
    <3>4. \A s \in Sessions \ created : files'[s] = <<>>
      BY <2>2, <3>1, Zenon DEF MirrorSound, MirrorTyped, Sealed
    <3> QED BY <3>2, <3>3, <3>4, Zenon
  <2> QED BY <1>2, <2>1, <2>2, Zenon DEF SetHeaderClosed, SetHeaderFail, disk
<1>6. MirrorTyped'
  BY <1>1, <1>3, <1>4, <1>5, Zenon DEF MirrorSound, MirrorTyped
<1>7. Sealed'
  BY <1>1, <1>3, <1>5, Zenon DEF MirrorSound, Sealed
<1> QED BY <1>3, <1>6, <1>7, Zenon DEF MirrorSound, PcTyped

-----------------------------------------------------------------------------
(* The faults.                                                             *)

\* What a restart may find in resume.json is a state, of a session that is not behind the
\* durable one.
LEMMA HalfSound ==
  ASSUME MirrorSound, NEW r \in HalfPersisted
  PROVE  r \in States /\ r.start <= r.committed /\ kept.session <= r.session
<1>1. r = resume \/ (r = st /\ mpc \in {"persist", "adopt"})
  BY Zenon DEF HalfPersisted
<1>2. kept.session \in Nat /\ resume.session \in Nat /\ st.session \in Nat
  BY StateFields, Zenon DEF MirrorSound, MirrorTyped
<1>3. kept.session <= resume.session /\ (mpc # "down" => kept.session <= st.session)
  BY <1>2 DEF MirrorSound, Sealed
<1> QED BY <1>1, <1>3, Zenon DEF MirrorSound, MirrorTyped

LEMMA ForgetSound ==
  ASSUME Forget
  PROVE  /\ gh' \in 0..MaxEpoch /\ st' \in States /\ st'.start <= st'.committed
         /\ mfile' = -1 /\ fileLen' \in Nat /\ todo' \in Seq(Packets) /\ pub' \in Pubs
         /\ mpc' = "down" /\ PcTyped'
<1>1. ZeroState \in States /\ ZeroState.start <= ZeroState.committed /\ NoPub \in Pubs
  BY ConstFacts DEF ZeroState, States, NoPub, Pubs
<1>2. Ethernet \in 0..MaxEpoch /\ <<>> \in Seq(Packets)
  BY ConstFacts DEF Ethernet
<1> QED BY <1>1, <1>2, Zenon DEF Forget, PcTyped

LEMMA KillSound == ASSUME MirrorSound, MirrorKill PROVE MirrorSound'
<1>1. /\ resume' \in HalfPersisted /\ Forget /\ UNCHANGED <<files, created, header, fsynced, named, kept>>
      /\ outages < MaxOutages /\ outages' = outages + 1
  BY Zenon DEF MirrorKill
<1>2. resume' \in States /\ resume'.start <= resume'.committed /\ kept.session <= resume'.session
  BY <1>1, HalfSound, Zenon
<1>3. outages' \in 0..MaxOutages
  BY <1>1, ConstFacts DEF MirrorSound, MirrorTyped
<1>4. MirrorTyped'
  BY <1>1, <1>2, <1>3, ForgetSound, Zenon DEF MirrorSound, MirrorTyped
<1>5. Sealed'
  BY <1>1, <1>2, ForgetSound, Zenon DEF MirrorSound, Sealed
<1> QED BY <1>1, <1>4, <1>5, ForgetSound, Zenon DEF MirrorSound

LEMMA PowerSound == ASSUME MirrorSound, MirrorPowerCut PROVE MirrorSound'
<1>1. /\ Forget /\ UNCHANGED header /\ kept' = resume' /\ named' = created'
      /\ fsynced' = [s \in Sessions |-> Len(files'[s])]
      /\ outages < MaxOutages /\ outages' = outages + 1
  BY Zenon DEF MirrorPowerCut
<1>2. created' \subseteq Sessions
  BY Zenon DEF MirrorPowerCut, MirrorSound, MirrorTyped
<1>3. resume' \in States /\ resume'.start <= resume'.committed
  <2>1. CASE resume' \in HalfPersisted
    BY <2>1, HalfSound, Zenon
  <2>2. CASE resume' = kept
    BY <2>2, Zenon DEF MirrorSound, MirrorTyped
  <2> QED BY <2>1, <2>2, Zenon DEF MirrorPowerCut
<1>4. outages' \in 0..MaxOutages
  BY <1>1, ConstFacts DEF MirrorSound, MirrorTyped
<1>5. files' \in [Sessions -> Seq(Packets)] /\ \A s \in Sessions \ created' : files'[s] = <<>>
  BY CutFiles, Zenon
<1>6. \A s \in Sessions : Len(files'[s]) \in Nat
  BY <1>5, SeqLen, Zenon
<1>7. fsynced' \in [Sessions -> Nat] /\ \A s \in Sessions : fsynced'[s] <= Len(files'[s])
  BY <1>1, <1>6
<1>8. MirrorTyped'
  BY <1>1, <1>2, <1>3, <1>4, <1>5, <1>7, ForgetSound, Zenon DEF MirrorSound, MirrorTyped
<1>9. Sealed'
  <2>1. resume'.session <= resume'.session
    BY <1>3, StateFields
  <2> QED BY <1>1, <1>5, <1>7, <2>1, ForgetSound, Zenon DEF Sealed
<1> QED BY <1>8, <1>9, <1>1, ForgetSound, Zenon DEF MirrorSound

\* A failed call leaves the file as it is, with a part of what was to be written, or
\* as openSession would.
LEMMA FailFiles ==
  ASSUME MirrorSound, MirrorFail
  PROVE  /\ files' \in [Sessions -> Seq(Packets)] /\ fsynced' \in [Sessions -> Nat]
         /\ created' \subseteq Sessions /\ header' \in [Sessions -> Garbage..MaxEpoch]
         /\ created \subseteq created' /\ created' \subseteq created \cup {st.session}
         /\ \A s \in Sessions : fsynced'[s] <= Len(files'[s])
         /\ \A s \in Sessions \ created' : files'[s] = <<>>
         /\ \A s \in Sessions \ {st.session} : fsynced'[s] = fsynced[s]
              /\ files'[s] = files[s]
<1>1. st.session \in Sessions /\ 0 \in 0..Len(files[st.session])
  <2>1. st.session \in Sessions
    BY StateFields, Zenon DEF MirrorSound, MirrorTyped
  <2>2. Len(files[st.session]) \in Nat
    BY <2>1, SeqLen, Zenon DEF MirrorSound, MirrorTyped
  <2> QED BY <2>1, <2>2
<1>2. ASSUME mfile # -1, NEW n \in 0..(Len(todo) - 1),
             files' = [files EXCEPT ![mfile] = @ \o SubSeq(todo, 1, n)],
             UNCHANGED <<created, header, fsynced>>
      PROVE  /\ files' \in [Sessions -> Seq(Packets)]
             /\ \A s \in Sessions : fsynced'[s] <= Len(files'[s])
             /\ \A s \in Sessions \ created' : files'[s] = <<>>
             /\ \A s \in Sessions \ {st.session} : files'[s] = files[s]
  <2>1. mfile \in Sessions /\ mfile = st.session /\ mfile \in created
        /\ files[mfile] \in Seq(Packets) /\ todo \in Seq(Packets)
    BY <1>2, Zenon DEF MirrorSound, MirrorTyped, Sealed
  <2>2. SubSeq(todo, 1, n) \in Seq(Packets)
    <3>1. n \in 0..Len(todo)
      BY <2>1, SeqLen
    <3> QED BY <2>1, <3>1, SeqPrefix, Zenon
  <2> DEFINE new == files[mfile] \o SubSeq(todo, 1, n)
  <2>3. new \in Seq(Packets) /\ Len(files[mfile]) <= Len(new)
    <3> DEFINE a == files[mfile]
               b == SubSeq(todo, 1, n)
    <3>1. a \in Seq(Packets) /\ b \in Seq(Packets)
      BY <2>1, <2>2, Zenon
    <3> HIDE DEF a, b
    <3>2. a \o b \in Seq(Packets) /\ Len(a \o b) = Len(a) + Len(b)
      BY <3>1, SeqConcat, Zenon
    <3>3. Len(a) \in Nat /\ Len(b) \in Nat
      BY <3>1, SeqLen, Zenon
    <3>4. Len(a) <= Len(a \o b)
      BY <3>2, <3>3
    <3> QED BY <3>2, <3>4, Zenon DEF a, b
  <2>4. files' = [files EXCEPT ![mfile] = new]
    BY <1>2, Zenon
  <2> HIDE DEF new
  <2>5. Len(new) \in Nat /\ Len(files[mfile]) \in Nat /\ fsynced[mfile] \in Nat /\ fsynced[mfile] <= Len(files[mfile])
    BY <2>1, <2>3, SeqLen, Zenon DEF MirrorSound, MirrorTyped, Sealed
  <2>6. files' \in [Sessions -> Seq(Packets)] /\ files'[mfile] = new
        /\ \A s \in Sessions \ {mfile} : files'[s] = files[s]
    BY <2>1, <2>3, <2>4, Zenon DEF MirrorSound, MirrorTyped
  <2>7. fsynced[mfile] <= Len(new)
    BY <2>3, <2>5
  <2> QED BY <1>2, <2>1, <2>6, <2>7, Zenon DEF MirrorSound, Sealed
<1>3. CASE UNCHANGED <<files, created, header, fsynced>>
  BY <1>3, Zenon DEF MirrorSound, MirrorTyped, Sealed
<1>4. CASE Blank(st.session) /\ created' = created \cup {st.session}
           /\ header' = [header EXCEPT ![st.session] = NoHeader] /\ UNCHANGED <<files, fsynced>>
  <2>1. NoHeader \in Garbage..MaxEpoch
    BY ConstFacts DEF NoHeader, Garbage
  <2> QED BY <1>1, <1>4, <2>1, Zenon DEF MirrorSound, MirrorTyped, Sealed
<1>5. CASE OpenFile(st.session, 0)
  BY <1>1, <1>5, OpenFileSound, Zenon DEF MirrorSound
<1>6. \/ /\ mfile # -1
         /\ \E n \in 0..(Len(todo) - 1) : files' = [files EXCEPT ![mfile] = @ \o SubSeq(todo, 1, n)]
         /\ UNCHANGED <<created, header, fsynced>>
      \/ UNCHANGED <<files, created, header, fsynced>>
      \/ Blank(st.session) /\ created' = created \cup {st.session}
           /\ header' = [header EXCEPT ![st.session] = NoHeader] /\ UNCHANGED <<files, fsynced>>
      \/ OpenFile(st.session, 0)
  BY Zenon DEF MirrorFail
<1>7. ASSUME NEW n \in 0..(Len(todo) - 1), mfile # -1,
             files' = [files EXCEPT ![mfile] = @ \o SubSeq(todo, 1, n)],
             UNCHANGED <<created, header, fsynced>>
      PROVE  /\ fsynced' \in [Sessions -> Nat] /\ created' \subseteq Sessions
             /\ header' \in [Sessions -> Garbage..MaxEpoch]
             /\ created \subseteq created' /\ created' \subseteq created \cup {st.session}
             /\ \A s \in Sessions \ {st.session} : fsynced'[s] = fsynced[s]
  BY <1>7, Zenon DEF MirrorSound, MirrorTyped
<1> QED BY <1>2, <1>3, <1>4, <1>5, <1>6, <1>7, Zenon

LEMMA FailSound == ASSUME MirrorSound, MirrorFail PROVE MirrorSound'
<1>1. /\ UNCHANGED <<named, kept, gh, st, mfile, fileLen, pub>> /\ mpc' = "idle" /\ todo' = <<>>
      /\ mpc # "down" /\ outages < MaxOutages /\ outages' = outages + 1
  BY Zenon DEF MirrorFail
<1>2. resume' \in HalfPersisted
  BY Zenon DEF MirrorFail, HalfPersisted
<1>3. resume' \in States /\ resume'.start <= resume'.committed /\ kept.session <= resume'.session
  BY <1>2, HalfSound, Zenon
<1>4. outages' \in 0..MaxOutages /\ <<>> \in Seq(Packets)
  BY <1>1, ConstFacts DEF MirrorSound, MirrorTyped
<1>5. MirrorTyped'
  BY <1>1, <1>3, <1>4, FailFiles, Zenon DEF MirrorSound, MirrorTyped
<1>6. resume'.session <= st.session /\ kept.session <= st.session
  <2>1. st.session \in Nat /\ resume.session \in Nat /\ kept.session \in Nat
    BY StateFields, Zenon DEF MirrorSound, MirrorTyped
  <2>2. resume.session <= st.session /\ kept.session <= resume.session
    BY <1>1, Zenon DEF MirrorSound, Sealed
  <2>3. resume' = resume \/ resume' = st
    BY <1>2, Zenon DEF HalfPersisted
  <2> QED BY <2>1, <2>2, <2>3
<1>7. \A s \in created' : s < kept.session => s \in named
  <2>1. st.session \in Nat /\ kept.session \in Nat
    BY StateFields, Zenon DEF MirrorSound, MirrorTyped
  <2>2. created' \subseteq created \cup {st.session}
    BY FailFiles, Zenon
  <2> QED BY <1>6, <2>1, <2>2 DEF MirrorSound, Sealed
<1>8. Sealed'
  BY <1>1, <1>3, <1>6, <1>7, FailFiles, Zenon DEF MirrorSound, Sealed
<1> QED BY <1>1, <1>5, <1>8, Zenon DEF MirrorSound, PcTyped

-----------------------------------------------------------------------------
(* Every step.                                                             *)

LEMMA LinkTypedStep ==
  ASSUME MirrorSound, LinkTyped, [CollectorNext]_cvars PROVE LinkTyped'
<1>1. pub.committed \in Nat
  BY Zenon DEF MirrorSound, MirrorTyped, Pubs
<1>2. CASE Capture \/ Retire \/ Wipe \/ Send \/ runOnce
  BY <1>1, <1>2, CaptureTyped, RetireTyped, WipeTyped, SendTyped, runOnceTyped, Zenon
<1>3. CASE Drop \/ ((Broken \/ Crash) /\ UNCHANGED agentVars)
  BY <1>3, HangupTyped, Zenon DEF Drop, Broken, Crash
<1>4. CASE reconcileEpoch \/ handleGap
  BY <1>4, ReceiveTyped, Zenon DEF reconcileEpoch, handleGap
<1>5. CASE commit
  BY <1>5, HangupTyped, ReceiveTyped, Zenon DEF commit
<1>6. CASE UNCHANGED <<agentVars, linkVars>>
  BY <1>6, Zenon DEF LinkTyped, agentVars, linkVars
<1>7. CASE Heartbeat \/ UNCHANGED cvars
  BY <1>6, <1>7, Zenon DEF Heartbeat, cvars
<1> QED BY <1>2, <1>3, <1>4, <1>5, <1>6, <1>7, Zenon DEF CollectorNext, Frame1

LEMMA MirrorSoundStep ==
  ASSUME MirrorSound, LinkTyped, [CollectorNext]_cvars PROVE MirrorSound'
<1>1. CASE Capture \/ Retire \/ Wipe \/ Send \/ runOnce \/ Drop \/ Heartbeat
  BY <1>1, LinkSound, Zenon
<1>2. CASE Frame1
  BY <1>2, PreambleSound, CommitSound, GapSound, Zenon DEF Frame1
<1>3. CASE MirrorStep
  BY <1>3, WriteSound, SyncSound, PersistSound, PublishSound, OpenSound, Zenon DEF MirrorStep
<1>4. CASE Broken \/ Crash
  BY <1>4, ClosedSound, HeaderErrorSound, KillSound, PowerSound, FailSound, Zenon DEF Broken, Crash
<1>5. CASE UNCHANGED cvars
  <2>1. UNCHANGED <<disk, memory, outages, mpc>>
    BY <1>5, Zenon DEF cvars, mirrorVars
  <2> QED BY <2>1, PcSound, Zenon DEF MirrorSound, MirrorTyped, PcTyped
<1> QED BY <1>1, <1>2, <1>3, <1>4, <1>5, Zenon DEF CollectorNext

LEMMA SoundPartsNext == TypedSealed' <=> MirrorSound' /\ LinkTyped'
  BY SoundParts, PTL

LEMMA TypedSealedStep == TypedSealed /\ [CollectorNext]_cvars => TypedSealed'
  BY SoundParts, SoundPartsNext, LinkTypedStep, MirrorSoundStep, Zenon

LEMMA TypedSealedInit == CollectorInit => TypedSealed
<1> SUFFICES ASSUME CollectorInit PROVE TypedSealed
  BY Zenon
<1> USE ConstFacts
<1>1. MirrorInit
  BY Zenon DEF CollectorInit
<1>2. /\ <<>> \in Seq(Packets) /\ <<>> \in Seq(Frames) /\ Len(<<>>) = 0 /\ 0 \in Garbage..MaxEpoch
      /\ 0 \in 0..MaxEpoch /\ 0 \in 0..MaxGpidx /\ 0 \in 0..MaxOutages
  BY DEF Garbage
<1>3. ZeroState \in States /\ ZeroState.start <= ZeroState.committed /\ NoPub \in Pubs
      /\ ZeroState.session <= ZeroState.session
  BY DEF ZeroState, States, NoPub, Pubs
<1>4. MirrorTyped
  BY <1>1, <1>2, <1>3, Zenon DEF MirrorInit, MirrorTyped, Ethernet
<1>5. Sealed
  BY <1>1, <1>2, <1>3 DEF MirrorInit, Sealed
<1>6. LinkTyped
  BY <1>2 DEF CollectorInit, LinkTyped
<1> QED BY <1>1, <1>4, <1>5, <1>6, SoundParts, Zenon DEF MirrorInit, MirrorSound, PcTyped

\* Types of the mirror's, the agent's and the link's state, whatever faults happen.
THEOREM CollectorTypeCorrect == CollectorSpec => []CollectorTypeOK
<1>1. TypedSealed => CollectorTypeOK
  BY Zenon DEF TypedSealed, Typed
<1> QED BY <1>1, TypedSealedInit, TypedSealedStep, PTL DEF CollectorSpec

-----------------------------------------------------------------------------
(* A session with a durable successor stays as it is.                      *)

\* A step other than a power cut touches no file but that of the current session, or
\* of the session that a restart opens.
LEMMA Touched ==
  ASSUME MirrorSound, LinkTyped, [CollectorNext]_cvars, ~MirrorPowerCut,
         NEW s \in Sessions, s < kept.session
  PROVE  files'[s] = files[s]
<1>1. kept.session \in Nat /\ st.session \in Sessions /\ resume.session \in Sessions /\ s \in Nat
      /\ st.session \in Nat /\ resume.session \in Nat
  BY StateFields, ConstFacts, Zenon DEF MirrorSound, MirrorTyped
<1>2. s # resume.session /\ (mpc # "down" => s # st.session)
  BY <1>1 DEF MirrorSound, Sealed
<1>3. mfile # -1 => mfile \in Sessions /\ s # mfile
  BY <1>2, Zenon DEF MirrorSound, MirrorTyped, Sealed
<1>4. CASE UNCHANGED files
  BY <1>4, Zenon
<1>5. CASE MirrorWrite
  BY <1>3, <1>5, Zenon DEF MirrorWrite, MirrorSound, MirrorTyped
<1>6. ASSUME NEW t \in Sessions, s # t, NEW n, OpenFile(t, n) PROVE files'[s] = files[s]
  BY <1>6, Zenon DEF OpenFile, MirrorSound, MirrorTyped
<1>7. CASE OpenMirror
  BY <1>1, <1>2, <1>6, <1>7, Zenon DEF OpenMirror, OpenSession
<1>8. CASE NewSessionFile
  BY <1>1, <1>2, <1>6, <1>8, Zenon DEF NewSessionFile, OpenSession
<1>9. ASSUME NEW h, SetHeader(h) \/ SetHeaderFail(h) PROVE files'[s] = files[s]
  BY <1>3, <1>9, Zenon DEF SetHeader, SetHeaderFail, MirrorSound, MirrorTyped
<1>10. CASE MirrorFail
  <2>1. \A t \in Sessions \ {st.session} : files'[t] = files[t]
    BY <1>10, FailFiles, Zenon
  <2> QED BY <1>2, <1>10, <2>1, Zenon DEF MirrorFail
<1>11. CASE Frame1
  BY <1>4, <1>9, <1>11, Zenon DEF Frame1, reconcileEpoch, commit, handleGap, mirrorVars, disk
<1>12. CASE MirrorStep
  BY <1>4, <1>5, <1>7, <1>8, <1>12, Zenon
  DEF MirrorStep, MirrorSync, persistState, PublishSession, PublishLen, disk
<1>13. CASE Broken \/ Crash
  BY <1>4, <1>9, <1>10, <1>13, Zenon
  DEF Broken, Crash, WriteToClosed, HeaderClosed, SetHeaderClosed, HeaderFail, MirrorKill, disk
<1>14. CASE Capture \/ Retire \/ Wipe \/ Send \/ runOnce \/ Drop \/ Heartbeat \/ UNCHANGED cvars
  BY <1>4, <1>14, Zenon
  DEF Capture, Retire, Wipe, Send, runOnce, Drop, Heartbeat, cvars, mirrorVars, disk
<1> QED BY <1>11, <1>12, <1>13, <1>14, Zenon DEF CollectorNext

LEMMA SealedStaysStep ==
  ASSUME MirrorSound, LinkTyped, [CollectorNext]_cvars, NEW s \in Sessions, s < kept.session
  PROVE  /\ fsynced[s] <= Len(files'[s])
         /\ \A i \in 1..fsynced[s] : files'[s][i] = files[s][i]
<1>1. CASE ~MirrorPowerCut
  BY <1>1, Touched, Zenon DEF MirrorSound, Sealed
<1>2. CASE MirrorPowerCut
  <2>0. /\ files[s] \in Seq(Packets) /\ Len(files[s]) \in Nat /\ fsynced[s] \in Nat
        /\ fsynced[s] <= Len(files[s])
    BY SeqLen, Zenon DEF MirrorSound, MirrorTyped, Sealed
  <2>1. CASE s \in created'
    <3>1. PICK n \in fsynced[s]..Len(files[s]) :
            files'[s] = SubSeq(files[s], 1, n) /\ Len(files'[s]) = n
      BY <1>2, <2>1, CutFiles, Zenon
    <3>2. n \in 0..Len(files[s]) /\ fsynced[s] <= n /\ \A i \in 1..fsynced[s] : i \in 1..n
      BY <2>0
    <3>3. \A i \in 1..n : SubSeq(files[s], 1, n)[i] = files[s][i]
      BY <2>0, <3>2, SeqPrefix, Zenon
    <3>4. \A i \in 1..fsynced[s] : files'[s][i] = files[s][i]
      BY <3>1, <3>2, <3>3, Zenon
    <3> QED BY <3>1, <3>2, <3>4, Zenon
  <2>2. CASE s \notin created'
    <3>1. s \notin created
      BY <1>2, <2>2, Zenon DEF MirrorPowerCut, MirrorSound, Sealed
    <3>2. files[s] = <<>> /\ files'[s] = files[s]
      BY <1>2, <2>2, <3>1, CutFiles, Zenon DEF MirrorSound, Sealed
    <3> QED BY <2>0, <3>2, Zenon
  <2> QED BY <2>1, <2>2, Zenon
<1> QED BY <1>1, <1>2, Zenon

\* Whatever fails, and however often the collector restarts: no synced record of a
\* session that has a durable successor is cut, rewritten or moved.
THEOREM SealedStaysHolds == CollectorSpec => SealedStays
<1>1. TypedSealed /\ [CollectorNext]_cvars =>
        [\A s \in Sessions : s < kept.session =>
           /\ fsynced[s] <= Len(files'[s])
           /\ \A i \in 1..fsynced[s] : files'[s][i] = files[s][i]]_cvars
  BY SoundParts, SealedStaysStep, Zenon
<1> QED BY <1>1, TypedSealedInit, TypedSealedStep, PTL DEF CollectorSpec, SealedStays
=============================================================================

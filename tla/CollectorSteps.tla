---------------------------- MODULE CollectorSteps ----------------------------
(***************************************************************************)
(* CInv (module CollectorInvariant), for a disk that does not fail: one    *)
(* lemma per step of the demux and of the mirror, and per crash.           *)
(***************************************************************************)
EXTENDS CollectorFacts

-----------------------------------------------------------------------------
(* The demux: what it does with a frame.                                   *)

\* commit's dedupe.
LEMMA KeepIs ==
  ASSUME NEW f \in Frames, f.type = "batch", pub.committed \in Nat, f.base <= pub.committed
  PROVE  /\ f.base + f.n > pub.committed => Len(Keep(f)) = f.base + f.n - pub.committed
         /\ f.base + f.n <= pub.committed => Keep(f) = <<>>
         /\ \A i \in 1..Len(Keep(f)) : Keep(f)[i] = <<f.epoch, pub.committed + i - 1>>
<1>1. f.base \in Nat /\ f.n \in Nat /\ f.n > 0 /\ f \in Batches
  BY FrameFields, Zenon
<1> DEFINE known == IF f.base < pub.committed THEN pub.committed - f.base ELSE 0
           new == IF known < f.n THEN f.n - known ELSE 0
<1>2. known \in Nat /\ known = pub.committed - f.base /\ new \in Nat
      /\ (f.base + f.n > pub.committed => new = f.base + f.n - pub.committed)
      /\ (f.base + f.n <= pub.committed => new = 0) /\ f.base + known = pub.committed
  BY <1>1
<1>3. Keep(f) = [i \in 1..new |-> <<f.epoch, f.base + known + i - 1>>]
  BY DEF Keep
<1> HIDE DEF known, new
<1>4. Keep(f) \in Seq(Packets)
  BY <1>1, KeepTyped, Zenon
<1>5. Len(Keep(f)) = new
  BY <1>2, <1>3, <1>4, SeqLen
<1>6. \A i \in 1..new : Keep(f)[i] = <<f.epoch, pub.committed + i - 1>>
  BY <1>2, <1>3, Zenon
<1>7. new = 0 => Keep(f) = <<>>
  BY <1>4, <1>5, SeqLen, Zenon
<1> QED BY <1>2, <1>5, <1>6, <1>7, Zenon

LEMMA CommitStep ==
  ASSUME Sound, Sound', Durable, Process, Link, commit PROVE Durable' /\ Process' /\ Link'
<1> DEFINE f == wire[1]
<1>1. mpc = "reading" /\ wire # <<>> /\ f.type = "batch" /\ f \in Frames
  BY Received, Zenon DEF commit
<1>2. f.base <= pub.committed /\ pub.committed = st.committed /\ pub.committed \in Nat /\ f.base \in Nat
  BY <1>1, CommitFits, Reading, FrameFields, ReachFacts, Zenon DEF Sound, MirrorSound
<1>3. ~(f.base > pub.committed)
  BY <1>2
<1>4. /\ Receive("batch") /\ todo' = Keep(f) /\ mpc' = IF todo' = <<>> THEN "reading" ELSE "write"
      /\ UNCHANGED <<disk, gh, st, mfile, fileLen, pub, outages>>
  BY <1>3, Zenon DEF commit
<1>5. UNCHANGED <<files, created, resume, fsynced, named, kept, st, mfile, fileLen, pub>>
      /\ UNCHANGED <<agentVars, conn, pos>> /\ wire' = Tail(wire) /\ UNCHANGED disk
  BY <1>4, Zenon DEF disk, Receive
<1>6. AgentGrows /\ UNCHANGED <<aEpoch, aHead, aOldest>>
  BY <1>5, AgentSame, Zenon DEF Sound, agentVars
<1>7. Durable'
  BY <1>5, <1>6, DiskKept, Zenon
<1>8. /\ f.base + f.n > st.committed => Len(todo') = f.base + f.n - st.committed
      /\ f.base + f.n <= st.committed => todo' = <<>>
      /\ \A i \in 1..Len(todo') : todo'[i] = <<st.epoch, st.committed + i - 1>>
  BY <1>1, <1>2, <1>4, KeepIs, CommitFits, Zenon
<1>9. /\ st.epoch = aEpoch /\ (f.base + f.n > st.committed => Topmost) /\ f.base + f.n <= aHead[aEpoch]
      /\ f.base \in Nat /\ f.n \in Nat /\ f.n > 0 /\ After(f) = f.base + f.n /\ st.committed \in Nat
  BY <1>1, CommitFits, FrameFields, AfterIs, ReachFacts, Zenon DEF Durable, Sound, MirrorSound
<1> HIDE DEF f
<1>10. Len(todo') \in Nat /\ (todo' = <<>> <=> Len(todo') = 0)
  <2>1. todo' \in Seq(Packets)
    BY Zenon DEF Sound, MirrorSound, MirrorTyped
  <2> QED BY <2>1, SeqFacts, Zenon
<1>11. st.committed + Len(todo') <= aHead[aEpoch] /\ After(f) <= st.committed + Len(todo')
  <2>1. st.committed <= aHead[aEpoch]
    BY <1>1, <1>9, Reading, AgentFacts, ConstFacts DEF Point, Sane, Sound, EpochIds
  <2>2. aHead[aEpoch] \in Nat
    BY AgentFacts, Zenon DEF Sound
  <2> QED BY <1>8, <1>9, <1>10, <2>1, <2>2
<1>12. Process'
  <2>1. st = resume /\ Opened /\ Published /\ Point(st, created) /\ Later(resume, st)
    BY <1>1, Reading, Zenon
  <2>2. Point(st, created)' /\ Later(resume, st)'
    <3>1. Cut /\ st.committed - st.start <= fsynced[st.session] /\ st \in States /\ st.start <= st.committed
      BY <1>5, <2>1, SameFiles, Zenon DEF Point, Backed, Sound, MirrorSound, MirrorTyped
    <3>2. st.committed > st.start => st.session \in created
      BY <3>1, <2>1, StateFields, Zenon DEF Opened
    <3>3. Point(st, created)'
      BY <1>5, <1>6, <2>1, <3>1, <3>2, PointKept, Zenon
    <3>4. Later(resume, st)'
      BY <1>5, <1>6, <2>1, <3>1, LaterGrows, Zenon DEF Point
    <3> QED BY <3>3, <3>4, Zenon
  <2>3. mpc' \in {"reading", "write"} /\ (mpc' = "write" <=> todo' # <<>>)
    BY <1>4, Zenon
  <2>4. Opened' /\ Published'
    BY <1>1, <1>5, <2>1, <2>3, Zenon DEF Opened, Published
  <2>5. mpc' = "write" => Topmost'
    BY <1>5, <1>8, <1>9, <2>3 DEF Topmost
  <2>6. st.epoch > 0 /\ aEpoch > 0
    BY <1>9, ConstFacts, AgentFacts DEF Sound, EpochIds
  <2> QED BY <1>5, <1>6, <1>8, <1>9, <1>11, <2>1, <2>2, <2>3, <2>4, <2>5, <2>6, Zenon DEF Process
<1>13. Link'
  <2>1. After(f) <= Reach' /\ mpc' # "idle" /\ st'.epoch = aEpoch
    BY <1>4, <1>5, <1>9, <1>11, Zenon DEF Reach
  <2>2. \A s \in Sessions : First(s)' = First(s)
    BY <1>5, Zenon DEF First
  <2> QED BY <1>1, <1>5, <1>9, <2>1, <2>2, TailLink, Zenon DEF f
<1> QED BY <1>7, <1>12, <1>13, Zenon

LEMMA DurableHeader ==
  ASSUME Sound, Sound', Durable, AgentGrows, UNCHANGED <<files, fsynced, created, resume, named, kept>>,
         \A s \in created : header'[s] # NoHeader
  PROVE  Durable'
  BY SameFiles, PointsSynced, DurableKept, Zenon DEF Durable, Names, Runs

\* A new session: within an epoch beyond the commit point, where everything below is
\* reaped.
LEMMA StartStep ==
  ASSUME Sound, Sound', Durable, Process, mpc = "reading", UNCHANGED agentVars, st.epoch > 0,
         UNCHANGED <<files, fsynced, created, resume, named, kept>>,
         NEW from \in Nat, StartSession(aEpoch, from), from <= aHead[aEpoch],
         st.epoch = aEpoch => st.committed < from /\ from <= aOldest[aEpoch]
  PROVE  Process'
<1>1. /\ st'.committed = from /\ st'.session = st.session + 1 /\ st'.start = from /\ st'.epoch = aEpoch
      /\ mfile' = -1 /\ mpc' = "open" /\ UNCHANGED <<fileLen, todo, pub>>
  BY DEF StartSession
<1>2. UNCHANGED <<aEpoch, aHead, aOldest>>
  BY DEF agentVars
<1>3. /\ st = resume /\ todo = <<>> /\ Point(st, created) /\ Opened
      /\ Len(files[st.session]) = st.committed - st.start
      /\ \A i \in 1..Len(files[st.session]) : files[st.session][i] = <<st.epoch, st.start + i - 1>>
  BY Reading
<1>4. /\ st \in States /\ st.session \in Sessions /\ st.session \in Nat /\ st.committed \in Nat
      /\ st.start \in Nat /\ st.start <= st.committed /\ st.epoch \in Nat /\ st.epoch <= aEpoch
      /\ st' \in States
  BY <1>3, StateFields, Zenon DEF Sound, MirrorSound, MirrorTyped, Point, Sane
<1>5. aEpoch \in Nat /\ aEpoch > 0 /\ aHead[aEpoch] \in Nat /\ aOldest[aEpoch] \in Nat
  BY AgentFacts, ConstFacts DEF Sound, EpochIds
<1>6. st'.session \in Sessions /\ fsynced[st'.session] \in Nat
  BY <1>4, StateFields, FileFacts, Zenon DEF Sound, MirrorSound
<1>7. Sane(st)'
  BY <1>1, <1>2, <1>4, <1>5 DEF Sane
<1>8. Backed(st, created)'
  BY <1>1, <1>6 DEF Backed
<1>9. Above(st)'
  <2>1. \A s \in Sessions : s > st.session + 1 => files[s] = <<>>
    BY <1>3, <1>4, ConstFacts DEF Sound, MirrorSound, Sealed, Durable, Names
  <2> QED BY <1>1, <2>1, Zenon DEF Above
<1>10. Below(st)'
  <2> SUFFICES ASSUME NEW s \in Sessions, s < st.session + 1, files[s] # <<>>
               PROVE  \/ First(s)[1] < aEpoch
                      \/ First(s)[1] = aEpoch /\ First(s)[2] + Len(files[s]) <= from
    BY <1>1 DEF Below, First
  <2>1. First(s)[1] \in Nat /\ First(s)[2] \in Nat /\ Len(files[s]) \in Nat /\ s \in Nat /\ 1 \in 1..Len(files[s])
    BY FirstFacts, ConstFacts DEF Sound, MirrorSound
  <2>2. CASE s = st.session
    <3>1. First(s) = <<st.epoch, st.start + 1 - 1>>
      BY <1>3, <2>1, <2>2, Zenon DEF First
    <3>2. First(s)[1] = st.epoch /\ First(s)[2] + Len(files[s]) = st.committed
      BY <1>3, <1>4, <2>2, <3>1
    <3> QED BY <1>4, <1>5, <3>2
  <2>3. CASE s < st.session
    <3>1. \/ First(s)[1] < st.epoch
          \/ First(s)[1] = st.epoch /\ First(s)[2] + Len(files[s]) <= st.start
      BY <1>3, <2>3, Zenon DEF Point, Below
    <3>2. CASE First(s)[1] < st.epoch
      BY <1>4, <1>5, <2>1, <3>2
    <3>3. CASE First(s)[1] = st.epoch /\ First(s)[2] + Len(files[s]) <= st.start
      <4>1. st.epoch < aEpoch \/ (st.epoch = aEpoch /\ st.start <= from)
        BY <1>4, <1>5
      <4> QED BY <1>4, <1>5, <2>1, <3>3, <4>1
    <3> QED BY <3>1, <3>2, <3>3, Zenon
  <2> QED BY <1>4, <2>1, <2>2, <2>3
<1>11. Later(resume, st)'
  BY <1>1, <1>2, <1>3, <1>4, <1>5 DEF Later
<1>12. Point(st, created)'
  BY <1>7, <1>8, <1>9, <1>10, Zenon DEF Point
<1>13. Len(todo') = 0 /\ \A i \in 1..Len(todo') : FALSE
  BY <1>1, <1>3
<1> QED BY <1>1, <1>2, <1>3, <1>4, <1>5, <1>11, <1>12, <1>13, SMTT(20) DEF Process

LEMMA GapStep ==
  ASSUME Sound, Sound', Durable, Process, Link, handleGap PROVE Durable' /\ Process' /\ Link'
<1> DEFINE f == wire[1]
<1>1. /\ mpc = "reading" /\ wire # <<>> /\ f.type = "gap" /\ wire' = Tail(wire)
      /\ UNCHANGED <<agentVars, conn, pos>>
  BY Zenon DEF handleGap, Receive
<1>2. f \in Frames /\ Fits(f, Reach) /\ Welcome /\ Clear
  BY <1>1, Received, Zenon
<1>3. f.to \in Nat /\ After(f) = f.to
  BY <1>1, <1>2, FrameFields, AfterIs, Zenon
<1>4. /\ f.to <= aOldest[aEpoch] /\ st.epoch = aEpoch /\ f.to <= aHead[aEpoch]
      /\ Reach = st.committed /\ st.committed = pub.committed /\ st.committed \in Nat
  BY <1>1, <1>2, <1>3, Reading, ReachFacts, Zenon DEF Fits, Welcome, Greeted, Sound, MirrorSound
<1>5. AgentGrows /\ UNCHANGED <<aEpoch, aHead, aOldest>> /\ aEpoch > 0 /\ conn' = conn
  BY <1>1, AgentSame, AgentFacts, ConstFacts DEF Sound, agentVars, EpochIds
<1> HIDE DEF f
<1>6. CASE f.to <= pub.committed /\ UNCHANGED mirrorVars
  <2>1. UNCHANGED <<disk, files, created, resume, fsynced, kept, mpc, st, mfile, fileLen, todo, pub>>
    BY <1>6, Zenon DEF mirrorVars, disk, memory
  <2>2. Durable' /\ Process'
    BY <1>5, <1>6, <2>1, DiskKept, ProcessKept, Zenon
  <2>3. After(f) <= Reach' /\ st'.epoch = aEpoch /\ mpc' # "idle"
    BY <1>1, <1>3, <1>4, <1>6, <2>1, Zenon DEF Reach
  <2>4. \A s \in Sessions : First(s)' = First(s)
    BY <2>1, Zenon DEF First
  <2>5. Link'
    BY <1>1, <1>4, <2>1, <2>3, <2>4, TailLink, Zenon DEF f
  <2> QED BY <2>2, <2>5, Zenon
<1>7. CASE f.to > pub.committed /\ StartSession(st.epoch, f.to) /\ UNCHANGED <<disk, gh>>
  <2>1. UNCHANGED <<files, fsynced, created, resume, named, kept>>
    BY <1>7, Zenon DEF disk
  <2>2. Durable'
    BY <1>5, <1>7, DiskKept, Zenon
  <2>3. Process'
    BY <1>1, <1>3, <1>4, <1>5, <1>7, <2>1, StartStep, Zenon
  <2>4. st'.session = st.session + 1 /\ st'.committed = f.to /\ st'.epoch = aEpoch /\ mpc' = "open" /\ todo' = todo
    BY <1>4, <1>7, Zenon DEF StartSession
  <2>5. After(f) <= Reach'
    <3>1. Reach' = f.to
      BY <1>1, <1>3, <2>4, Reading DEF Reach
    <3> QED BY <1>3, <3>1
  <2>6. \A s \in Sessions : First(s)' = First(s) /\ (s > st'.session => s > st.session)
    <3>1. st.session \in Nat
      BY StateFields, Zenon DEF Sound, MirrorSound, MirrorTyped
    <3>2. \A s \in Sessions : s > st.session + 1 => s > st.session
      BY <3>1, ConstFacts
    <3> QED BY <2>1, <2>4, <3>2, Zenon DEF First
  <2>7. Link'
    BY <1>1, <1>4, <2>1, <2>4, <2>5, <2>6, TailLink, Zenon DEF f
  <2> QED BY <2>2, <2>3, <2>7
<1> QED BY <1>6, <1>7, Zenon DEF handleGap, f

\* The preamble of the first epoch, of the mirror's own or of a new one.
LEMMA PreambleStep ==
  ASSUME Sound, Sound', Durable, Process, Link, reconcileEpoch PROVE Durable' /\ Process' /\ Link'
<1> DEFINE f == wire[1]
<1>1. /\ mpc = "reading" /\ wire # <<>> /\ f.type = "preamble" /\ wire' = Tail(wire)
      /\ UNCHANGED <<agentVars, conn, pos>> /\ SetHeader(f.link)
  BY Zenon DEF reconcileEpoch, Receive
<1>2. f \in Frames /\ Fits(f, Reach) /\ Welcome /\ Clear /\ Stream /\ Len(wire) \in Nat /\ Len(wire) > 0
  BY <1>1, Received, Zenon
<1>3. f.from \in Nat /\ After(f) = f.from /\ f.link \in EpochIds /\ f.from <= aHead[aEpoch]
  BY <1>1, <1>2, FrameFields, AfterIs, Zenon DEF Fits
<1>4. f.epoch = aEpoch
  <2>1. 1 \in 1..Len(wire)
    BY <1>2
  <2> QED BY <1>1, <1>2, <2>1, Zenon DEF Stream, Preamble1
<1>5. AgentGrows /\ UNCHANGED <<aEpoch, aHead, aOldest>> /\ aEpoch > 0 /\ conn' = conn /\ aEpoch \in EpochIds
  BY <1>1, AgentSame, AgentFacts, ConstFacts DEF Sound, agentVars, EpochIds
<1>6. /\ UNCHANGED <<files, fsynced, created, resume, named, kept>>
      /\ \A s \in created : header'[s] # NoHeader
  BY <1>1, <1>3, HeaderKeeps, Zenon
<1>7. Durable'
  BY <1>5, <1>6, DurableHeader, Zenon
<1>8. /\ f.from <= st.committed \/ st.epoch \notin {0, aEpoch} \/ (Len(wire) > 1 /\ wire[2].type = "gap")
      /\ Reach = st.committed /\ st = resume /\ todo = <<>> /\ st.committed \in Nat /\ Point(st, created)
      /\ Opened /\ Published
  BY <1>1, <1>2, Reading, ReachFacts, Zenon DEF Welcome, Greeted, Sound, MirrorSound
<1>9. \A s \in Sessions : First(s)' = First(s)
  BY <1>6, Zenon DEF First
<1>10. st \in States /\ st.session \in Sessions /\ st.session \in Nat /\ st.epoch \in Nat
  BY StateFields, Zenon DEF Sound, MirrorSound, MirrorTyped
<1>11. \A s \in Sessions : files[s] # <<>> => s <= st.session + 1 /\ (st.epoch = 0 => s = 0)
  BY <1>8, Zenon DEF Sound, MirrorSound, Sealed, Durable, Names
<1> HIDE DEF f
<1>12. CASE st.epoch = 0 /\ AdoptEpoch(f.epoch)
  <2>1. st' = [st EXCEPT !.epoch = aEpoch] /\ mpc' = "adopt" /\ UNCHANGED <<mfile, fileLen, todo, pub>>
    BY <1>4, <1>12, Zenon DEF AdoptEpoch
  <2>2. /\ st' \in States /\ st'.epoch = aEpoch /\ st'.session = st.session /\ st'.start = st.start
        /\ st'.committed = st.committed
    BY <1>5, <1>10, <2>1, EpochExcept
  <2>3. st.committed = 0 /\ st.start = 0 /\ st.session = 0
    BY <1>8, <1>12 DEF Point, Sane, ZeroState
  <2>4. \A s \in Sessions : s > 0 => files[s] = <<>>
    BY <1>11, <1>12, ConstFacts
  <2>5. Point(st, created)'
    <3>1. Sane(st)'
      BY <1>5, <2>2, <2>3, AgentFacts DEF Sane, Sound
    <3>2. Backed(st, created)'
      <4>1. fsynced'[st'.session] \in Nat
        BY <1>10, <2>2, NewFileFacts, Zenon DEF Sound, MirrorSound
      <4> QED BY <2>2, <2>3, <4>1 DEF Backed
    <3>3. Above(st)' /\ Below(st)'
      BY <1>6, <2>2, <2>3, <2>4, ConstFacts DEF Above, Below
    <3> QED BY <3>1, <3>2, <3>3, Zenon DEF Point
  <2>6. Later(resume, st)'
    BY <1>6, <1>8, <1>10, <1>12, <2>2, <2>3, AgentFacts DEF Later, Sound
  <2>7. Opened' /\ Published'
    <3>1. Len(files[st.session]) = 0 /\ mpc # "sync"
      BY <1>1, <1>8, <2>3 DEF Opened
    <3>2. Published'
      BY <1>8, <2>1, <2>2, Zenon DEF Published
    <3> QED BY <1>6, <1>8, <2>1, <2>2, <3>1, <3>2 DEF Opened
  <2>8. Process'
    <3>1. Len(todo') = 0 /\ \A i \in 1..Len(todo') : FALSE
      BY <1>8, <2>1
    <3>2. 0 <= aHead[aEpoch]
      BY AgentFacts DEF Sound
    <3> QED BY <1>1, <1>5, <1>6, <1>8, <1>12, <2>1, <2>2, <2>3, <2>5, <2>6, <2>7, <3>1, <3>2, SMTT(20) DEF Process
  <2>9. Link'
    <3>1. Reach' = st.committed
      BY <1>8, <2>1, <2>2, Zenon DEF Reach
    <3>2. After(f) <= Reach' \/ (Len(wire) > 1 /\ wire[2].type = "gap")
      BY <1>3, <1>8, <1>12, <3>1, Zenon
    <3> QED BY <1>1, <1>6, <2>1, <2>2, <2>3, <2>4, <3>2, TailLink, Zenon DEF f
  <2> QED BY <1>7, <2>8, <2>9
<1>13. CASE f.epoch \in {0, st.epoch} /\ UNCHANGED <<mpc, st, mfile, fileLen, todo, pub, outages>>
  <2>0. st.epoch = aEpoch
    BY <1>4, <1>5, <1>13
  <2>1. Process'
    BY <1>5, <1>6, <1>13, ProcessKept, Zenon
  <2>2. After(f) <= Reach' \/ (Len(wire) > 1 /\ wire[2].type = "gap")
    <3>1. Reach' = st.committed
      BY <1>8, <1>13, Zenon DEF Reach
    <3> QED BY <1>3, <1>8, <2>0, <3>1, Zenon
  <2>3. Link'
    BY <1>1, <1>6, <1>9, <1>13, <2>0, <2>2, TailLink, Zenon DEF f
  <2> QED BY <1>7, <2>1, <2>3
<1>14. CASE st.epoch \notin {0, f.epoch} /\ StartSession(f.epoch, f.from)
  <2>0. st.epoch > 0 /\ st.epoch # aEpoch /\ StartSession(aEpoch, f.from)
    BY <1>4, <1>10, <1>14
  <2>1. Process'
    BY <1>1, <1>3, <1>6, <2>0, StartStep, Zenon
  <2>2. st'.session = st.session + 1 /\ st'.committed = f.from /\ st'.epoch = aEpoch /\ mpc' = "open" /\ todo' = todo
    BY <1>4, <1>14, Zenon DEF StartSession
  <2>3. Reach' = f.from
    BY <1>3, <1>8, <2>2 DEF Reach
  <2>4. After(f) <= Reach'
    BY <1>3, <2>3
  <2>5. ASSUME NEW s \in Sessions, s > st'.session, files'[s] # <<>> PROVE FALSE
    <3>1. s \in Nat /\ s > st.session + 1 /\ s <= st.session + 1
      BY <1>6, <1>11, <2>2, <2>5, ConstFacts, Zenon
    <3> QED BY <1>10, <3>1
  <2>6. Link'
    BY <1>1, <2>2, <2>4, <2>5, TailLink, Zenon DEF f
  <2> QED BY <1>7, <2>1, <2>6
<1> QED BY <1>12, <1>13, <1>14, Zenon DEF reconcileEpoch, f

-----------------------------------------------------------------------------
(* Append, step by step.                                                   *)

\* A resume point is not disturbed by what is appended to its session or to a later one.
LEMMA PointAppended ==
  ASSUME Sound, Sound', Process, MirrorWrite, UNCHANGED <<agentVars, fsynced>>,
         NEW r \in States, r.start <= r.committed, NEW there, Point(r, there), Later(r, st)
  PROVE  Point(r, there)'
<1>1. /\ mfile = st.session /\ mfile \in Sessions
      /\ \A s \in Sessions \ {mfile} : files'[s] = files[s]
      /\ Len(files'[mfile]) > 0
      /\ \A i \in 1..Len(files[mfile]) : files'[mfile][i] = files[mfile][i]
      /\ \A i \in 1..Len(files'[mfile]) : files'[mfile][i] = <<st.epoch, st.start + i - 1>>
  BY Written, Zenon
<1>2. UNCHANGED <<aEpoch, aHead, aOldest>> /\ mpc # "down"
  BY Zenon DEF agentVars, MirrorWrite
<1>3. /\ r.committed \in Nat /\ r.start \in Nat /\ r.session \in Sessions /\ r.session \in Nat
      /\ r.epoch \in Nat /\ st.epoch \in Nat /\ st.session \in Nat /\ st.start \in Nat
  BY StateFields, Zenon DEF Sound, MirrorSound, MirrorTyped
<1>4. Sane(r)'
  BY <1>2, Zenon DEF Point, Sane
<1>5. Backed(r, there)'
  <2>1. r.committed - r.start <= fsynced[r.session] /\ fsynced[r.session] <= Len(files[r.session])
        /\ fsynced[r.session] \in Nat /\ Len(files[r.session]) \in Nat
    BY <1>3, FileFacts, Zenon DEF Point, Backed, Sound, MirrorSound, Sealed
  <2>2. \A i \in 1..(r.committed - r.start) : i \in 1..Len(files[r.session])
    BY <1>3, <2>1, SMTT(20)
  <2>3. \A i \in 1..(r.committed - r.start) : files'[r.session][i] = files[r.session][i]
    BY <1>1, <1>3, <2>2, Zenon
  <2> QED BY <2>3, Zenon DEF Point, Backed
<1>6. Above(r)'
  <2> SUFFICES ASSUME NEW s \in Sessions, s > r.session, files'[s] # <<>>
               PROVE  /\ First(s)'[1] \in r.epoch..aEpoch
                      /\ First(s)'[1] = r.epoch =>
                           r.committed < First(s)'[2] /\ First(s)'[2] <= aOldest[r.epoch]
    BY <1>2, Zenon DEF Above
  <2>1. CASE s # mfile
    BY <1>1, <2>1, Zenon DEF Point, Above, First
  <2>2. CASE s = mfile
    <3>1. First(s)' = <<st.epoch, st.start + 1 - 1>>
      <4>1. Len(files'[mfile]) \in Nat /\ 1 \in 1..Len(files'[mfile])
        BY <1>1, NewFileFacts DEF Sound, MirrorSound
      <4> QED BY <1>1, <2>2, <4>1, Zenon DEF First
    <3>2. First(s)'[1] = st.epoch /\ First(s)'[2] = st.start
      BY <1>3, <3>1
    <3>3. st.epoch <= aEpoch /\ aEpoch \in Nat
      BY <1>2, AgentFacts, Zenon DEF Process, Point, Sane, Sound
    <3>4. r.epoch <= st.epoch /\ (r.epoch = st.epoch => r.committed < st.start /\ st.start <= aOldest[st.epoch])
      BY <1>1, <1>3, <2>2, Zenon DEF Later
    <3> QED BY <1>3, <3>2, <3>3, <3>4
  <2> QED BY <2>1, <2>2, Zenon
<1>7. Below(r)'
  <2>1. \A s \in Sessions : s < r.session => s # mfile
    BY <1>1, <1>3, ConstFacts DEF Later
  <2> QED BY <1>1, <2>1 DEF Point, Below, First
<1> QED BY <1>4, <1>5, <1>6, <1>7, Zenon DEF Point

LEMMA WriteStep ==
  ASSUME Sound, Sound', Durable, Process, Link, MirrorWrite, UNCHANGED <<agentVars, linkVars>>
  PROVE  Durable' /\ Process' /\ Link'
<1>1. /\ mfile = st.session /\ mfile \in Sessions
      /\ \A s \in Sessions \ {mfile} : files'[s] = files[s]
      /\ Len(files'[mfile]) = fileLen + Len(todo) /\ Len(files'[mfile]) > 0
      /\ \A i \in 1..Len(files'[mfile]) : files'[mfile][i] = <<st.epoch, st.start + i - 1>>
  BY Written, Zenon
<1>2. /\ UNCHANGED <<created, header, resume, fsynced, named, kept, st, mfile, fileLen, todo, pub>>
      /\ mpc = "write" /\ mpc' = "sync"
  BY Zenon DEF MirrorWrite, memory
<1>3. UNCHANGED <<aEpoch, aHead, aOldest, conn, wire, pos>> /\ AgentGrows
  BY AgentSame, Zenon DEF agentVars, linkVars, Sound
<1>4. st = resume /\ Opened /\ Published /\ Topmost /\ Point(st, created) /\ Later(resume, st)
      /\ st.epoch > 0 /\ todo # <<>>
  BY <1>2, Zenon DEF Process
<1>5. /\ resume \in States /\ kept \in States /\ st \in States /\ resume.start <= resume.committed
      /\ kept.start <= kept.committed
  BY Zenon DEF Sound, MirrorSound, MirrorTyped
<1>6. st.session \in Nat /\ st.start \in Nat /\ st.epoch \in Nat
  BY <1>5, StateFields, Zenon
<1>7. Point(resume, created)'
  BY <1>2, <1>4, <1>5, PointAppended, Zenon DEF Durable
<1>8. Point(kept, named)' /\ Later(kept, resume)'
  <2>1. Later(kept, st) /\ Point(kept, named)
    BY <1>4, Zenon DEF Durable
  <2>2. Point(kept, named)'
    BY <1>2, <1>5, <2>1, PointAppended, Zenon
  <2> QED BY <1>2, <1>3, <1>4, <2>1, <2>2, Zenon DEF Later
<1>9. First(mfile)'[1] = st.epoch /\ First(mfile)'[2] = st.start
  <2>1. 1 \in 1..Len(files'[mfile])
    BY <1>1, NewFileFacts DEF Sound, MirrorSound
  <2>2. files'[mfile][1] = <<st.epoch, st.start + 1 - 1>>
    BY <1>1, <2>1, Zenon
  <2>3. First(mfile)' = files'[mfile][1]
    BY <1>2, Zenon DEF First
  <2> QED BY <1>6, <2>2, <2>3
<1>10. Runs'
  <2>1. ASSUME NEW s \in Sessions, NEW i \in 1..Len(files'[s])
        PROVE  files'[s][i] = <<First(s)'[1], First(s)'[2] + i - 1>>
    <3>1. CASE s = mfile
      BY <1>1, <1>2, <1>9, <3>1, <2>1, Zenon
    <3>2. CASE s # mfile
      BY <1>1, <2>1, <3>2 DEF Durable, Runs, First
    <3> QED BY <3>1, <3>2, Zenon
  <2>2. ASSUME NEW s \in Sessions, NEW t \in Sessions, s < t, files'[s] # <<>>, files'[t] # <<>>
        PROVE  \/ First(s)'[1] < First(t)'[1]
               \/ First(s)'[1] = First(t)'[1] /\ First(s)'[2] + Len(files'[s]) <= First(t)'[2]
    <3>1. CASE s # mfile /\ t # mfile
      BY <1>1, <2>2, <3>1 DEF Durable, Runs, First
    <3>2. s # mfile
      BY <1>1, <1>4, <2>2, ConstFacts DEF Topmost
    <3>3. CASE t = mfile
      <4>1. files[s] # <<>> /\ First(s)' = First(s) /\ files'[s] = files[s]
        BY <1>1, <2>2, <3>2, Zenon DEF First
      <4>2. \/ First(s)[1] < st.epoch
            \/ First(s)[1] = st.epoch /\ First(s)[2] + Len(files[s]) <= st.start
        BY <1>1, <1>4, <2>2, <3>3, <4>1, Zenon DEF Point, Below
      <4>3. First(t)'[1] = st.epoch /\ First(t)'[2] = st.start
        BY <1>2, <1>9, <3>3, Zenon
      <4> QED BY <4>1, <4>2, <4>3, Zenon
    <3> QED BY <3>1, <3>2, <3>3, Zenon
  <2> QED BY <1>2, <2>1, <2>2, Zenon DEF Runs, Durable
<1>11. Durable'
  BY <1>2, <1>7, <1>8, <1>10, Zenon DEF Durable, Names
<1>12. Process'
  <2>1. Opened'
    BY <1>1, <1>2, <1>4, Zenon DEF Opened
  <2>2. Topmost'
    BY <1>1, <1>2, <1>4, <1>6, ConstFacts DEF Topmost
  <2>3. Published' /\ Later(resume, st)' /\ Point(st, created)'
    BY <1>2, <1>3, <1>4, <1>7 DEF Published, Later
  <2> QED BY <1>2, <1>3, <1>4, <2>1, <2>2, <2>3, SMTT(20) DEF Process
<1>13. Link'
  <2>1. Reach' = Reach
    BY <1>2, Zenon DEF Reach
  <2>2. \A s \in Sessions : s > st.session => files'[s] = files[s] /\ First(s)' = First(s)
    BY <1>1, <1>6, ConstFacts DEF First
  <2> QED BY <1>2, <1>3, <2>1, <2>2, LinkKept, Zenon
<1> QED BY <1>11, <1>12, <1>13, Zenon

LEMMA SyncStep ==
  ASSUME Sound, Sound', Durable, Process, Link, MirrorSync, UNCHANGED <<agentVars, linkVars>>
  PROVE  Durable' /\ Process' /\ Link'
<1>1. /\ st = resume /\ Opened /\ Topmost /\ Point(st, created) /\ todo # <<>> /\ st.epoch > 0
      /\ st.committed + Len(todo) <= aHead[st.epoch] /\ mpc = "sync"
  BY DEF MirrorSync, Process
<1>2. /\ mfile = st.session /\ fileLen = st.committed - st.start /\ fsynced[mfile] = fileLen
      /\ mfile \in created /\ Len(files[mfile]) = fileLen + Len(todo)
      /\ \A i \in 1..Len(files[mfile]) : files[mfile][i] = <<st.epoch, st.start + i - 1>>
  BY <1>1 DEF Opened
<1>3. /\ st \in States /\ st.committed \in Nat /\ st.start \in Nat /\ st.epoch \in Nat /\ st.session \in Sessions
      /\ st.start <= st.committed /\ todo \in Seq(Packets) /\ resume \in States /\ kept \in States /\ st.session \in Nat
  BY StateFields DEF Sound, MirrorSound, MirrorTyped
<1>4. Len(todo) \in Nat /\ Len(todo) > 0 /\ fileLen \in Nat
  BY <1>1, <1>3, SeqFacts DEF Sound, MirrorSound, MirrorTyped
<1>5. /\ UNCHANGED <<files, created, header, resume, named, kept, mfile, pub>>
      /\ fileLen' = fileLen + Len(todo) /\ todo' = <<>> /\ mpc' = "persist"
      /\ fsynced' = [fsynced EXCEPT ![mfile] = Len(files[mfile])]
  BY DEF MirrorSync
<1>6. UNCHANGED <<aEpoch, aHead, aOldest, conn, wire, pos>> /\ AgentGrows
  BY AgentSame DEF agentVars, linkVars, Sound
<1>7. /\ fsynced'[mfile] = fileLen + Len(todo)
      /\ \A s \in Sessions \ {mfile} : fsynced'[s] = fsynced[s]
  BY <1>2, <1>3, <1>5, Zenon DEF Sound, MirrorSound, MirrorTyped
<1>8. /\ st' \in States /\ st'.committed = st.committed + Len(todo)
      /\ st'.session = st.session /\ st'.start = st.start /\ st'.epoch = st.epoch
  <2>1. st' = [st EXCEPT !.committed = st.committed + Len(todo)]
    BY Zenon DEF MirrorSync
  <2>2. st.committed + Len(todo) \in Nat
    BY <1>3, <1>4
  <2> QED BY <1>3, <2>1, <2>2, CommittedExcept
<1>9. ASSUME NEW s \in Sessions PROVE fsynced[s] <= fsynced'[s]
  <2>1. fsynced[s] \in Nat
    BY FileFacts, Zenon DEF Sound, MirrorSound
  <2>2. CASE s = mfile
    BY <1>2, <1>4, <1>7, <2>2
  <2>3. CASE s # mfile
    BY <1>7, <2>1, <2>3, SMTT(20)
  <2> QED BY <2>2, <2>3, Zenon
<1>10. Durable'
  <2>1. \A r \in {resume, kept} : r.committed - r.start <= fsynced'[r.session]
    <3> SUFFICES ASSUME NEW r \in {resume, kept} PROVE r.committed - r.start <= fsynced'[r.session]
      BY Zenon
    <3>1. r \in States /\ r.committed \in Nat /\ r.start \in Nat /\ r.session \in Sessions
      BY <1>3, StateFields, Zenon
    <3>2. r.committed - r.start <= fsynced[r.session] /\ fsynced[r.session] \in Nat /\ fsynced'[r.session] \in Nat
      BY <3>1, PointsSynced, FileFacts, NewFileFacts, Zenon DEF Sound, MirrorSound
    <3> QED BY <1>9, <3>1, <3>2
  <2> QED BY <1>5, <1>6, <2>1, SameFiles, DurableKept, SMTT(20) DEF Durable, Names, Runs
<1>11. Point(st, created)'
  <2>1. Sane(st)'
    BY <1>1, <1>3, <1>6, <1>8 DEF Point, Sane
  <2>2. Backed(st, created)'
    <3>1. st'.committed - st'.start = Len(files[mfile]) /\ Len(files[mfile]) \in Nat
      BY <1>2, <1>3, <1>4, <1>8, SMTT(20)
    <3>2. fsynced'[st'.session] = Len(files[mfile])
      BY <1>2, <1>7, <1>8, Zenon
    <3> QED BY <1>2, <1>5, <1>8, <3>1, <3>2 DEF Backed
  <2>3. Above(st)'
    BY <1>1, <1>5, <1>8, Zenon DEF Topmost, Above
  <2>4. Below(st)'
    BY <1>1, <1>5, <1>8, Zenon DEF Point, Below, First
  <2> QED BY <2>1, <2>2, <2>3, <2>4, Zenon DEF Point
<1>12. Process'
  <2>1. Later(resume, st)'
    BY <1>1, <1>3, <1>4, <1>5, <1>8, SMTT(20) DEF Later
  <2>2. Opened'
    BY <1>2, <1>3, <1>4, <1>5, <1>7, <1>8, SMTT(20) DEF Opened
  <2>3. Topmost'
    BY <1>1, <1>5, <1>8, Zenon DEF Topmost
  <2>4. Len(todo') = 0 /\ st'.committed + Len(todo') = st.committed + Len(todo) /\ \A i \in 1..Len(todo') : FALSE
    BY <1>3, <1>4, <1>5, <1>8
  <2>5. st'.session <= resume'.session + 1 /\ st'.committed > resume'.committed /\ st'.epoch > 0
    BY <1>1, <1>3, <1>4, <1>5, <1>8
  <2> QED BY <1>1, <1>5, <1>6, <1>8, <1>11, <2>1, <2>2, <2>3, <2>4, <2>5, Zenon DEF Process
<1>13. Link'
  <2>1. Reach' = Reach
    BY <1>3, <1>4, <1>5, <1>8 DEF Reach
  <2>2. \A s \in Sessions : First(s)' = First(s)
    BY <1>5, Zenon DEF First
  <2> QED BY <1>1, <1>5, <1>6, <1>8, <2>1, <2>2, LinkKept, Zenon
<1> QED BY <1>10, <1>12, <1>13

LEMMA PersistStep ==
  ASSUME Sound, Sound', Durable, Process, Link, persistState, UNCHANGED <<agentVars, linkVars>>
  PROVE  Durable' /\ Process' /\ Link'
<1>1. /\ mpc \in {"persist", "adopt"} /\ resume' = st /\ kept' = st /\ named' = created
      /\ mpc' = IF mpc = "adopt" THEN "reading" ELSE "publish"
      /\ UNCHANGED <<files, created, header, fsynced, st, mfile, fileLen, todo, pub>>
  BY Zenon DEF persistState, memory
<1>2. UNCHANGED <<aEpoch, aHead, aOldest, conn, wire, pos>> /\ AgentGrows
  BY AgentSame DEF agentVars, linkVars, Sound
<1>3. /\ Point(st, created) /\ Later(resume, st) /\ Opened /\ todo = <<>> /\ st.epoch > 0
      /\ mpc = "adopt" => Published
  BY <1>1, Zenon DEF Process
<1>4. /\ st \in States /\ resume.session \in Nat /\ st.session \in Nat /\ st.start <= st.committed
      /\ resume.session <= st.session
  BY <1>3, StateFields, Zenon DEF Later, Sound, MirrorSound, MirrorTyped
<1>5. Point(st, created)'
  BY <1>1, <1>2, <1>3, Zenon DEF Point, Sane, Backed, Above, Below, First
<1>6. Later(st, st)'
  BY <1>1, <1>4, LaterSelf DEF Later
<1>7. Durable'
  <2>1. Runs'
    BY <1>1, Zenon DEF Durable, Runs, First
  <2>2. \A s \in created : s <= st.session + 1
    <3>1. \A s \in created : s \in Nat /\ s <= resume.session + 1
      BY ConstFacts, Zenon DEF Durable, Names, Sound, MirrorSound, MirrorTyped
    <3> QED BY <1>4, <3>1
  <2>3. Names'
    BY <1>1, <1>3, <2>2 DEF Names
  <2>4. Point(resume, created)' /\ Point(kept, named)' /\ Later(kept, resume)'
    BY <1>1, <1>5, <1>6, Zenon
  <2> QED BY <2>1, <2>3, <2>4, Zenon DEF Durable
<1>8. Process'
  <2>1. Opened'
    BY <1>1, <1>3, Zenon DEF Opened
  <2>2. mpc' = "reading" => Published'
    BY <1>1, <1>3, Zenon DEF Published
  <2>3. Later(resume, st)'
    BY <1>1, <1>6, Zenon
  <2>4. mpc' \in {"reading", "publish"}
    BY <1>1, Zenon
  <2>5. st.committed + Len(todo) <= aHead[st.epoch] /\ \A i \in 1..Len(todo) : todo[i] = <<st.epoch, st.committed + i - 1>>
    BY <1>3, Zenon DEF Process
  <2> QED BY <1>1, <1>2, <1>3, <1>5, <2>1, <2>2, <2>3, <2>4, <2>5, SMTT(20) DEF Process
<1>9. Link'
  <2>1. Reach' = Reach
    BY <1>1, Zenon DEF Reach
  <2>2. \A s \in Sessions : First(s)' = First(s)
    BY <1>1, Zenon DEF First
  <2> QED BY <1>1, <1>2, <2>1, <2>2, LinkKept, Zenon
<1> QED BY <1>7, <1>8, <1>9

LEMMA PubIs ==
  ASSUME NEW p \in Pubs
  PROVE  p = [committed |-> p.committed, session |-> p.session, len |-> p.len]
  BY Zenon DEF Pubs

LEMMA PublishStep ==
  ASSUME Sound, Sound', Durable, Process, Link, PublishSession \/ PublishLen,
         UNCHANGED <<agentVars, linkVars>>
  PROVE  Durable' /\ Process' /\ Link'
<1>1. /\ mpc \in {"publish", "publishLen"}
      /\ mpc' = IF mpc = "publish" THEN "publishLen" ELSE "reading"
      /\ UNCHANGED <<disk, st, mfile, fileLen, todo>>
  BY Zenon DEF PublishSession, PublishLen
<1>2. UNCHANGED <<files, created, header, resume, fsynced, named, kept>>
  BY <1>1, Zenon DEF disk
<1>3. UNCHANGED <<aEpoch, aHead, aOldest, conn, wire, pos>> /\ AgentGrows
  BY AgentSame, Zenon DEF agentVars, linkVars, Sound
<1>4. Durable'
  BY <1>1, <1>3, DiskKept, Zenon
<1>5. pub \in Pubs /\ st \in States /\ fileLen \in Nat
  BY Zenon DEF Sound, MirrorSound, MirrorTyped
<1>6. mpc' = "publishLen" => pub'.committed = st.committed /\ pub'.session = st.session
  <2>1. ASSUME mpc' = "publishLen"
        PROVE  pub' = [pub EXCEPT !.committed = st.committed, !.session = st.session]
    BY <1>1, <2>1, Zenon DEF PublishSession, PublishLen
  <2> QED BY <1>5, <2>1, PubExcept, Zenon
<1>7. mpc' = "reading" => Published'
  <2> SUFFICES ASSUME mpc' = "reading" PROVE Published'
    BY Zenon
  <2>1. pub' = [pub EXCEPT !.len = fileLen] /\ pub.committed = st.committed /\ pub.session = st.session
    BY <1>1, Zenon DEF PublishSession, PublishLen, Process
  <2>2. pub' \in Pubs /\ pub'.committed = pub.committed /\ pub'.session = pub.session /\ pub'.len = fileLen
    BY <1>5, <2>1, PubLenExcept
  <2>3. pub' = [committed |-> pub'.committed, session |-> pub'.session, len |-> pub'.len]
    BY <2>2, PubIs, Zenon
  <2>4. pub' = [committed |-> st.committed, session |-> st.session, len |-> fileLen]
    BY <2>1, <2>2, <2>3, Zenon
  <2> QED BY <1>1, <2>4, Zenon DEF Published
<1>8. Process'
  <2>1. /\ Point(st, created) /\ Later(resume, st) /\ Opened /\ st = resume /\ st = kept /\ todo = <<>>
        /\ \A i \in 1..Len(todo) : todo[i] = <<st.epoch, st.committed + i - 1>>
        /\ st.epoch > 0 => st.committed + Len(todo) <= aHead[st.epoch]
    BY <1>1, Zenon DEF Process
  <2>2. Point(st, created)' /\ Later(resume, st)'
    BY <1>1, <1>2, <1>3, <2>1, Zenon DEF Point, Sane, Backed, Above, Below, First, Later
  <2>3. Opened'
    BY <1>1, <1>2, <2>1, Zenon DEF Opened
  <2>4. mpc' \in {"publishLen", "reading"}
    BY <1>1, Zenon
  <2> QED BY <1>1, <1>2, <1>3, <1>6, <1>7, <2>1, <2>2, <2>3, <2>4, Zenon DEF Process
<1>9. Link'
  <2>1. Reach' = Reach
    BY <1>1, Zenon DEF Reach
  <2>2. \A s \in Sessions : First(s)' = First(s)
    BY <1>2, Zenon DEF First
  <2> QED BY <1>1, <1>2, <1>3, <2>1, <2>2, LinkKept, Zenon
<1> QED BY <1>4, <1>8, <1>9, Zenon

-----------------------------------------------------------------------------
(* openSession: with a file that backs the state it is given, it cuts what *)
(* is above the commit point and nothing else, and lowers nothing.         *)

\* NewSession: what a crash has left in the session's file is cut away.
LEMMA NewSessionStep ==
  ASSUME Sound, Sound', Durable, Process, Link, NewSessionFile, UNCHANGED <<agentVars, linkVars>>
  PROVE  Durable' /\ Process' /\ Link'
<1>1. /\ mpc = "open" /\ OpenSession(st) /\ mpc' = "persist"
      /\ UNCHANGED <<resume, named, kept, todo, pub>>
  BY Zenon DEF NewSessionFile
<1>2. /\ Point(st, created) /\ Later(resume, st) /\ st.session = resume.session + 1 /\ st.committed = st.start
      /\ resume.epoch > 0 /\ todo = <<>> /\ \A i \in 1..Len(todo) : todo[i] = <<st.epoch, st.committed + i - 1>>
      /\ (st.epoch > 0 => st.committed + Len(todo) <= aHead[st.epoch])
  BY <1>1, Zenon DEF Process
<1>3. UNCHANGED <<aEpoch, aHead, aOldest, conn, wire, pos>> /\ AgentGrows
  BY AgentSame, Zenon DEF agentVars, linkVars, Sound
<1>4. /\ st \in States /\ resume \in States /\ kept \in States /\ st.committed \in Nat /\ st.start \in Nat
      /\ resume.session \in Nat /\ kept.session \in Nat /\ st.session \in Sessions /\ st.session \in Nat
      /\ resume.session \in Sessions /\ kept.session \in Sessions /\ kept.session <= resume.session
      /\ resume.epoch \in Nat /\ st.epoch \in Nat /\ st.start <= st.committed
  BY StateFields, Zenon DEF Sound, MirrorSound, MirrorTyped, Sealed
<1>5. /\ st' = st /\ mfile' = st.session /\ fileLen' = 0 /\ Len(files'[st.session]) = 0
      /\ fsynced'[st.session] = 0 /\ Cut /\ created' = created \cup {st.session}
      /\ \A s \in created' : header'[s] # NoHeader
      /\ \A s \in Sessions \ {st.session} : files'[s] = files[s] /\ fsynced'[s] = fsynced[s]
  <2>1. Backed(st, created) /\ st.committed - st.start = 0
    BY <1>2, <1>4 DEF Point
  <2> QED BY <1>1, <1>4, <2>1, OpenKeeps, Zenon
<1>6. st.epoch > 0
  BY <1>2, <1>4 DEF Later
<1>7. Durable'
  <2>1. resume.session # st.session /\ kept.session # st.session
    BY <1>2, <1>4
  <2>2. /\ resume.committed - resume.start <= fsynced'[resume.session]
        /\ kept.committed - kept.start <= fsynced'[kept.session]
    BY <1>4, <1>5, <2>1, PointsSynced, Zenon
  <2>3. \A s \in created' : s <= resume.session + 1 /\ (resume.epoch = 0 => s = 0) /\ header'[s] # NoHeader
    BY <1>2, <1>4, <1>5 DEF Durable, Names
  <2> QED BY <1>1, <1>3, <1>5, <2>2, <2>3, DurableKept, Zenon
<1>8. Process'
  <2>1. Point(st, created)'
    BY <1>2, <1>3, <1>4, <1>5, PointKept
  <2>2. Later(resume, st)'
    BY <1>1, <1>2, <1>3, <1>5, Zenon DEF Later
  <2>3. Opened'
    BY <1>1, <1>2, <1>4, <1>5, SMTT(20) DEF Opened
  <2>4. st'.committed > st'.start => FALSE
    BY <1>2, <1>4, <1>5
  <2>5. st'.session # resume'.session /\ st'.session <= resume'.session + 1
    BY <1>1, <1>2, <1>4, <1>5
  <2> QED BY <1>1, <1>2, <1>3, <1>5, <1>6, <2>1, <2>2, <2>3, <2>4, <2>5, Zenon DEF Process
<1>9. Link'
  <2>1. Reach' = Reach
    BY <1>1, <1>5, Zenon DEF Reach
  <2>2. \A s \in Sessions : s > st.session => files'[s] = files[s] /\ First(s)' = First(s)
    BY <1>4, <1>5, ConstFacts DEF First
  <2> QED BY <1>1, <1>3, <1>5, <2>1, <2>2, LinkKept, Zenon
<1> QED BY <1>7, <1>8, <1>9, Zenon

LEMMA OpenMirrorStep ==
  ASSUME Sound, Sound', Durable, Process, Link, OpenMirror, UNCHANGED <<agentVars, linkVars>>
  PROVE  Durable' /\ Process' /\ Link'
<1>1. /\ mpc = "down" /\ OpenSession(resume) /\ mpc' = "idle"
      /\ pub' = [committed |-> st'.committed, session |-> st'.session, len |-> fileLen']
      /\ UNCHANGED <<resume, named, kept, todo>>
  BY Zenon DEF OpenMirror
<1>2. todo = <<>> /\ conn = "down" /\ wire = <<>>
  BY <1>1, Zenon DEF Process, Link
<1>3. UNCHANGED <<aEpoch, aHead, aOldest, conn, wire, pos>> /\ AgentGrows
  BY AgentSame, Zenon DEF agentVars, linkVars, Sound
<1>4. /\ resume \in States /\ kept \in States /\ resume.committed \in Nat /\ resume.start \in Nat
      /\ kept.committed \in Nat /\ kept.start \in Nat /\ resume.start <= resume.committed
      /\ resume.session \in Sessions /\ kept.session \in Sessions /\ resume.session \in Nat
      /\ resume.epoch \in Nat
  BY StateFields, Zenon DEF Sound, MirrorSound, MirrorTyped
<1>5. Point(resume, created) /\ Later(kept, resume) /\ Backed(resume, created) /\ Sane(resume)
  BY Zenon DEF Durable, Point
<1>6. /\ st' = resume /\ mfile' = resume.session /\ fileLen' = resume.committed - resume.start
      /\ Len(files'[resume.session]) = resume.committed - resume.start
      /\ fsynced'[resume.session] = resume.committed - resume.start
      /\ Cut /\ created' = created \cup {resume.session}
      /\ \A s \in created' : header'[s] # NoHeader
      /\ \A s \in Sessions \ {resume.session} : files'[s] = files[s] /\ fsynced'[s] = fsynced[s]
  BY <1>1, <1>4, <1>5, OpenKeeps, Zenon
<1>7. Durable'
  <2>1. resume.committed - resume.start <= fsynced'[resume.session]
    BY <1>4, <1>6
  <2>2. kept.committed - kept.start <= fsynced'[kept.session]
    <3>1. CASE kept.session = resume.session
      <4>1. kept.start = resume.start /\ kept.committed <= resume.committed
        BY <1>5, <3>1, Zenon DEF Later
      <4> QED BY <1>4, <1>6, <3>1, <4>1
    <3>2. CASE kept.session # resume.session
      BY <1>4, <1>6, <3>2, PointsSynced, Zenon
    <3> QED BY <3>1, <3>2, Zenon
  <2>3. \A s \in created' : s <= resume.session + 1 /\ (resume.epoch = 0 => s = 0) /\ header'[s] # NoHeader
    BY <1>4, <1>5, <1>6 DEF Durable, Names, Sane, ZeroState
  <2> QED BY <1>1, <1>3, <1>6, <2>1, <2>2, <2>3, DurableKept, Zenon
<1>8. Process'
  <2>1. Point(st, created)' /\ Later(resume, st)'
    BY <1>1, <1>4, <1>6, <1>7, LaterSelf DEF Durable, Later
  <2>2. \A i \in 1..(resume.committed - resume.start) :
          files'[resume.session][i] = <<resume.epoch, resume.start + i - 1>>
    BY <1>4, <1>5, <1>6, Zenon DEF Cut, Backed
  <2>3. Opened'
    BY <1>1, <1>6, <2>2, Zenon DEF Opened
  <2>4. Published'
    BY <1>1, <1>6, Zenon DEF Published
  <2>5. resume.epoch > 0 => resume.committed + Len(todo) <= aHead[resume.epoch]
    BY <1>2, <1>4, <1>5 DEF Sane
  <2>6. Len(todo) = 0 /\ \A i \in 1..Len(todo) : FALSE
    BY <1>2
  <2> QED BY <1>1, <1>2, <1>3, <1>6, <2>1, <2>3, <2>4, <2>5, <2>6, Zenon DEF Process
<1>9. Link'
  BY <1>2, <1>3, Zenon DEF Link
<1> QED BY <1>7, <1>8, <1>9, Zenon

-----------------------------------------------------------------------------
(* Crashes.                                                                *)

LEMMA ForgotProcess ==
  ASSUME Forget, Hangup PROVE Process'
<1>1. mpc' = "down" /\ st' = ZeroState /\ mfile' = -1 /\ todo' = <<>> /\ conn' = "down" /\ st'.epoch = 0
      /\ Len(todo') = 0 /\ \A i \in 1..Len(todo') : FALSE
  BY DEF Forget, Hangup, ZeroState
<1> QED BY <1>1 DEF Process

LEMMA KillStep ==
  ASSUME Sound, Sound', Durable, Process, Link, MirrorKill, Hangup, UNCHANGED agentVars
  PROVE  Durable' /\ Process' /\ Link'
<1>1. resume' \in HalfPersisted /\ UNCHANGED <<files, created, header, fsynced, named, kept>> /\ Forget
  BY Zenon DEF MirrorKill
<1>2. UNCHANGED <<aEpoch, aHead, aOldest>>
  BY Zenon DEF agentVars
<1>3. /\ Point(resume', created) /\ Later(kept, resume')
      /\ \A s \in created : s <= resume'.session + 1 /\ (resume'.epoch = 0 => s = 0)
  BY <1>1, HalfPoint, Zenon
<1>4. Point(resume, created)'
  BY <1>1, <1>2, <1>3, Zenon DEF Point, Sane, Backed, Above, Below, First
<1>5. Point(kept, named)'
  BY <1>1, <1>2, Zenon DEF Durable, Point, Sane, Backed, Above, Below, First
<1>6. Later(kept, resume)'
  BY <1>1, <1>2, <1>3, Zenon DEF Later
<1>7. Runs' /\ Names'
  BY <1>1, <1>3, Zenon DEF Durable, Runs, Names, First
<1> QED BY <1>1, <1>4, <1>5, <1>6, <1>7, ForgotProcess, LinkDown, Zenon DEF Durable

LEMMA PowerStep ==
  ASSUME Sound, Sound', Durable, Process, Link, MirrorPowerCut, Hangup, UNCHANGED agentVars
  PROVE  Durable' /\ Process' /\ Link'
<1>1. /\ \/ resume' \in HalfPersisted /\ created' = created
         \/ resume' = kept /\ created' = named
      /\ kept' = resume' /\ named' = created' /\ header' = header /\ Forget
      /\ fsynced' = [s \in Sessions |-> Len(files'[s])]
  BY Zenon DEF MirrorPowerCut
<1>2. AgentGrows
  BY AgentSame, Zenon DEF Sound
<1>3. created' \subseteq created /\ created' \subseteq Sessions /\ created \subseteq Sessions
  BY <1>1, Zenon DEF Durable, Names, Sound, MirrorSound, MirrorTyped
<1>4. /\ \A s \in Sessions \ created' : files'[s] = <<>>
      /\ \A s \in created' : /\ fsynced[s] <= Len(files'[s]) /\ Len(files'[s]) <= Len(files[s])
                             /\ \A i \in 1..Len(files'[s]) : files'[s][i] = files[s][i]
  BY PowerFiles, Zenon
<1>5. Cut
  <2> SUFFICES ASSUME NEW s \in Sessions
               PROVE  Len(files'[s]) <= Len(files[s]) /\ \A i \in 1..Len(files'[s]) : files'[s][i] = files[s][i]
    BY Zenon DEF Cut
  <2>1. CASE s \in created'
    BY <1>4, <2>1, Zenon
  <2>2. CASE s \notin created'
    <3>1. Len(files'[s]) = 0 /\ Len(files[s]) \in Nat
      BY <1>4, <2>2, FileFacts DEF Sound, MirrorSound
    <3> QED BY <3>1
  <2> QED BY <2>1, <2>2, Zenon
<1>6. /\ resume' \in States /\ resume'.start <= resume'.committed /\ Point(resume', created')
      /\ \A s \in created' : s <= resume'.session + 1 /\ (resume'.epoch = 0 => s = 0)
  <2>1. CASE resume' \in HalfPersisted /\ created' = created
    BY <2>1, HalfPoint, Zenon
  <2>2. CASE resume' = kept /\ created' = named
    BY <2>2, Zenon DEF Durable, Names, Sound, MirrorSound, MirrorTyped
  <2> QED BY <1>1, <2>1, <2>2, Zenon
<1>7. resume'.committed \in Nat /\ resume'.start \in Nat /\ resume'.session \in Sessions
  BY <1>6, StateFields, Zenon
<1>8. resume'.committed - resume'.start <= fsynced'[resume'.session]
      /\ (resume'.committed > resume'.start => resume'.session \in created')
  <2> DEFINE n == resume'.committed - resume'.start
  <2>1. (n > 0 => resume'.session \in created') /\ n <= fsynced[resume'.session] /\ n \in Nat
    BY <1>6, <1>7 DEF Point, Backed
  <2>2. fsynced'[resume'.session] = Len(files'[resume'.session])
    BY <1>1, <1>7, Zenon
  <2>3. Len(files'[resume'.session]) \in Nat /\ fsynced[resume'.session] \in Nat
    BY <1>7, FileFacts, NewFileFacts, Zenon DEF Sound, MirrorSound
  <2>4. n <= fsynced'[resume'.session]
    <3>1. CASE n = 0
      BY <2>2, <2>3, <3>1
    <3>2. CASE n > 0
      <4>1. fsynced[resume'.session] <= Len(files'[resume'.session])
        BY <1>4, <2>1, <3>2, Zenon
      <4> QED BY <2>1, <2>2, <2>3, <4>1
    <3> QED BY <2>1, <3>1, <3>2
  <2> QED BY <1>7, <2>1, <2>4
<1>9. Point(resume, created)'
  BY <1>2, <1>5, <1>6, <1>8, PointKept, Zenon
<1>10. Point(kept, named)'
  BY <1>1, <1>9, Zenon
<1>11. Later(kept, resume)'
  <2>1. resume'.session \in Nat /\ resume'.epoch \in Nat
    BY <1>6, StateFields, Zenon
  <2> QED BY <1>1, <1>7, <2>1 DEF Later
<1>12. Runs'
  BY <1>1, <1>3, <1>5, RunsKept, Zenon DEF Durable, Runs
<1>13. Names'
  BY <1>1, <1>6, Zenon DEF Names
<1> QED BY <1>1, <1>9, <1>10, <1>11, <1>12, <1>13, ForgotProcess, LinkDown, Zenon DEF Durable

-----------------------------------------------------------------------------
(* CInv is inductive.                                                      *)

\* Steps in which the process does not move.
LEMMA StillStep ==
  ASSUME Sound, Sound', Durable, Process, AgentGrows, UNCHANGED mirrorVars, conn' \in {conn, "down"}
  PROVE  Durable' /\ Process'
<1>1. UNCHANGED <<disk, files, created, resume, fsynced, kept, mpc, st, mfile, fileLen, todo, pub>>
  BY Zenon DEF mirrorVars, disk, memory
<1> QED BY <1>1, DiskKept, ProcessKept, Zenon
=============================================================================

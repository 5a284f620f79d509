--------------------------- MODULE CollectorProofs ----------------------------
(***************************************************************************)
(* CInv (module CollectorInvariant) is inductive, for a disk that does not *)
(* fail and preambles that name their spool instance (CallsSucceed), and   *)
(* what follows from it: the collector's safety properties, that it        *)
(* implements Relay, and what a client of the fan-out is given.  With an   *)
(* empty id, which reconcileEpoch ignores, a redeployed spool goes on in   *)
(* the old one's session: CollectorEmptyEpoch.cfg.                         *)
(***************************************************************************)
EXTENDS FanOut, CollectorTyping, CollectorSteps, CollectorRelay

-----------------------------------------------------------------------------
(* CInv is inductive.                                                      *)

LEMMA LinkStep ==
  ASSUME Sound, Sound', Durable, Process, Link,
         Capture \/ Retire \/ Wipe \/ Send \/ Heartbeat \/ UNCHANGED cvars
  PROVE  Durable' /\ Process' /\ Link'
<1>1. CASE Capture \/ Retire \/ Heartbeat \/ UNCHANGED cvars
  <2>1. AgentGrows /\ UNCHANGED <<mirrorVars, linkVars>> /\ aEpoch' = aEpoch
    <3>1. CASE Capture \/ Retire
      BY <3>1, AgentStep, Zenon DEF Sound, Capture, Retire
    <3>2. CASE Heartbeat \/ UNCHANGED cvars
      BY <3>2, AgentSame, Zenon DEF Sound, Heartbeat, cvars, agentVars
    <3> QED BY <1>1, <3>1, <3>2, Zenon
  <2>2. UNCHANGED <<files, mpc, st, todo, conn>> /\ Reach' = Reach
    BY <2>1, Zenon DEF mirrorVars, disk, memory, linkVars, Reach
  <2>3. \A s \in Sessions : First(s)' = First(s)
    BY <2>2, Zenon DEF First
  <2>4. Link'
    BY <2>1, <2>2, <2>3, LinkKept DEF Link
  <2> QED BY <2>1, <2>2, <2>4, StillStep, Zenon
<1>2. CASE Wipe
  <2>1. AgentGrows /\ UNCHANGED mirrorVars /\ Hangup
    BY <1>2, AgentStep, Zenon DEF Wipe, Sound
  <2> QED BY <2>1, StillStep, LinkDown, Zenon DEF Hangup
<1>3. CASE Send
  <2>1. AgentGrows /\ UNCHANGED mirrorVars /\ conn' = conn
    BY <1>3, AgentSame, Zenon DEF Send, Sound
  <2> QED BY <1>3, <2>1, StillStep, SendLink, Zenon
<1> QED BY <1>1, <1>2, <1>3, Zenon

\* A connection begins or ends.
LEMMA ConnStep ==
  ASSUME CallsSucceed, Sound, Sound', Durable, Process, Link, runOnce \/ Drop
  PROVE  Durable' /\ Process' /\ Link'
<1>1. /\ UNCHANGED <<disk, memory, agentVars>> /\ mpc \in {"idle", "reading"}
      /\ mpc' = IF mpc = "idle" THEN "reading" ELSE "idle"
  BY Zenon DEF runOnce, Drop
<1>2. UNCHANGED <<files, created, resume, fsynced, kept, st, mfile, fileLen, todo, pub, aEpoch, aHead, aOldest>>
  BY <1>1, Zenon DEF disk, memory, agentVars
<1>3. AgentGrows
  BY <1>1, AgentSame, Zenon DEF Sound
<1>4. Durable'
  BY <1>1, <1>3, DiskKept, Zenon
<1>5. Process'
  <2>1. /\ Point(st, created) /\ Later(resume, st) /\ Opened /\ Published /\ st = resume /\ todo = <<>>
        /\ \A i \in 1..Len(todo) : todo[i] = <<st.epoch, st.committed + i - 1>>
        /\ st.epoch > 0 => st.committed + Len(todo) <= aHead[st.epoch]
    BY <1>1 DEF Process
  <2>2. Point(st, created)' /\ Later(resume, st)'
    BY <1>2, <2>1, Zenon DEF Point, Sane, Backed, Above, Below, First, Later
  <2>3. Opened' /\ Published' /\ mpc' \in {"idle", "reading"}
    BY <1>1, <1>2, <2>1, Zenon DEF Opened, Published
  <2> QED BY <1>2, <2>1, <2>2, <2>3, SMTT(20) DEF Process
<1>6. Link'
  BY runOnceLink, LinkDown, Zenon DEF Drop
<1> QED BY <1>4, <1>5, <1>6, Zenon

LEMMA InvStep ==
  ASSUME CallsSucceed PROVE CInv /\ [CollectorNext]_cvars => CInv'
<1> SUFFICES ASSUME CInv, [CollectorNext]_cvars PROVE CInv'
  BY Zenon
<1>1. Sound /\ Durable /\ Process /\ Link
  BY InvParts, Zenon
<1>2. Sound'
  BY <1>1, LinkTypedStep, MirrorSoundStep, Zenon DEF Sound
<1> SUFFICES Durable' /\ Process' /\ Link'
  BY <1>2, InvPartsNext, Zenon
<1>3. CASE Capture \/ Retire \/ Wipe \/ Send \/ Heartbeat \/ UNCHANGED cvars
  BY <1>1, <1>2, <1>3, LinkStep, Zenon
<1>4. CASE runOnce \/ Drop
  BY <1>1, <1>2, <1>4, ConnStep, Zenon
<1>5. CASE Frame1
  BY <1>1, <1>2, <1>5, PreambleStep, CommitStep, GapStep, Zenon DEF Frame1
<1>6. CASE MirrorStep /\ UNCHANGED <<agentVars, linkVars>>
  BY <1>1, <1>2, <1>6, WriteStep, SyncStep, PersistStep, PublishStep, NewSessionStep, OpenMirrorStep, SMTT(20)
  DEF MirrorStep
<1>7. CASE (Broken \/ Crash) /\ UNCHANGED agentVars
  BY <1>1, <1>2, <1>7, NeverBroken, KillStep, PowerStep, Zenon DEF Broken, Crash
<1> QED BY <1>3, <1>4, <1>5, <1>6, <1>7 DEF CollectorNext

LEMMA InvInit == CollectorInit => CInv
<1> SUFFICES ASSUME CollectorInit PROVE CInv
  BY Zenon
<1>1. Sound
  BY TypedSealedInit, SoundParts, Zenon DEF Sound
<1>2. /\ files = [s \in Sessions |-> <<>>] /\ created = {} /\ named = {} /\ resume = ZeroState
      /\ kept = ZeroState /\ fsynced = [s \in Sessions |-> 0] /\ mpc = "down" /\ st = ZeroState
      /\ mfile = -1 /\ todo = <<>> /\ conn = "down" /\ wire = <<>> /\ aEpoch = 1
  BY Zenon DEF CollectorInit, MirrorInit
<1>3. \A s \in Sessions : files[s] = <<>> /\ Len(files[s]) = 0 /\ \A i \in 1..Len(files[s]) : FALSE
  BY <1>2
<1>4. ZeroState \in States /\ ZeroState.session = 0 /\ ZeroState.start = 0 /\ ZeroState.committed = 0
      /\ ZeroState.epoch = 0
  BY ConstFacts DEF ZeroState, States
<1>5. Runs /\ Names
  BY <1>2, <1>3, Zenon DEF Runs, Names
<1>6. ASSUME NEW there PROVE Point(ZeroState, there)
  BY <1>2, <1>3, <1>4, ConstFacts DEF Point, Sane, Backed, Above, Below
<1>7. Later(ZeroState, ZeroState)
  BY <1>4, LaterSelf, Zenon
<1>8. Durable
  BY <1>2, <1>5, <1>6, <1>7 DEF Durable
<1>9. Process
  BY <1>2, <1>4 DEF Process
<1>10. Link
  BY <1>2, Zenon DEF Link
<1> QED BY <1>1, <1>8, <1>9, <1>10, InvParts, Zenon

\* On a disk that does not fail, and when every preamble names its spool instance, what
\* CInv says of files, resume points, process and connection holds of every state.
THEOREM InvHolds == CallsSucceed => (CollectorSpec => []CInv)
<1> SUFFICES ASSUME CallsSucceed PROVE CollectorSpec => []CInv
  BY Zenon
<1>1. CInv /\ [CollectorNext]_cvars => CInv'
  BY InvStep, Zenon
<1> QED BY <1>1, InvInit, PTL DEF CollectorSpec

-----------------------------------------------------------------------------
(* The properties.                                                         *)

\* Whichever resume.json a restart finds, the synced part of its session's file begins
\* with what it has committed.
THEOREM CommitBackedHolds == CallsSucceed => (CollectorSpec => []CommitBacked)
<1>1. CInv => CommitBacked
  <2> SUFFICES ASSUME CInv, NEW r \in {resume, kept}
               PROVE  LET n == r.committed - r.start IN
                      /\ n > 0 => r.session \in (IF r = kept THEN named ELSE created)
                      /\ n \in 0..fsynced[r.session]
                      /\ \A i \in 1..n : files[r.session][i] = <<r.epoch, r.start + i - 1>>
    BY Zenon DEF CommitBacked
  <2>1. Sound /\ Durable
    BY InvParts, Zenon
  <2>2. r \in States /\ r.start <= r.committed
    BY <2>1, Zenon DEF Sound, MirrorSound, MirrorTyped
  <2>3. Backed(r, IF r = kept THEN named ELSE created)
    BY <2>1, Zenon DEF Durable, Point
  <2>4. r.committed \in Nat /\ r.start \in Nat /\ r.session \in Sessions /\ fsynced[r.session] \in Nat
    BY <2>1, <2>2, StateFields, FileFacts, SMTT(20) DEF Sound, MirrorSound
  <2> QED BY <2>2, <2>3, <2>4 DEF Backed
<1> QED BY <1>1, InvHolds, PTL

\* When every preamble names its spool instance, each mirror file is one gap-free run of
\* one instance and no packet is mirrored twice (reconcileEpoch, commit, openSession).
THEOREM ExactlyOnceHolds == CallsSucceed => (CollectorSpec => []ExactlyOnce)
<1>1. CInv => ExactlyOnce
  <2> SUFFICES ASSUME CInv PROVE ExactlyOnce
    BY Zenon
  <2>1. Sound /\ Runs
    BY InvParts, Zenon DEF Durable
  <2>2. \A s \in Sessions : \A i \in 1..Len(files[s]) :
          files[s][i] = <<First(s)[1], First(s)[2] + i - 1>>
    BY <2>1, Zenon DEF Runs
  <2>3. ASSUME NEW s \in Sessions, NEW i \in 1..Len(files[s])
        PROVE  /\ files[s] # <<>> /\ First(s)[1] \in Nat /\ First(s)[2] \in Nat /\ Len(files[s]) \in Nat
               /\ files[s][i][1] = First(s)[1] /\ files[s][i][2] = First(s)[2] + i - 1 /\ s \in Nat
    <3>1. files[s] # <<>>
      BY <2>1, <2>3, FileFacts DEF Sound, MirrorSound
    <3>2. files[s][i] = <<First(s)[1], First(s)[2] + i - 1>>
      BY <2>2, Zenon
    <3> QED BY <2>1, <3>1, <3>2, FirstFacts, ConstFacts DEF Sound, MirrorSound
  <2>4. ASSUME NEW s \in Sessions, NEW t \in Sessions, NEW i \in 1..Len(files[s]),
               NEW j \in 1..Len(files[t]), files[s][i] = files[t][j], s < t
        PROVE  FALSE
    <3>1. /\ files[s] # <<>> /\ First(s)[1] \in Nat /\ First(s)[2] \in Nat /\ Len(files[s]) \in Nat
          /\ files[s][i][1] = First(s)[1] /\ files[s][i][2] = First(s)[2] + i - 1
      BY <2>3, Zenon
    <3>2. /\ files[t] # <<>> /\ First(t)[1] \in Nat /\ First(t)[2] \in Nat /\ Len(files[t]) \in Nat
          /\ files[t][j][1] = First(t)[1] /\ files[t][j][2] = First(t)[2] + j - 1
      BY <2>3, Zenon
    <3>3. First(s)[1] = First(t)[1] /\ First(s)[2] + i - 1 = First(t)[2] + j - 1
      BY <2>4, <3>1, <3>2, Zenon
    <3>4. First(s)[2] + Len(files[s]) <= First(t)[2]
      BY <2>1, <2>4, <3>1, <3>2, <3>3, SMTT(20) DEF Runs
    <3>5. i \in Nat /\ i <= Len(files[s]) /\ j \in Nat /\ j >= 1
      BY <2>4, <3>1, <3>2
    <3> QED BY <3>1, <3>2, <3>3, <3>4, <3>5, SMTT(20)
  <2>5. ASSUME NEW s \in Sessions, NEW i \in 1..Len(files[s]), NEW j \in 1..Len(files[s]),
               files[s][i] = files[s][j]
        PROVE  i = j
    <3>1. /\ First(s)[2] \in Nat /\ files[s][i][2] = First(s)[2] + i - 1
          /\ files[s][j][2] = First(s)[2] + j - 1 /\ Len(files[s]) \in Nat
      BY <2>3, Zenon
    <3>2. First(s)[2] + i - 1 = First(s)[2] + j - 1 /\ i \in Nat /\ j \in Nat
      BY <2>5, <3>1
    <3> QED BY <3>1, <3>2
  <2>6. \A s, t \in Sessions : s = t \/ s < t \/ t < s
    BY ConstFacts
  <2>7. \A s, t \in Sessions : \A i \in 1..Len(files[s]), j \in 1..Len(files[t]) :
          files[s][i] = files[t][j] => s = t /\ i = j
    BY <2>4, <2>5, <2>6, Zenon
  <2> QED BY <2>2, <2>7, Zenon DEF ExactlyOnce, First
<1> QED BY <1>1, InvHolds, PTL

\* Demux.commit never meets a forward jump.
THEOREM NoJumpSeenHolds == CallsSucceed => (CollectorSpec => []NoJumpSeen)
<1>1. CInv => NoJumpSeen
  BY InvParts, CommitFits, Zenon DEF NoJumpSeen
<1> QED BY <1>1, InvHolds, PTL

\* Only a persist and a power cut change the durable resume.json, to one that follows it.
LEMMA KeptStep ==
  ASSUME CallsSucceed, CInv, [CollectorNext]_cvars
  PROVE  kept' = kept \/ (kept' \in States /\ Later(kept, kept') /\ kept'.start <= kept'.committed)
<1>1. Sound /\ Durable /\ Process /\ Link
  BY InvParts, Zenon
<1>2. kept \in States /\ kept.start <= kept.committed /\ st \in States /\ resume \in States
      /\ resume.start <= resume.committed /\ st.start <= st.committed
  BY <1>1, Zenon DEF Sound, MirrorSound, MirrorTyped
<1>3. CASE UNCHANGED disk
  BY <1>3, Zenon DEF disk
<1>4. CASE Capture \/ Retire \/ Wipe \/ Send \/ runOnce \/ Drop \/ Heartbeat \/ UNCHANGED cvars
  BY <1>3, <1>4, Zenon DEF Capture, Retire, Wipe, Send, runOnce, Drop, Heartbeat, cvars, mirrorVars
<1>5. CASE Frame1
  BY <1>3, <1>5, Zenon DEF Frame1, reconcileEpoch, SetHeader, commit, handleGap, mirrorVars
<1>6. CASE MirrorStep
  <2>1. CASE persistState
    <3>1. kept' = st /\ Later(resume, st) /\ Later(kept, resume) /\ Sane(st)
      BY <1>1, <2>1, SMTT(20) DEF persistState, Process, Durable, Point
    <3> QED BY <1>1, <1>2, <3>1, LaterTrans, SMTT(20) DEF Sound
  <2> QED BY <1>3, <1>6, <2>1, Zenon
      DEF MirrorStep, MirrorWrite, MirrorSync, PublishSession, PublishLen, NewSessionFile, OpenMirror
<1>7. CASE Broken \/ Crash
  <2>1. CASE MirrorKill
    BY <2>1, Zenon DEF MirrorKill
  <2>2. CASE MirrorPowerCut
    <3>1. kept' \in HalfPersisted \/ kept' = kept
      BY <2>2, Zenon DEF MirrorPowerCut
    <3> QED BY <1>1, <3>1, HalfPoint, Zenon
  <2> QED BY <1>1, <1>7, <2>1, <2>2, NeverBroken, Zenon DEF Broken, Crash
<1> QED BY <1>4, <1>5, <1>6, <1>7, SMTT(20) DEF CollectorNext

\* The durable commit point never moves back within an epoch, nor do the sessions.
THEOREM ResumeForwardHolds == CallsSucceed => (CollectorSpec => ResumeForward)
<1> SUFFICES ASSUME CallsSucceed PROVE CollectorSpec => ResumeForward
  BY Zenon
<1>1. CInv /\ [CollectorNext]_cvars =>
        [/\ kept'.epoch = kept.epoch => kept'.committed >= kept.committed
         /\ kept'.session >= kept.session]_cvars
  <2> SUFFICES ASSUME CInv, [CollectorNext]_cvars
               PROVE  /\ kept'.epoch = kept.epoch => kept'.committed >= kept.committed
                      /\ kept'.session >= kept.session
    BY Zenon
  <2>1. kept \in States
    BY InvParts, Zenon DEF Sound, MirrorSound, MirrorTyped
  <2>2. kept.session \in Nat /\ kept.committed \in Nat
    BY <2>1, StateFields, Zenon
  <2>3. CASE kept' = kept
    BY <2>2, <2>3
  <2>4. CASE kept' \in States /\ Later(kept, kept') /\ kept'.start <= kept'.committed
    <3>1. kept'.session \in Nat /\ kept'.committed \in Nat /\ kept'.start \in Nat
      BY <2>4, StateFields, Zenon
    <3>2. kept.session <= kept'.session
      BY <2>4, Zenon DEF Later
    <3>3. kept.session = kept'.session => kept.committed <= kept'.committed
      BY <2>4, Zenon DEF Later
    <3>4. kept.session < kept'.session /\ kept'.epoch = kept.epoch => kept.committed < kept'.start
      BY <2>4, Zenon DEF Later
    <3> QED BY <2>2, <2>4, <3>1, <3>2, <3>3, <3>4
  <2> QED BY <2>3, <2>4, KeptStep, Zenon
<1>2. CollectorSpec => []CInv
  BY InvHolds, Zenon
<1> QED BY <1>1, <1>2, PTL DEF CollectorSpec, ResumeForward

-----------------------------------------------------------------------------
(* One spool instance: nothing is lost silently.                           *)

LEMMA GrowsStep ==
  ASSUME LinkTyped, [CollectorNext]_cvars PROVE AgentGrows
<1>1. CASE Capture \/ Retire \/ Wipe
  BY <1>1, AgentStep, Zenon
<1>2. CASE UNCHANGED agentVars
  BY <1>2, AgentSame, Zenon
<1> QED BY <1>1, <1>2
    DEF CollectorNext, Send, runOnce, Drop, Frame1, reconcileEpoch, commit, handleGap, Receive,
        Heartbeat, cvars

\* As long as there is one spool instance: a packet below the commit point is durably
\* mirrored, or retention dropped it.
THEOREM NoSilentLossHolds ==
  CallsSucceed /\ MaxEpoch = 1 => (CollectorSpec => []NoSilentLoss)
<1> SUFFICES ASSUME CallsSucceed, MaxEpoch = 1 PROVE CollectorSpec => []NoSilentLoss
  BY Zenon
<1>1. CollectorInit => LInv
  BY DEF CollectorInit, MirrorInit, LInv, Started, ZeroState
<1>2. CInv /\ LInv /\ CInv' /\ [CollectorNext]_cvars => LInv'
  <2> SUFFICES ASSUME CInv, LInv, CInv', [CollectorNext]_cvars PROVE LInv'
    BY Zenon
  <2>1. Sound /\ Sound' /\ AgentGrows
    BY InvParts, InvPartsNext, GrowsStep, Zenon DEF Sound
  <2>2. Started(resume') /\ Started(kept') /\ Started(st')
    BY ResumeStep, StateStep, Zenon DEF LInv
  <2>3. resume' \in States /\ kept' \in States /\ st' \in States
    BY <2>1, Zenon DEF Sound, MirrorSound, MirrorTyped
  <2> QED BY <2>1, <2>2, <2>3, StartedGrows, Zenon DEF LInv
<1>3. CInv /\ LInv => NoSilentLoss
  <2> SUFFICES ASSUME CInv, LInv, NEW r \in {resume, kept}, NEW g \in 0..(r.committed - 1)
               PROVE  Mirrored(r.epoch, g) \/ g < aOldest[r.epoch]
    BY Zenon DEF NoSilentLoss
  <2>1. Sound /\ Durable
    BY InvParts, Zenon
  <2>2. r \in States /\ r.start <= r.committed /\ Started(r)
    BY <2>1, Zenon DEF Sound, MirrorSound, MirrorTyped, LInv
  <2>3. \E there : Backed(r, there) /\ Sane(r)
    BY <2>1, Zenon DEF Durable, Point
  <2>4. r.committed \in Nat /\ r.start \in Nat /\ r.session \in Sessions /\ r.epoch \in 0..MaxEpoch
        /\ fsynced[r.session] \in Nat
    BY <2>1, <2>2, StateFields, FileFacts, Zenon DEF Sound, MirrorSound
  <2>5. r.epoch > 0
    BY <2>3, <2>4, ConstFacts DEF Sane, ZeroState
  <2>6. CASE g < r.start
    <3>1. aOldest[r.epoch] \in Nat
      BY <2>1, <2>4, <2>5, EpochFacts, AgentFacts, Zenon DEF Sound
    <3> QED BY <2>2, <2>4, <2>5, <2>6, <3>1 DEF Started
  <2>7. CASE g >= r.start
    <3> DEFINE i == g - r.start + 1
    <3>1. i \in 1..(r.committed - r.start) /\ r.start + i - 1 = g
      BY <2>2, <2>4, <2>7
    <3>2. files[r.session][i] = <<r.epoch, g>> /\ r.committed - r.start <= fsynced[r.session]
      BY <2>3, <3>1, Zenon DEF Backed
    <3>3. i \in 1..fsynced[r.session]
      BY <2>4, <3>1, <3>2
    <3> QED BY <2>4, <3>2, <3>3, Zenon DEF Mirrored
  <2> QED BY <2>4, <2>6, <2>7
<1>4. CollectorSpec => []CInv
  BY InvHolds, SMTT(20)
<1> QED BY <1>1, <1>2, <1>3, <1>4, PTL DEF CollectorSpec

-----------------------------------------------------------------------------
(* One spool instance: the files declare its link type.                    *)

\* As long as there is one spool instance, every mirror file that holds packets declares
\* their link type, whenever the collector was killed or lost its power between opening
\* a file and hearing the preamble.
THEOREM HeaderTrueHolds ==
  CallsSucceed /\ MaxEpoch = 1 => (CollectorSpec => []HeaderTrue)
<1> SUFFICES ASSUME CallsSucceed, MaxEpoch = 1 PROVE CollectorSpec => []HeaderTrue
  BY Zenon
<1>1. CollectorInit => HInv
  BY DEF CollectorInit, MirrorInit, HInv, Declared, ZeroState, Ethernet
<1>2. CInv /\ HInv /\ CInv' /\ [CollectorNext]_cvars => HInv'
  <2> SUFFICES ASSUME CInv, HInv, CInv', [CollectorNext]_cvars PROVE HInv'
    BY Zenon
  <2>1. Sound /\ Durable /\ Process /\ Link /\ Sound' /\ Durable'
    BY InvParts, InvPartsNext, Zenon
  <2>2. CASE Capture \/ Retire \/ Wipe \/ Send \/ runOnce \/ Drop \/ Heartbeat \/ UNCHANGED cvars
    BY <2>1, <2>2, HeadLink, Zenon
  <2>3. CASE Frame1
    BY <2>1, <2>3, HeadFrame, Zenon
  <2>4. CASE MirrorStep /\ UNCHANGED linkVars
    BY <2>1, <2>4, HeadMirror, Zenon
  <2>5. CASE Broken \/ Crash
    <3>1. (MirrorKill \/ MirrorPowerCut) /\ Hangup
      BY <2>1, <2>5, NeverBroken, Zenon DEF Broken, Crash
    <3> QED BY <2>1, <3>1, HeadCrash, Zenon
  <2> QED BY <2>2, <2>3, <2>4, <2>5, Zenon DEF CollectorNext
<1>3. CInv /\ HInv => HeaderTrue
  <2> SUFFICES ASSUME CInv, HInv, NEW s \in Sessions, NEW i \in 1..Len(files[s])
               PROVE  s \in created /\ header[s] = files[s][i][1]
    BY Zenon DEF HeaderTrue
  <2>1. Sound
    BY InvParts, Zenon
  <2>2. files[s] # <<>> /\ files[s][i] \in Packets
    BY <2>1, FileFacts DEF Sound, MirrorSound
  <2>3. files[s][i][1] = 1
    BY <2>2, PacketFields, OneEpoch, Zenon
  <2>4. s \in created
    BY <2>2, Zenon DEF CInv, Sealed
  <2> QED BY <2>2, <2>3, <2>4, Zenon DEF HInv, Declared
<1>4. CollectorSpec => []CInv
  BY InvHolds, Zenon
<1> QED BY <1>1, <1>2, <1>3, <1>4, PTL DEF CollectorSpec

-----------------------------------------------------------------------------
(* Every step is one of the relay's, or a stutter.                         *)

LEMMA RInvInit == CollectorInit => RInv
<1> SUFFICES ASSUME CollectorInit PROVE RInv
  BY Zenon
<1>1. /\ files = [s \in Sessions |-> <<>>] /\ fsynced = [s \in Sessions |-> 0] /\ resume = ZeroState
      /\ kept = ZeroState /\ mpc = "down"
  BY Zenon DEF CollectorInit, MirrorInit
<1>2. ASSUME NEW s \in Sessions PROVE fsynced[s] = Len(files[s])
  <2>1. files[s] = <<>> /\ fsynced[s] = 0
    BY <1>1, Zenon
  <2> QED BY <2>1
<1> QED BY <1>1, <1>2, Zenon DEF RInv

LEMMA RInvStep ==
  ASSUME CallsSucceed PROVE CInv /\ CInv' /\ RInv /\ [CollectorNext]_cvars => RInv'
<1> SUFFICES ASSUME CInv, CInv', RInv, [CollectorNext]_cvars PROVE RInv'
  BY Zenon
<1>1. Sound /\ Durable /\ Process /\ Link /\ Sound' /\ Durable' /\ Process'
  BY InvParts, InvPartsNext, Zenon
<1>2. CASE Capture \/ Retire \/ Wipe \/ Send \/ Heartbeat \/ UNCHANGED cvars
  <2>1. UNCHANGED <<files, fsynced, resume, kept, mpc, st>>
    BY <1>2, Zenon DEF Capture, Retire, Wipe, Send, Heartbeat, cvars, mirrorVars, disk, memory
  <2>2. AgentGrows
    <3>1. Capture \/ Retire \/ Wipe \/ UNCHANGED agentVars
      BY <1>2, Zenon DEF Send, Heartbeat, cvars
    <3> QED BY <1>1, <3>1, AgentStep, AgentSame, Zenon DEF Sound
  <2> QED BY <1>1, <2>1, <2>2, RKept, Zenon
<1>3. CASE runOnce \/ Drop
  <2>1. UNCHANGED disk /\ mpc \in {"idle", "reading"} /\ mpc' \in {"idle", "reading"}
    BY <1>3, Zenon DEF runOnce, Drop
  <2> QED BY <2>1, RTurns, Zenon DEF disk
<1>4. CASE Frame1
  BY <1>1, <1>4, RFrame, Zenon
<1>5. CASE MirrorStep /\ UNCHANGED <<agentVars, linkVars>>
  BY <1>1, <1>5, RMirror, Zenon
<1>6. CASE Broken \/ Crash
  BY <1>1, <1>6, NeverBroken, RCrash, Zenon DEF Broken, Crash
<1> QED BY <1>2, <1>3, <1>4, <1>5, <1>6, Zenon DEF CollectorNext

\* The collector implements the relay: whatever the connections, the retention, the wipes
\* and the crashes do, a step of it delivers the next packets once, skips what was reaped,
\* turns to a newer spool instance at its edge or at the position it had, or changes
\* nothing the relay promises about, when every preamble names its instance.
THEOREM IsRelayHolds ==
  CallsSucceed /\ ~({"kill", "power"} \subseteq Faults) => (CollectorSpec => IsRelay)
<1> SUFFICES ASSUME CallsSucceed, ~({"kill", "power"} \subseteq Faults)
             PROVE  CollectorSpec => IsRelay
  BY Zenon
<1>1. CollectorInit => R!RelayInit
  <2> SUFFICES ASSUME CollectorInit PROVE R!RelayInit
    BY Zenon
  <2>1. /\ files = [s \in Sessions |-> <<>>] /\ fsynced = [s \in Sessions |-> 0] /\ resume = ZeroState
        /\ kept = ZeroState /\ mpc = "down" /\ aEpoch = 1
        /\ aHead = [e \in EpochIds |-> 0] /\ aOldest = [e \in EpochIds |-> 0]
    BY Zenon DEF CollectorInit, MirrorInit
  <2>2. \A s \in Sessions : CommittedIn(s) = {}
    <3> SUFFICES ASSUME NEW s \in Sessions PROVE CommittedIn(s) = {}
      BY Zenon
    <3>1. s \in Nat /\ ~(s < 0) /\ fsynced[s] = 0
      BY <2>1, ConstFacts
    <3> QED BY <2>1, <3>1 DEF CommittedIn, ZeroState
  <2>3. Log = {}
    BY <2>2, Zenon DEF Log
  <2> QED BY <2>1, <2>3, Zenon DEF R!RelayInit, Log, ZeroState, EpochIds
<1>2. CInv /\ CInv' /\ RInv /\ [CollectorNext]_cvars => [R!RelayNext]_(R!relayVars)
  <2> SUFFICES ASSUME CInv, CInv', RInv, [CollectorNext]_cvars
               PROVE  R!RelayNext \/ UNCHANGED R!relayVars
    BY Zenon
  <2>1. Sound /\ Durable /\ Process /\ Link /\ Sound' /\ Durable' /\ Process'
    BY InvParts, InvPartsNext, Zenon
  <2>2. CASE Capture \/ Retire \/ Wipe
    <3>1. UNCHANGED <<files, fsynced, resume, kept, mpc, st>>
      BY <2>2, Zenon DEF Capture, Retire, Wipe, mirrorVars, disk, memory
    <3> QED BY <2>1, <2>2, <3>1, AgentRelays, Zenon DEF R!RelayNext
  <2>3. CASE Send \/ runOnce \/ Drop \/ Heartbeat \/ UNCHANGED cvars
    <3>1. UNCHANGED <<files, fsynced, resume, kept, agentVars>>
      BY <2>3, Zenon DEF Send, runOnce, Drop, Heartbeat, cvars, mirrorVars, disk
    <3> QED BY <2>1, <3>1, LogSame, Stutters, Zenon
  <2>4. CASE Frame1
    <3>1. UNCHANGED <<files, fsynced, resume, kept, agentVars>>
      <4>1. UNCHANGED agentVars
        BY <2>4, Zenon DEF Frame1, reconcileEpoch, commit, handleGap, Receive
      <4> QED BY <2>1, <2>4, <4>1, FrameDisk, Zenon
    <3> QED BY <2>1, <3>1, LogSame, Stutters, Zenon
  <2>5. CASE MirrorStep /\ UNCHANGED agentVars
    BY <2>1, <2>5, MirrorRelays, Zenon
  <2>6. CASE (Broken \/ Crash) /\ UNCHANGED agentVars
    <3>1. MirrorKill \/ MirrorPowerCut
      BY <2>1, <2>6, NeverBroken, Zenon DEF Broken, Crash
    <3> QED BY <2>1, <2>6, <3>1, CrashRelays, Zenon
  <2> QED BY <2>2, <2>3, <2>4, <2>5, <2>6, Zenon DEF CollectorNext
<1>3. CollectorSpec => []CInv
  BY InvHolds, Zenon
<1>4. CInv /\ CInv' /\ RInv /\ [CollectorNext]_cvars => RInv'
  BY RInvStep, Zenon
<1> QED BY <1>1, <1>2, <1>3, <1>4, RInvInit, PTL DEF CollectorSpec, IsRelay, R!RelaySpec

-----------------------------------------------------------------------------
(* The fan-out.  A client reads one file from its cursor on, and only what *)
(* the durable resume.json says is committed: the whole of a session that  *)
(* has a durable successor, the committed part of the last.                *)

Good(s) ==
  IF s < kept.session THEN Len(files[s])
  ELSE IF s = kept.session THEN kept.committed - kept.start ELSE 0

\* While a client is connected: a session that the published one has replaced is over
\* for good; and a length that bounds the client's reads is not beyond what is good, or
\* not beyond the cursor if that is an offset of the same file.  What was sent are good
\* records of the file and, after a torn Snapshot, junk; else the records before the
\* cursor.
Serving == {"poll", "limit", "read"}
Bounds(n) == n <= Good(file) \/ (~torn /\ n <= cursor)
InOrder ==
  /\ sent # <<>> => Len(sent) <= cursor /\ cursor <= Good(file)
  /\ \A i \in 1..Len(sent) : sent[i] = files[file][cursor - Len(sent) + i]
Given(r) == r # Junk => \E k \in 1..Good(file) : r = files[file][k]
AllGiven == \A i \in 1..Len(sent) : Given(sent[i])

ClientTyped ==
  /\ file \in Sessions /\ cursor \in Nat /\ limit \in Nat /\ torn \in BOOLEAN
  /\ sent \in Seq(Packets \cup {Junk})
ClientInv ==
  /\ ClientTyped
  /\ fpc # "off" => mpc # "down"
  /\ fpc \in Serving \cup {"cursor"} =>
       file <= pub.session /\ (file < pub.session => file < kept.session)
  /\ fpc \in Serving /\ file = lenOf => Bounds(pub.len)
  /\ fpc = "read" => Bounds(limit)
  /\ sent # <<>> => fpc \in Serving
  /\ AllGiven
  /\ ~torn => InOrder

\* The published length is that of the published session's file, but between the two
\* stores of publish.
LenInv == mpc # "down" /\ lenOf # pub.session => mpc = "publishLen"

\* The published session is not ahead of resume.json.
Order == mpc # "down" => pub.session <= resume.session

LEMMA PubFields ==
  ASSUME Sound PROVE pub.session \in Sessions /\ pub.session \in Nat /\ pub.len \in Nat
<1>1. pub.session \in Sessions /\ pub.len \in Nat
  BY Zenon DEF Sound, MirrorSound, MirrorTyped, Pubs
<1> QED BY <1>1, ConstFacts, Zenon

\* While the collector stays up, only persistState moves the resume points, and only
\* publish moves what a client sees.
LEMMA UpStep ==
  ASSUME CallsSucceed, CInv, [CollectorNext]_cvars, mpc # "down", mpc' # "down"
  PROVE  /\ ~MirrorPowerCut
         /\ \/ UNCHANGED <<kept, resume>>
            \/ UNCHANGED files /\ kept' = st /\ resume' = st /\ mpc \in {"persist", "adopt"}
         /\ pub' = pub \/ PublishSession \/ PublishLen
<1>1. Sound /\ Durable /\ Process /\ Link
  BY InvParts, Zenon
<1>2. ~MirrorPowerCut /\ ~MirrorKill
  BY Zenon DEF MirrorPowerCut, MirrorKill, Forget
<1>3. CASE Capture \/ Retire \/ Wipe \/ Send \/ runOnce \/ Drop \/ Heartbeat \/ UNCHANGED cvars
  BY <1>2, <1>3, Zenon
  DEF Capture, Retire, Wipe, Send, runOnce, Drop, Heartbeat, cvars, mirrorVars, disk, memory
<1>4. CASE Frame1
  BY <1>2, <1>4, Zenon
  DEF Frame1, reconcileEpoch, SetHeader, AdoptEpoch, StartSession, commit, handleGap, mirrorVars, disk, memory
<1>5. CASE MirrorStep
  BY <1>2, <1>5, Zenon
  DEF MirrorStep, MirrorWrite, MirrorSync, persistState, PublishSession, PublishLen, NewSessionFile,
      OpenMirror, memory, disk
<1>6. ~(Broken \/ Crash)
  BY <1>1, <1>2, NeverBroken, Zenon DEF Broken, Crash
<1> QED BY <1>3, <1>4, <1>5, <1>6, Zenon DEF CollectorNext

\* OpenMirror publishes the resume.json it finds.
LEMMA OrderStep ==
  ASSUME CallsSucceed PROVE CInv /\ CInv' /\ Order /\ [CollectorNext]_cvars => Order'
<1> SUFFICES ASSUME CInv, CInv', Order, [CollectorNext]_cvars, mpc' # "down"
             PROVE  pub'.session <= resume'.session
  BY Zenon DEF Order
<1>1. Sound /\ Durable /\ Process /\ Link /\ Sound' /\ Process'
  BY InvParts, InvPartsNext, Zenon
<1>2. /\ pub \in Pubs /\ resume \in States /\ st \in States /\ fileLen \in Nat /\ resume' \in States
      /\ pub.session \in Nat /\ resume.session \in Nat /\ st.session \in Nat /\ resume'.session \in Nat
  BY <1>1, PubFields, StateFields, Zenon DEF Sound, MirrorSound, MirrorTyped
<1>3. CASE mpc = "down"
  <2>1. mpc' = "idle" \/ UNCHANGED mpc
    BY <1>1, <1>3, NeverBroken, Zenon
    DEF CollectorNext, Capture, Retire, Wipe, Send, runOnce, Drop, Heartbeat, cvars, mirrorVars, memory,
        Frame1, reconcileEpoch, commit, handleGap, Receive, MirrorStep, MirrorWrite, MirrorSync,
        persistState, PublishSession, PublishLen, NewSessionFile, OpenMirror, Broken, Crash,
        MirrorKill, MirrorPowerCut, Forget
  <2>2. pub' = [committed |-> st'.committed, session |-> st'.session, len |-> fileLen'] /\ st' = resume'
    BY <1>1, <1>3, <2>1, Zenon DEF Process, Published
  <2> QED BY <1>2, <2>2, SMTT(20)
<1>4. CASE mpc # "down"
  <2>1. pub.session <= resume.session
    BY <1>4, Zenon DEF Order
  <2>2. resume.session <= resume'.session
    <3>1. CASE resume' = resume
      BY <1>2, <3>1, SMTT(20)
    <3>2. CASE resume' = st
      BY <1>1, <1>4, <3>2, Zenon DEF Process, Later
    <3> QED BY <1>4, <3>1, <3>2, UpStep, Zenon
  <2>3. CASE pub' = pub
    BY <1>2, <2>1, <2>2, <2>3
  <2>4. CASE PublishSession
    <3>1. pub'.session = st.session /\ st = resume
      BY <1>1, <1>2, <2>4, PubExcept, Zenon DEF PublishSession, Process
    <3> QED BY <1>2, <2>2, <3>1, SMTT(20)
  <2>5. CASE PublishLen
    <3>1. pub'.session = pub.session
      BY <1>2, <2>5, PubLenExcept, Zenon DEF PublishLen
    <3> QED BY <1>2, <2>1, <2>2, <3>1, SMTT(20)
  <2> QED BY <1>4, <2>3, <2>4, <2>5, UpStep, Zenon
<1> QED BY <1>3, <1>4, Zenon

\* What becomes of the length's session in a step of the collector.
LenStored == lenOf' = IF mpc' # mpc /\ mpc \in {"publishLen", "down"} THEN mfile' ELSE lenOf

LEMMA LenStep ==
  ASSUME CallsSucceed, CInv, CInv', LenInv, [CollectorNext]_cvars, mpc' # "down", LenStored
  PROVE  /\ LenInv'
         /\ mpc # "down" =>
              \/ PublishLen /\ lenOf' = pub.session
              \/ lenOf' = lenOf /\ pub'.len = pub.len
<1>1. Sound /\ Durable /\ Process /\ Link /\ Sound' /\ Process'
  BY InvParts, InvPartsNext, Zenon
<1>2. /\ pub \in Pubs /\ st \in States /\ fileLen \in Nat
  BY <1>1, Zenon DEF Sound, MirrorSound, MirrorTyped
<1>3. CASE mpc = "down"
  <2>1. mpc' = "idle"
    BY <1>1, <1>3, NeverBroken, Zenon
    DEF CollectorNext, Capture, Retire, Wipe, Send, runOnce, Drop, Heartbeat, cvars, mirrorVars, memory,
        Frame1, reconcileEpoch, commit, handleGap, Receive, MirrorStep, MirrorWrite, MirrorSync,
        persistState, PublishSession, PublishLen, NewSessionFile, OpenMirror, Broken, Crash,
        MirrorKill, MirrorPowerCut, Forget
  <2>2. mfile' = st'.session /\ pub' = [committed |-> st'.committed, session |-> st'.session, len |-> fileLen']
    BY <1>1, <2>1, SMTT(20) DEF Process, Opened, Published
  <2>3. lenOf' = mfile'
    BY <1>3, <2>1 DEF LenStored
  <2> QED BY <1>3, <2>2, <2>3, Zenon DEF LenInv
<1>4. CASE mpc = "publishLen" /\ mpc' # mpc
  <2>1. PublishLen
    BY <1>1, <1>4, NeverBroken, Zenon
    DEF CollectorNext, Capture, Retire, Wipe, Send, runOnce, Drop, Heartbeat, cvars, mirrorVars, memory,
        Frame1, reconcileEpoch, commit, handleGap, Receive, MirrorStep, MirrorWrite, MirrorSync,
        persistState, PublishSession, NewSessionFile, OpenMirror, Broken, Crash,
        MirrorKill, MirrorPowerCut, Forget
  <2>2. mfile' = mfile /\ mfile = st.session /\ pub.session = st.session
    BY <1>1, <1>4, <2>1, SMTT(20) DEF PublishLen, Process, Opened
  <2>3. pub'.session = pub.session
    BY <1>2, <2>1, PubLenExcept, Zenon DEF PublishLen
  <2>4. lenOf' = mfile'
    BY <1>4, Zenon DEF LenStored
  <2> QED BY <2>1, <2>2, <2>3, <2>4, Zenon DEF LenInv
<1>5. CASE mpc # "down" /\ ~(mpc = "publishLen" /\ mpc' # mpc)
  <2>1. lenOf' = lenOf /\ ~PublishLen
    BY <1>5 DEF LenStored, PublishLen
  <2>2. CASE pub' = pub
    BY <1>5, <2>1, <2>2, Zenon DEF LenInv
  <2>3. CASE PublishSession
    <3>1. mpc' = "publishLen" /\ pub'.len = pub.len
      BY <1>2, <2>3, PubExcept, Zenon DEF PublishSession
    <3> QED BY <2>1, <3>1, Zenon DEF LenInv
  <2> QED BY <1>5, <2>1, <2>2, <2>3, UpStep, Zenon
<1> QED BY <1>3, <1>4, <1>5, Zenon

\* What is good stays good, and in its place.
LEMMA GoodNat ==
  ASSUME Sound, NEW s \in Sessions PROVE Good(s) \in Nat
<1>1. kept.session \in Nat /\ kept.committed \in Nat /\ kept.start \in Nat /\ kept.start <= kept.committed
  BY StateFields, Zenon DEF Sound, MirrorSound, MirrorTyped
<1>2. Len(files[s]) \in Nat
  BY FileFacts, Zenon DEF Sound, MirrorSound
<1>3. kept.committed - kept.start \in Nat
  BY <1>1
<1> QED BY <1>2, <1>3, Zenon DEF Good

LEMMA GoodNatNext ==
  ASSUME Sound', NEW s \in Sessions PROVE Good(s)' \in Nat
<1>1. kept'.session \in Nat /\ kept'.committed \in Nat /\ kept'.start \in Nat /\ kept'.start <= kept'.committed
  BY StateFields, Zenon DEF Sound, MirrorSound, MirrorTyped
<1>2. Len(files'[s]) \in Nat
  BY SeqLen, Zenon DEF Sound, MirrorSound, MirrorTyped
<1>3. kept'.committed - kept'.start \in Nat
  BY <1>1
<1> QED BY <1>2, <1>3, Zenon DEF Good

LEMMA GoodStays ==
  ASSUME CallsSucceed, CInv, CInv', [CollectorNext]_cvars, mpc # "down", mpc' # "down",
         NEW s \in Sessions
  PROVE  /\ kept.session <= kept'.session
         /\ Good(s) <= Good(s)'
         /\ \A i \in 1..Good(s) : files'[s][i] = files[s][i]
<1>1. Sound /\ Durable /\ Process /\ Link /\ Sound' /\ Durable' /\ s \in Nat
  BY InvParts, InvPartsNext, ConstFacts, Zenon
<1>2. /\ kept \in States /\ kept.session \in Nat /\ kept.committed \in Nat /\ kept.start \in Nat
      /\ kept.start <= kept.committed
  BY <1>1, StateFields, Zenon DEF Sound, MirrorSound, MirrorTyped
<1>3. /\ kept' \in States /\ kept'.session \in Nat /\ kept'.committed \in Nat /\ kept'.start \in Nat
      /\ kept'.start <= kept'.committed
  BY <1>1, StateFields, Zenon DEF Sound, MirrorSound, MirrorTyped
<1>4. Later(kept, kept')
  BY <1>2, KeptStep, LaterSelf, Zenon
<1>5. kept.session <= kept'.session
  BY <1>4, Zenon DEF Later
<1>6. Good(s) \in Nat /\ Good(s)' \in Nat
  BY <1>1, GoodNat, GoodNatNext, Zenon
<1>7. CASE s < kept.session
  <2>1. files'[s] = files[s]
    BY <1>1, <1>7, Touched, UpStep, Zenon DEF Sound
  <2>2. s < kept'.session
    BY <1>1, <1>2, <1>3, <1>5, <1>7, SMTT(20)
  <2>3. Good(s)' = Good(s)
    BY <1>7, <2>1, <2>2, Zenon DEF Good
  <2> QED BY <1>5, <1>6, <2>1, <2>3
<1>8. CASE s = kept.session
  <2>1. Good(s) = kept.committed - kept.start
    BY <1>2, <1>8, SMTT(20) DEF Good
  <2>2. /\ kept.committed - kept.start <= fsynced[s] /\ (kept.epoch = 0 => kept = ZeroState)
        /\ \A i \in 1..(kept.committed - kept.start) : files[s][i] = <<kept.epoch, kept.start + i - 1>>
    BY <1>1, <1>8, Zenon DEF Durable, Point, Backed, Sane
  <2>3. CASE kept'.session = s
    <3>1. Good(s)' = kept'.committed - kept'.start
      BY <1>1, <2>3 DEF Good
    <3>2. \A i \in 1..(kept'.committed - kept'.start) :
            files'[s][i] = <<kept'.epoch, kept'.start + i - 1>>
      BY <1>1, <2>3, Zenon DEF Durable, Point, Backed
    <3>3. kept'.start = kept.start /\ kept.committed <= kept'.committed /\ kept.epoch \in {0, kept'.epoch}
      BY <1>4, <1>8, <2>3, Zenon DEF Later
    <3>4. Good(s) <= Good(s)'
      BY <1>2, <1>3, <2>1, <3>1, <3>3, SMTT(20)
    <3>5. CASE kept.epoch = 0
      <4>1. Good(s) = 0
        BY <2>1, <2>2, <3>5 DEF ZeroState
      <4> QED BY <1>5, <3>4, <4>1
    <3>6. CASE kept.epoch = kept'.epoch
      <4>1. ASSUME NEW i \in 1..Good(s) PROVE files'[s][i] = files[s][i]
        <5>1. i \in 1..(kept.committed - kept.start) /\ i \in 1..(kept'.committed - kept'.start)
          BY <1>6, <2>1, <3>1, <3>4, <4>1, SMTT(20)
        <5> QED BY <2>2, <3>2, <3>3, <3>6, <5>1, Zenon
      <4> QED BY <1>5, <3>4, <4>1, Zenon
    <3> QED BY <3>3, <3>5, <3>6, Zenon
  <2>4. CASE kept'.session # s
    <3>1. files' = files
      BY <1>8, <2>4, UpStep, Zenon
    <3>2. s < kept'.session
      BY <1>2, <1>3, <1>5, <1>8, <2>4
    <3>3. Good(s)' = Len(files[s])
      BY <3>1, <3>2, Zenon DEF Good
    <3>4. fsynced[s] \in Nat /\ Len(files[s]) \in Nat /\ fsynced[s] <= Len(files[s])
      BY <1>1, FileFacts, Zenon DEF Sound, MirrorSound, Sealed
    <3> QED BY <1>5, <1>6, <2>1, <2>2, <3>1, <3>3, <3>4, SMTT(20)
  <2> QED BY <2>3, <2>4, Zenon
<1>9. CASE kept.session < s
  <2>1. Good(s) = 0
    BY <1>1, <1>2, <1>9 DEF Good
  <2> QED BY <1>5, <1>6, <2>1, SMTT(20)
<1> QED BY <1>1, <1>2, <1>7, <1>8, <1>9, SMTT(20)

\* What is good of a file is in it.
LEMMA GoodLen ==
  ASSUME Sound, Durable, NEW s \in Sessions
  PROVE  Good(s) \in Nat /\ Len(files[s]) \in Nat /\ Good(s) <= Len(files[s])
<1>1. /\ Good(s) \in Nat /\ Len(files[s]) \in Nat /\ fsynced[s] \in Nat /\ fsynced[s] <= Len(files[s])
  BY GoodNat, FileFacts, Zenon DEF Sound, MirrorSound, Sealed
<1>2. s = kept.session => kept.committed - kept.start <= fsynced[s]
  BY Zenon DEF Durable, Point, Backed
<1>3. kept.committed \in Nat /\ kept.start \in Nat
  BY StateFields, Zenon DEF Sound, MirrorSound, MirrorTyped
<1> QED BY <1>1, <1>2, <1>3 DEF Good

LEMMA ClientGone ==
  ASSUME Gone PROVE ClientInv'
<1>1. /\ fpc' = "off" /\ file' = 0 /\ cursor' = 0 /\ limit' = 0 /\ sent' = <<>> /\ torn' = FALSE
      /\ 0 \in Sessions /\ 0 \in Nat /\ <<>> \in Seq(Packets \cup {Junk})
      /\ FALSE \in BOOLEAN /\ \A i \in 1..Len(<<>>) : FALSE
  BY ConstFacts DEF Gone
<1>2. fpc' \notin Serving \cup {"cursor"} /\ fpc' # "read"
  BY <1>1 DEF Serving
<1> QED BY <1>1, <1>2, Zenon DEF ClientInv, ClientTyped, AllGiven, InOrder

\* The collector goes on: the client's file keeps what is good of it.
LEMMA ClientKept ==
  ASSUME CallsSucceed, CInv, CInv', Order, LenInv, ClientInv, [CollectorNext]_cvars, mpc' # "down",
         LenStored, UNCHANGED clientVars
  PROVE  ClientInv'
<1>1. UNCHANGED <<fpc, file, cursor, limit, torn, sent>>
  BY Zenon DEF clientVars
<1>2. /\ file \in Sessions /\ cursor \in Nat /\ limit \in Nat /\ ClientTyped /\ ClientTyped'
      /\ Len(sent) \in Nat /\ (sent = <<>> => Len(sent) = 0)
  <2>1. ClientTyped /\ ClientTyped'
    BY <1>1, Zenon DEF ClientInv, ClientTyped
  <2> QED BY <2>1 DEF ClientTyped
<1> PICK f \in Sessions : f = file
  BY <1>2, Zenon
<1>3. CASE fpc = "off"
  <2>1. fpc \notin Serving \cup {"cursor"} /\ fpc # "read"
    BY <1>3 DEF Serving
  <2>2. sent = <<>>
    BY <2>1, Zenon DEF ClientInv
  <2>3. \A i \in 1..Len(sent) : FALSE
    BY <2>2
  <2> QED BY <1>1, <1>2, <1>3, <2>1, <2>2, <2>3, Zenon DEF ClientInv, AllGiven, InOrder
<1>4. CASE fpc # "off"
  <2>1. mpc # "down"
    BY <1>4, Zenon DEF ClientInv
  <2>2. Sound /\ Process /\ Sound'
    BY InvParts, InvPartsNext, Zenon
  <2>3. /\ kept.session <= kept'.session /\ Good(f) <= Good(f)'
        /\ \A i \in 1..Good(f) : files'[f][i] = files[f][i]
    BY <2>1, GoodStays, Zenon
  <2>4. /\ Good(f) \in Nat /\ Good(f)' \in Nat /\ file \in Nat /\ kept.session \in Nat
        /\ kept'.session \in Nat /\ pub.session \in Nat /\ pub.len \in Nat /\ pub'.len \in Nat
    BY <2>2, GoodNat, GoodNatNext, PubFields, StateFields, ConstFacts, Zenon
    DEF Sound, MirrorSound, MirrorTyped, Pubs
  <2>5. Good(file)' = Good(f)' /\ Good(file) = Good(f)
    BY <1>1, Zenon DEF Good
  <2>6. /\ pub.session <= pub'.session /\ pub'.session \in Nat
        /\ pub'.session # pub.session => pub'.session = kept.session
        /\ PublishLen => pub.session = kept.session /\ pub'.len = kept.committed - kept.start
    <3>1. CASE pub' = pub /\ ~PublishLen
      BY <2>4, <3>1
    <3>2. CASE PublishSession
      <4>0. pub \in Pubs /\ st \in States /\ mpc = "publish"
        BY <2>2, <3>2, Zenon DEF PublishSession, Sound, MirrorSound, MirrorTyped
      <4>1. pub'.session = st.session /\ st = resume /\ st = kept
        BY <2>2, <3>2, <4>0, PubExcept, Zenon DEF PublishSession, Process
      <4>2. pub.session <= resume.session
        BY <2>1, Zenon DEF Order
      <4>3. ~PublishLen
        BY <4>0 DEF PublishLen
      <4> QED BY <2>4, <4>1, <4>2, <4>3
    <3>3. CASE PublishLen
      <4>1. /\ pub'.session = pub.session /\ pub'.len = fileLen /\ pub.session = st.session /\ st = kept
            /\ mpc \notin {"down", "open"}
        <5>1. pub \in Pubs /\ fileLen \in Nat /\ mpc = "publishLen"
          BY <2>2, <3>3, Zenon DEF PublishLen, Sound, MirrorSound, MirrorTyped
        <5>2. pub'.session = pub.session /\ pub'.len = fileLen
          BY <3>3, <5>1, PubLenExcept, Zenon DEF PublishLen
        <5>3. pub.session = st.session /\ st = kept /\ mpc \notin {"down", "open"}
          BY <2>2, <5>1, SMTT(20) DEF Process
        <5> QED BY <5>2, <5>3, Zenon
      <4>2. fileLen = st.committed - st.start
        BY <2>2, <4>1, Zenon DEF Process, Opened
      <4> QED BY <2>4, <4>1, <4>2
    <3> QED BY <2>1, <3>1, <3>2, <3>3, UpStep, Zenon
  <2>7. fpc \in Serving \cup {"cursor"} =>
          file <= pub'.session /\ (file < pub'.session => file < kept'.session)
    <3> SUFFICES ASSUME fpc \in Serving \cup {"cursor"}
                 PROVE  file <= pub'.session /\ (file < pub'.session => file < kept'.session)
      BY Zenon
    <3>1. file <= pub.session /\ (file < pub.session => file < kept.session)
      BY Zenon DEF ClientInv
    <3> QED BY <2>3, <2>4, <2>6, <3>1
  <2>8. ASSUME NEW n \in Nat, n <= Good(f) \/ (~torn /\ n <= cursor)
        PROVE  n <= Good(f)' \/ (~torn /\ n <= cursor)
    BY <2>3, <2>4, <2>8
  <2>9. fpc \in Serving /\ file = lenOf' => pub'.len <= Good(f)' \/ (~torn /\ pub'.len <= cursor)
    <3> SUFFICES ASSUME fpc \in Serving, file = lenOf'
                 PROVE  pub'.len <= Good(f)' \/ (~torn /\ pub'.len <= cursor)
      BY Zenon
    <3>1. CASE PublishLen /\ lenOf' = pub.session
      <4>1. f = kept.session /\ pub'.len = kept.committed - kept.start
        BY <2>6, <3>1, Zenon
      <4>2. pub'.len = Good(f)
        BY <2>4, <4>1 DEF Good
      <4> QED BY <2>3, <2>4, <4>2
    <3>2. CASE lenOf' = lenOf /\ pub'.len = pub.len
      <4>1. pub.len <= Good(f) \/ (~torn /\ pub.len <= cursor)
        BY <2>5, <3>2, Zenon DEF ClientInv, Bounds
      <4> QED BY <2>4, <2>8, <3>2, <4>1, Zenon
    <3> QED BY <2>1, <3>1, <3>2, LenStep, Zenon
  <2>10. fpc = "read" => limit <= Good(f)' \/ (~torn /\ limit <= cursor)
    <3>1. fpc = "read" => limit <= Good(f) \/ (~torn /\ limit <= cursor)
      BY <2>5, Zenon DEF ClientInv, Bounds
    <3> QED BY <1>2, <2>8, <3>1, Zenon
  <2>11. ASSUME NEW i \in 1..Len(sent) PROVE Given(sent[i])'
    <3>1. sent[i] # Junk => \E k \in 1..Good(f) : sent[i] = files[f][k]
      BY <2>5, Zenon DEF ClientInv, AllGiven, Given
    <3>2. \A k \in 1..Good(f) : k \in 1..Good(f)'
      BY <2>3, <2>4
    <3>3. sent[i] # Junk => \E k \in 1..Good(f)' : sent[i] = files'[f][k]
      BY <2>3, <3>1, <3>2, Zenon
    <3> QED BY <1>1, <2>5, <3>3, Zenon DEF Given
  <2>12. ASSUME ~torn PROVE InOrder'
    <3>1. /\ sent # <<>> => Len(sent) <= cursor /\ cursor <= Good(f)
          /\ \A i \in 1..Len(sent) : sent[i] = files[f][cursor - Len(sent) + i]
      BY <2>5, <2>12, Zenon DEF ClientInv, InOrder
    <3>2. sent # <<>> => Len(sent) <= cursor /\ cursor <= Good(f)'
      BY <1>2, <2>3, <2>4, <3>1
    <3>3. ASSUME NEW i \in 1..Len(sent) PROVE sent[i] = files'[f][cursor - Len(sent) + i]
      <4>1. Len(sent) # 0
        BY <1>2, <3>3
      <4>2. cursor - Len(sent) + i \in 1..Good(f)
        BY <1>2, <2>4, <3>1, <3>3, <4>1
      <4> QED BY <2>3, <3>1, <4>2, Zenon
    <3> QED BY <1>1, <2>5, <3>2, <3>3, Zenon DEF InOrder
  <2>13. fpc' # "off" => mpc' # "down"
    BY Zenon
  <2>14. sent # <<>> => fpc \in Serving
    BY Zenon DEF ClientInv
  <2>15. Bounds(pub.len)' <=> pub'.len <= Good(f)' \/ (~torn /\ pub'.len <= cursor)
    BY <1>1, <2>5, Zenon DEF Bounds
  <2>16. Bounds(limit)' <=> limit <= Good(f)' \/ (~torn /\ limit <= cursor)
    BY <1>1, <2>5, Zenon DEF Bounds
  <2> QED BY <1>1, <1>2, <2>7, <2>9, <2>10, <2>11, <2>12, <2>13, <2>14, <2>15, <2>16, Zenon
      DEF ClientInv, AllGiven
<1> QED BY <1>3, <1>4, Zenon

\* The length that a poll finds covers good records of the client's file, or ends below
\* its cursor.
LEMMA CoveredGood ==
  ASSUME CInv, LenInv, ClientInv, fpc = "limit", NEW n \in Covered
  PROVE  n \in Nat /\ Bounds(n)
<1>1. Sound /\ Durable /\ Process /\ file \in Sessions
  BY InvParts, Zenon DEF ClientInv, ClientTyped
<1>2. /\ pub.session \in Nat /\ pub.len \in Nat /\ file \in Nat
      /\ Good(file) \in Nat /\ Len(files[file]) \in Nat
  BY <1>1, PubFields, GoodLen, ConstFacts, Zenon
<1>3. /\ fpc \in Serving /\ mpc # "down" /\ file <= pub.session
      /\ file < pub.session => file < kept.session
  BY DEF Serving, ClientInv
<1>4. CASE lenOf = file
  BY <1>2, <1>3, <1>4, Zenon DEF Covered, ClientInv
<1>5. CASE lenOf # file
  <2>1. n \in 0..Len(files[file])
    BY <1>5, Zenon DEF Covered
  <2>2. Good(file) = Len(files[file])
    <3>1. CASE file < pub.session
      BY <1>3, <3>1, Zenon DEF Good
    <3>2. CASE file = pub.session
      <4>1. mpc = "publishLen"
        BY <1>3, <1>5, <3>2, Zenon DEF LenInv
      <4>2. /\ st = kept /\ pub.session = st.session /\ mfile = st.session
            /\ fileLen = st.committed - st.start /\ Len(files[mfile]) = fileLen
        BY <1>1, <4>1 DEF Process, Opened
      <4> QED BY <1>2, <3>2, <4>2 DEF Good
    <3> QED BY <1>2, <1>3, <3>1, <3>2
  <2> QED BY <1>2, <2>1, <2>2 DEF Bounds
<1> QED BY <1>4, <1>5, Zenon

\* The untorn client is sent the record at its cursor.
LEMMA ReadsOn ==
  ASSUME CInv, ClientInv, fpc = "read", ~torn, cursor < limit, cursor < Len(files[file]),
         sent' = Append(sent, files[file][cursor + 1]), cursor' = cursor + 1,
         UNCHANGED <<files, kept, file, limit, torn>>
  PROVE  ClientTyped' /\ InOrder' /\ AllGiven' /\ cursor <= cursor'
<1>1. /\ Sound /\ Durable /\ file \in Sessions /\ cursor \in Nat /\ limit \in Nat /\ torn \in BOOLEAN
      /\ sent \in Seq(Packets \cup {Junk}) /\ InOrder /\ Bounds(limit)
      /\ AllGiven
  BY InvParts, Zenon DEF ClientInv, ClientTyped
<1>2. /\ files[file] \in Seq(Packets) /\ Len(files[file]) \in Nat /\ Good(file) \in Nat
      /\ Good(file) <= Len(files[file])
  BY <1>1, FileFacts, GoodLen, Zenon DEF Sound, MirrorSound
<1>3. cursor + 1 \in 1..Len(files[file]) /\ cursor' \in Nat /\ cursor <= cursor'
  BY <1>1, <1>2
<1>4. files[file][cursor + 1] \in Packets \cup {Junk} /\ Len(sent) \in Nat
  BY <1>1, <1>2, <1>3, SeqLen, Zenon
<1>5. /\ sent' \in Seq(Packets \cup {Junk}) /\ Len(sent') = Len(sent) + 1
      /\ sent'[Len(sent) + 1] = files[file][cursor + 1] /\ \A i \in 1..Len(sent) : sent'[i] = sent[i]
  BY <1>1, <1>4, SeqAppend
<1>6. cursor' <= Good(file)
  BY <1>1, <1>2 DEF Bounds
<1>7. Len(sent) <= cursor
  <2>1. sent = <<>> => Len(sent) = 0
    OBVIOUS
  <2>2. sent # <<>> => Len(sent) <= cursor
    BY <1>1, Zenon DEF InOrder
  <2> QED BY <1>1, <2>1, <2>2
<1>8. Len(sent') <= cursor' /\ cursor' - Len(sent') = cursor - Len(sent)
  BY <1>1, <1>4, <1>5, <1>7, SMTT(20)
<1>9. ASSUME NEW i \in 1..Len(sent')
      PROVE  /\ sent'[i] = files[file][cursor - Len(sent) + i]
             /\ cursor - Len(sent) + i \in 1..Good(file)
  <2>1. cursor - Len(sent) + i \in 1..Good(file)
    BY <1>1, <1>2, <1>4, <1>5, <1>6, <1>7, <1>9, SMTT(20)
  <2>2. CASE i = Len(sent) + 1
    <3>1. cursor - Len(sent) + i = cursor + 1
      BY <1>1, <1>4, <2>2
    <3> QED BY <1>5, <2>1, <2>2, <3>1, Zenon
  <2>3. CASE i # Len(sent) + 1
    <3>1. i \in 1..Len(sent)
      BY <1>4, <1>5, <1>9, <2>3
    <3> QED BY <1>1, <1>5, <2>1, <3>1, Zenon DEF InOrder
  <2> QED BY <2>2, <2>3, Zenon
<1>10. Good(file)' = Good(file)
  BY Zenon DEF Good
<1>11. InOrder'
  BY <1>6, <1>8, <1>9, <1>10, Zenon DEF InOrder
<1>12. AllGiven'
  BY <1>9, <1>10, Zenon DEF AllGiven, Given
<1> QED BY <1>1, <1>3, <1>5, <1>11, <1>12, Zenon DEF ClientTyped

\* The client of a torn Snapshot is sent a good record of its file, or junk.
LEMMA ReadsTorn ==
  ASSUME CInv, ClientInv, fpc = "read", torn, NEW r \in {files[file][i] : i \in 1..limit} \cup {Junk},
         sent' = Append(sent, r), cursor' = cursor + 1, UNCHANGED <<files, kept, file, limit, torn>>
  PROVE  ClientTyped' /\ AllGiven'
<1>1. /\ Sound /\ Durable /\ file \in Sessions /\ cursor \in Nat /\ limit \in Nat /\ torn \in BOOLEAN
      /\ sent \in Seq(Packets \cup {Junk}) /\ Bounds(limit)
      /\ AllGiven
  BY InvParts, Zenon DEF ClientInv, ClientTyped
<1>2. /\ files[file] \in Seq(Packets) /\ Len(files[file]) \in Nat /\ Good(file) \in Nat
      /\ Good(file) <= Len(files[file]) /\ limit <= Good(file)
  BY <1>1, FileFacts, GoodLen, Zenon DEF Sound, MirrorSound, Bounds
<1>3. ASSUME NEW k \in 1..limit PROVE k \in 1..Good(file) /\ k \in 1..Len(files[file])
  BY <1>1, <1>2
<1>4. r = Junk \/ \E k \in 1..Good(file) : k \in 1..Len(files[file]) /\ r = files[file][k]
  BY <1>3, Zenon
<1>5. r \in Packets \cup {Junk} /\ Len(sent) \in Nat
  <2>1. \A k \in 1..Len(files[file]) : files[file][k] \in Packets
    BY <1>2, SeqLen, Zenon
  <2>2. Len(sent) \in Nat
    BY <1>1, SeqLen, Zenon
  <2> QED BY <1>4, <2>1, <2>2, Zenon
<1>6. /\ sent' \in Seq(Packets \cup {Junk}) /\ Len(sent') = Len(sent) + 1
      /\ sent'[Len(sent) + 1] = r /\ \A i \in 1..Len(sent) : sent'[i] = sent[i]
  BY <1>1, <1>5, SeqAppend
<1>7. ASSUME NEW i \in 1..Len(sent') PROVE i = Len(sent) + 1 \/ i \in 1..Len(sent)
  BY <1>5, <1>6
<1>8. ASSUME NEW i \in 1..Len(sent') PROVE Given(sent'[i])
  <2>1. Given(r)
    BY <1>4, Zenon DEF Given
  <2> QED BY <1>1, <1>6, <1>7, <2>1, Zenon DEF AllGiven
<1>9. Good(file)' = Good(file)
  BY Zenon DEF Good
<1>10. AllGiven'
  BY <1>8, <1>9, Zenon DEF AllGiven, Given
<1>11. cursor' \in Nat
  BY <1>1
<1> QED BY <1>1, <1>6, <1>10, <1>11, Zenon DEF ClientTyped

\* A step of the client itself.
LEMMA ClientMoves ==
  ASSUME CInv, LenInv, ClientInv, Accept \/ ClientStep \/ Leave PROVE ClientInv'
<1>1. Sound /\ Durable
  BY InvParts, Zenon
<1>2. /\ ClientTyped /\ file \in Sessions /\ cursor \in Nat /\ limit \in Nat /\ torn \in BOOLEAN
      /\ sent \in Seq(Packets \cup {Junk})
  BY Zenon DEF ClientInv, ClientTyped
<1>3. pub.session \in Sessions /\ pub.session \in Nat /\ pub.len \in Nat /\ Good(file) \in Nat /\ file \in Nat
  BY <1>1, <1>2, PubFields, GoodNat, ConstFacts, Zenon
<1>4. CASE Leave \/ (PollSession /\ Gone)
  BY <1>4, ClientGone, Zenon DEF Leave
<1> SUFFICES ASSUME UNCHANGED cvars, UNCHANGED <<files, kept, pub, mpc, lenOf>> PROVE ClientInv'
  BY <1>4, Zenon
  DEF Accept, ClientStep, LoadFile, LoadCursor, PollSession, PollLen, ReadRecordAt, cvars, mirrorVars, disk, memory
<1>5. \A s : Good(s)' = Good(s)
  BY Zenon DEF Good
<1>6. ASSUME fpc \notin Serving PROVE sent = <<>> /\ \A i \in 1..Len(sent) : FALSE
  <2>1. sent = <<>>
    BY <1>6, Zenon DEF ClientInv
  <2> QED BY <2>1
<1>7. CASE Accept
  <2>1. fpc' = "file" /\ fpc = "off" /\ mpc # "down" /\ UNCHANGED <<file, cursor, limit, torn, sent>>
    BY <1>7, Zenon DEF Accept
  <2>2. fpc \notin Serving /\ fpc' \notin Serving \cup {"cursor"} /\ fpc' # "read"
    BY <2>1 DEF Serving
  <2> QED BY <1>2, <1>6, <2>1, <2>2, Zenon DEF ClientInv, ClientTyped, AllGiven, InOrder
<1>8. CASE LoadFile
  <2>1. fpc' = "cursor" /\ fpc = "file" /\ file' = pub.session /\ UNCHANGED <<cursor, limit, torn, sent>>
    BY <1>8, Zenon DEF LoadFile
  <2>2. fpc \notin Serving /\ fpc' \notin Serving /\ fpc' # "read" /\ fpc # "off"
    BY <2>1 DEF Serving
  <2>3. file' <= pub'.session /\ ~(file' < pub'.session)
    BY <1>3, <2>1
  <2> QED BY <1>2, <1>3, <1>6, <2>1, <2>2, <2>3, Zenon DEF ClientInv, ClientTyped, AllGiven, InOrder
<1>9. CASE LoadCursor
  <2>1. /\ fpc' = "poll" /\ fpc = "cursor" /\ cursor' = pub.len /\ UNCHANGED <<file, limit, sent>>
        /\ torn' = (lenOf # file)
    BY <1>9, Zenon DEF LoadCursor
  <2>2. fpc \notin Serving /\ fpc' # "read" /\ fpc # "off" /\ fpc \in Serving \cup {"cursor"}
    BY <2>1 DEF Serving
  <2>3. pub'.len <= cursor' /\ cursor' \in Nat /\ torn' \in BOOLEAN
    BY <1>3, <2>1
  <2>4. file' = lenOf' => Bounds(pub.len)'
    BY <2>1, <2>3, Zenon DEF Bounds
  <2> QED BY <1>2, <1>6, <2>1, <2>2, <2>3, <2>4, Zenon DEF ClientInv, ClientTyped, AllGiven, InOrder
<1>10. ASSUME fpc \in Serving, fpc' \in Serving, UNCHANGED <<file, cursor, torn, sent>>, limit' \in Nat,
              fpc' = "read" => limit' <= Good(file) \/ (~torn /\ limit' <= cursor)
       PROVE  ClientInv'
  <2>1. fpc # "off"
    BY <1>10 DEF Serving
  <2>2. InOrder' <=> InOrder
    BY <1>5, <1>10, Zenon DEF InOrder
  <2>3. \A r : Given(r)' <=> Given(r)
    BY <1>5, <1>10, Zenon DEF Given
  <2>4. AllGiven'
    BY <1>10, <2>3, Zenon DEF ClientInv, AllGiven
  <2>5. /\ Bounds(pub.len)' <=> Bounds(pub.len)
        /\ Bounds(limit)' <=> limit' <= Good(file) \/ (~torn /\ limit' <= cursor)
    BY <1>5, <1>10, Zenon DEF Bounds
  <2>6. ClientTyped'
    BY <1>2, <1>10, Zenon DEF ClientTyped
  <2> QED BY <1>10, <2>1, <2>2, <2>4, <2>5, <2>6, Zenon DEF ClientInv
<1>11. CASE PollSession /\ ~Gone
  <2>1. fpc' = "limit" /\ fpc = "poll" /\ UNCHANGED <<file, cursor, limit, torn, sent>>
    BY <1>11, Zenon DEF PollSession
  <2>2. fpc \in Serving /\ fpc' \in Serving /\ fpc' # "read"
    BY <2>1 DEF Serving
  <2> QED BY <1>2, <1>10, <2>1, <2>2, Zenon
<1>12. CASE PollLen
  <2>1. fpc' = "read" /\ fpc = "limit" /\ limit' \in Covered /\ UNCHANGED <<file, cursor, torn, sent>>
    BY <1>12, Zenon DEF PollLen
  <2>2. fpc \in Serving /\ fpc' \in Serving
    BY <2>1 DEF Serving
  <2>3. PICK n \in Covered : n = limit'
    BY <2>1, Zenon
  <2>4. n \in Nat /\ (n <= Good(file) \/ (~torn /\ n <= cursor))
    BY <2>1, CoveredGood, Zenon DEF Bounds
  <2> QED BY <1>10, <2>1, <2>2, <2>3, <2>4, Zenon
<1>13. CASE ReadRecordAt
  <2>1. fpc = "read" /\ UNCHANGED <<file, limit, torn>>
    BY <1>13, Zenon DEF ReadRecordAt
  <2>2. fpc \in Serving /\ fpc # "off" /\ "poll" \in Serving /\ "poll" # "read"
    BY <2>1 DEF Serving
  <2>3. CASE fpc' = "poll" /\ UNCHANGED <<cursor, sent>>
    BY <1>2, <1>10, <2>1, <2>2, <2>3, Zenon
  <2>4. ASSUME ClientTyped', ~torn => InOrder', AllGiven',
               fpc' = fpc, cursor <= cursor' \/ torn
        PROVE  ClientInv'
    <3>1. ASSUME NEW n \in Nat, Bounds(n) PROVE n <= Good(file) \/ (~torn /\ n <= cursor')
      <4>1. cursor' \in Nat
        BY <2>4, Zenon DEF ClientTyped
      <4> QED BY <1>2, <2>4, <3>1, <4>1 DEF Bounds
    <3>2. /\ Bounds(pub.len)' <=> pub.len <= Good(file) \/ (~torn /\ pub.len <= cursor')
          /\ Bounds(limit)' <=> limit <= Good(file) \/ (~torn /\ limit <= cursor')
      BY <1>5, <2>1, Zenon DEF Bounds
    <3>3. (file = lenOf => Bounds(pub.len)') /\ Bounds(limit)'
      BY <1>2, <1>3, <2>1, <2>2, <3>1, <3>2, Zenon DEF ClientInv
    <3> QED BY <2>1, <2>2, <2>4, <3>3, Zenon DEF ClientInv
  <2>5. CASE /\ ~torn /\ cursor < limit /\ cursor < Len(files[file])
             /\ sent' = Append(sent, files[file][cursor + 1]) /\ cursor' = cursor + 1 /\ fpc' = fpc
    BY <2>1, <2>4, <2>5, ReadsOn, Zenon
  <2>6. CASE /\ torn /\ cursor' = cursor + 1 /\ fpc' = fpc
             /\ \E r \in {files[file][i] : i \in 1..limit} \cup {Junk} : sent' = Append(sent, r)
    BY <2>1, <2>4, <2>6, ReadsTorn, Zenon
  <2> QED BY <1>13, <2>3, <2>5, <2>6, Zenon DEF ReadRecordAt
<1> QED BY <1>4, <1>7, <1>8, <1>9, <1>11, <1>12, <1>13, Zenon DEF ClientStep

FanInv == CInv /\ RInv /\ Order /\ LenInv /\ ClientInv

LEMMA FanInvInit == FanOutInit => FanInv
<1> SUFFICES ASSUME FanOutInit PROVE FanInv
  BY Zenon
<1>1. CInv /\ RInv /\ mpc = "down"
  BY InvInit, RInvInit, Zenon DEF FanOutInit, CollectorInit, MirrorInit
<1>2. /\ fpc = "off" /\ file = 0 /\ cursor = 0 /\ limit = 0 /\ sent = <<>> /\ torn = FALSE
      /\ 0 \in Sessions /\ 0 \in Nat /\ <<>> \in Seq(Packets \cup {Junk})
      /\ FALSE \in BOOLEAN /\ \A i \in 1..Len(<<>>) : FALSE
  BY ConstFacts DEF FanOutInit
<1>3. fpc \notin Serving \cup {"cursor"} /\ fpc # "read"
  BY <1>2 DEF Serving
<1> QED BY <1>1, <1>2, <1>3, Zenon DEF FanInv, Order, LenInv, ClientInv, ClientTyped, AllGiven, InOrder

LEMMA FanInvStep ==
  ASSUME CallsSucceed PROVE FanInv /\ [FanOutNext]_fvars => FanInv'
<1> SUFFICES ASSUME FanInv, [FanOutNext]_fvars PROVE FanInv'
  BY Zenon
<1>1. CInv /\ RInv /\ Order /\ LenInv /\ ClientInv
  BY Zenon DEF FanInv
<1>2. [CollectorNext]_cvars
  BY Zenon
  DEF FanOutNext, fvars, Accept, ClientStep, LoadFile, LoadCursor, PollSession, PollLen, ReadRecordAt, Leave,
      CollectorStep
<1>3. CInv'
  BY <1>1, <1>2, InvStep, Zenon
<1>4. RInv' /\ Order'
  BY <1>1, <1>2, <1>3, RInvStep, OrderStep, Zenon
<1>5. CASE Accept \/ ClientStep \/ Leave
  <2>1. UNCHANGED cvars /\ lenOf' = lenOf
    BY <1>5, Zenon
    DEF Accept, ClientStep, LoadFile, LoadCursor, PollSession, PollLen, ReadRecordAt, Leave
  <2>2. LenInv'
    BY <1>1, <2>1, Zenon DEF LenInv, cvars, mirrorVars, memory
  <2> QED BY <1>1, <1>3, <1>4, <1>5, <2>2, ClientMoves, Zenon DEF FanInv
<1>6. CASE mpc' = "down" /\ Gone
  BY <1>3, <1>4, <1>6, ClientGone, Zenon DEF FanInv, LenInv
<1>7. CASE mpc' # "down" /\ UNCHANGED clientVars /\ LenStored
  BY <1>1, <1>2, <1>3, <1>4, <1>7, LenStep, ClientKept, Zenon DEF FanInv
<1>8. CASE UNCHANGED fvars
  <2>1. UNCHANGED <<clientVars, cvars, lenOf, mpc>>
    BY <1>8, Zenon DEF fvars, cvars, mirrorVars, memory
  <2>2. CASE mpc' = "down"
    <3>1. mpc = "down" /\ UNCHANGED <<fpc, file, cursor, limit, torn, sent>>
      BY <2>1, <2>2, Zenon DEF clientVars
    <3>2. fpc = "off" /\ fpc \notin Serving \cup {"cursor"} /\ fpc # "read"
      BY <1>1, <3>1 DEF ClientInv, Serving
    <3>3. sent = <<>>
      BY <1>1, <3>2, Zenon DEF ClientInv
    <3>4. \A i \in 1..Len(sent) : FALSE
      BY <3>3
    <3>5. ClientInv'
      BY <1>1, <3>1, <3>2, <3>3, <3>4, Zenon DEF ClientInv, ClientTyped, AllGiven, InOrder
    <3> QED BY <1>3, <1>4, <2>2, <3>5, Zenon DEF FanInv, LenInv
  <2>3. LenStored
    BY <2>1, Zenon DEF LenStored
  <2> QED BY <1>7, <2>1, <2>2, <2>3, Zenon
<1> QED BY <1>5, <1>6, <1>7, <1>8, Zenon DEF FanOutNext, CollectorStep, LenStored

LEMMA FanInvHolds == CallsSucceed => (FanOutSpec => []FanInv)
<1> SUFFICES ASSUME CallsSucceed PROVE FanOutSpec => []FanInv
  BY Zenon
<1>1. FanInv /\ [FanOutNext]_fvars => FanInv'
  BY FanInvStep, Zenon
<1> QED BY <1>1, FanInvInit, PTL DEF FanOutSpec

\* Where a good record of the client's file is in the run of the file.
LEMMA SentFrom ==
  ASSUME CInv, ClientInv, NEW k \in 1..Good(file)
  PROVE  k \in 1..Len(files[file]) /\ files[file][k] = <<First(file)[1], First(file)[2] + k - 1>>
<1>1. Sound /\ Durable /\ file \in Sessions
  BY InvParts, Zenon DEF ClientInv, ClientTyped
<1>2. Good(file) \in Nat /\ Good(file) <= Len(files[file]) /\ Len(files[file]) \in Nat
  BY <1>1, GoodLen, Zenon
<1>3. k \in 1..Len(files[file])
  BY <1>2
<1> QED BY <1>1, <1>3, Zenon DEF Durable, Runs

\* What one connection delivers to a PCAP-over-IP client whose first Snapshot was of one
\* session is a contiguous run of one spool instance, however later Snapshots' loads fall
\* between publish's stores, and across GAPs, wipes, reconnects and restarts of the
\* collector, when every preamble names its spool instance.
THEOREM ClientContiguousHolds == CallsSucceed => (FanOutSpec => []ClientContiguous)
<1>1. FanInv => ClientContiguous
  <2> SUFFICES ASSUME FanInv, ~torn, NEW i \in 1..Len(sent)
               PROVE  sent[i] = <<sent[1][1], sent[1][2] + i - 1>>
    BY Zenon DEF ClientContiguous
  <2>1. CInv /\ ClientInv /\ InOrder
    BY Zenon DEF FanInv, ClientInv
  <2>2. sent \in Seq(Packets \cup {Junk}) /\ cursor \in Nat /\ file \in Sessions
    BY <2>1, Zenon DEF ClientInv, ClientTyped
  <2>3. Len(sent) \in Nat /\ 1 \in 1..Len(sent) /\ sent # <<>>
    BY <2>2
  <2> DEFINE n == cursor - Len(sent)
             e == First(file)[1]
             g == First(file)[2]
  <2>4. sent[i] = <<e, g + (n + i) - 1>> /\ sent[1] = <<e, g + (n + 1) - 1>>
        /\ n + i \in 1..Len(files[file])
    <3>1. Len(sent) <= cursor /\ cursor <= Good(file) /\ Good(file) \in Nat
      BY <2>1, <2>2, <2>3, InvParts, GoodLen, Zenon DEF InOrder
    <3>2. n + i \in 1..Good(file) /\ n + 1 \in 1..Good(file)
      BY <2>2, <2>3, <3>1, SMTT(20)
    <3>3. sent[i] = files[file][n + i] /\ sent[1] = files[file][n + 1]
      BY <2>1, <2>3, Zenon DEF InOrder
    <3> QED BY <2>1, <3>2, <3>3, SentFrom, Zenon
  <2>5. g \in Nat
    <3>1. files[file] \in Seq(Packets) /\ Len(files[file]) \in Nat
      BY <2>1, <2>2, InvParts, FileFacts, Zenon DEF Sound, MirrorSound
    <3>2. 1 \in 1..Len(files[file])
      BY <2>4, <3>1
    <3>3. files[file][1] \in Packets
      BY <3>1, <3>2, SeqLen, Zenon
    <3> QED BY <3>3, ConstFacts DEF First, Packets
  <2>6. n \in Int
    BY <2>2, <2>3
  <2> HIDE DEF n, e, g
  <2>7. sent[1][1] = e /\ sent[1][2] = g + (n + 1) - 1
    BY <2>4
  <2>8. g + (n + i) - 1 = (g + (n + 1) - 1) + i - 1
    BY <2>5, <2>6, SMTT(20)
  <2> QED BY <2>4, <2>7, <2>8, Zenon
<1> QED BY <1>1, FanInvHolds, PTL

\* Every whole record that a client is given, after a torn Snapshot too, is synced and
\* below the durable commit point, so that no restart of the collector takes one back.
THEOREM ClientDurableHolds == CallsSucceed => (FanOutSpec => []ClientDurable)
<1>1. FanInv => ClientDurable
  <2> SUFFICES ASSUME FanInv, NEW i \in 1..Len(sent), sent[i] # Junk
               PROVE  /\ Mirrored(sent[i][1], sent[i][2])
                      /\ kept.epoch = sent[i][1] => sent[i][2] < kept.committed
    BY Zenon DEF ClientDurable
  <2>1. CInv /\ RInv /\ ClientInv
    BY Zenon DEF FanInv
  <2>2. Sound /\ Durable
    BY <2>1, InvParts, Zenon
  <2>3. file \in Sessions /\ file \in Nat
    BY <2>1, ConstFacts, Zenon DEF ClientInv, ClientTyped
  <2>4. PICK k \in 1..Good(file) :
          /\ k \in 1..Len(files[file]) /\ sent[i] = files[file][k]
          /\ sent[i] = <<First(file)[1], First(file)[2] + k - 1>>
    <3>1. PICK k \in 1..Good(file) : sent[i] = files[file][k]
      BY <2>1, Zenon DEF ClientInv, AllGiven, Given
    <3> QED BY <2>1, <3>1, SentFrom, Zenon
  <2>5. /\ kept.session \in Nat /\ kept.start \in Nat /\ kept.committed \in Nat /\ kept.start <= kept.committed
        /\ Len(files[file]) \in Nat /\ fsynced[file] \in Nat /\ resume.session \in Nat
        /\ files[file] \in Seq(Packets) /\ kept.epoch \in Nat
    BY <2>2, <2>3, StateFields, FileFacts, Zenon DEF Sound, MirrorSound, MirrorTyped
  <2>6. sent[i] = <<sent[i][1], sent[i][2]>>
    BY <2>4
  <2>7. CASE file < kept.session
    <3>1. kept.session <= resume.session
      BY <2>2, Zenon DEF Sound, MirrorSound, Sealed
    <3>2. file < resume.session
      BY <2>3, <2>5, <2>7, <3>1
    <3>3. fsynced[file] = Len(files[file])
      BY <2>1, <2>3, <3>2, Zenon DEF RInv
    <3>4. Mirrored(sent[i][1], sent[i][2])
      BY <2>3, <2>4, <2>6, <3>3, Zenon DEF Mirrored
    <3>5. files[file] # <<>>
      BY <2>4, <2>5
    <3>6. \/ First(file)[1] < kept.epoch
          \/ First(file)[1] = kept.epoch /\ First(file)[2] + Len(files[file]) <= kept.start
      BY <2>2, <2>3, <2>7, <3>5, Zenon DEF Durable, Point, Below
    <3>7. First(file)[2] \in Nat /\ First(file)[1] \in Nat
      <4>1. files[file][1] \in Packets
        BY <2>4, <2>5, SMTT(20)
      <4> QED BY <4>1, ConstFacts DEF First, Packets, EpochIds
    <3>8. sent[i][1] = First(file)[1] /\ sent[i][2] = First(file)[2] + k - 1
      BY <2>4
    <3>9. kept.epoch = First(file)[1] => First(file)[2] + k - 1 < kept.committed
      BY <2>4, <2>5, <3>6, <3>7, SMTT(20)
    <3> QED BY <3>4, <3>8, <3>9, Zenon
  <2>8. CASE file = kept.session
    <3>1. Good(file) = kept.committed - kept.start
      BY <2>5, <2>8 DEF Good
    <3>2. k \in 1..(kept.committed - kept.start) /\ k \in 1..fsynced[file]
      <4>1. kept.committed - kept.start <= fsynced[file]
        BY <2>2, <2>8, Zenon DEF Durable, Point, Backed
      <4> QED BY <2>4, <2>5, <3>1, <4>1, SMTT(20)
    <3>3. files[file][k] = <<kept.epoch, kept.start + k - 1>>
      BY <2>2, <2>8, <3>2, Zenon DEF Durable, Point, Backed
    <3>4. sent[i][2] = kept.start + k - 1
      <4>1. sent[i] = <<kept.epoch, kept.start + k - 1>>
        BY <2>4, <3>3, Zenon
      <4> QED BY <4>1
    <3>5. kept.start + k - 1 < kept.committed
      BY <2>5, <3>2
    <3> QED BY <2>3, <2>4, <2>6, <3>2, <3>4, <3>5, Zenon DEF Mirrored
  <2>9. ~(kept.session < file)
    <3>1. CASE kept.session < file
      <4>1. Good(file) = 0
        BY <2>3, <2>5, <3>1 DEF Good
      <4> QED BY <2>4, <4>1
    <3> QED BY <3>1, Zenon
  <2> QED BY <2>3, <2>5, <2>7, <2>8, <2>9, SMTT(20)
<1> QED BY <1>1, FanInvHolds, PTL
=============================================================================

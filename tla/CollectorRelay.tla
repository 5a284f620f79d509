---------------------------- MODULE CollectorRelay ----------------------------
(***************************************************************************)
(* The steps against the stream that the agent sends: that nothing is lost *)
(* silently (LInv), that the files declare the right link type (HInv) and  *)
(* that the collector implements Relay (RInv).                             *)
(***************************************************************************)
EXTENDS CollectorFacts

-----------------------------------------------------------------------------
(* One spool instance: nothing is lost silently.                           *)

LEMMA StartedGrows ==
  ASSUME Sound, Sound', AgentGrows, NEW r \in States, Started(r) PROVE Started(r)'
<1>1. r.start \in Nat /\ r.epoch \in 0..MaxEpoch
  BY StateFields
<1>2. r.epoch > 0 => /\ aOldest[r.epoch] \in Nat /\ aOldest'[r.epoch] \in Nat
                     /\ aOldest[r.epoch] <= aOldest'[r.epoch]
  BY <1>1, EpochFacts, AgentFacts, NewAgentFacts DEF Sound, AgentGrows
<1> QED BY <1>1, <1>2 DEF Started

\* Where the state in memory comes from.
LEMMA StateStep ==
  ASSUME CallsSucceed, MaxEpoch = 1, CInv, LInv, CInv', [CollectorNext]_cvars
  PROVE  Started(st')
<1>1. Sound /\ Durable /\ Process /\ Link /\ Sound'
  BY InvParts, InvPartsNext
<1>2. /\ st \in States /\ resume \in States /\ resume.start <= resume.committed /\ st.start <= st.committed
      /\ Started(resume) /\ Started(st)
  BY <1>1 DEF Sound, MirrorSound, MirrorTyped, LInv
<1>3. Started(ZeroState)
  BY DEF Started, ZeroState
<1>4. CASE UNCHANGED st
  BY <1>2, <1>4, Zenon
<1>5. CASE Capture \/ Retire \/ Wipe \/ Send \/ runOnce \/ Drop \/ Heartbeat \/ UNCHANGED cvars
  BY <1>4, <1>5 DEF Capture, Retire, Wipe, Send, runOnce, Drop, Heartbeat, cvars, mirrorVars, memory
<1>6. CASE reconcileEpoch
  <2>1. st.epoch \in {0, 1} /\ wire[1].epoch = 1 /\ aEpoch = 1
    <3>1. wire # <<>> /\ wire[1].type = "preamble"
      BY <1>6, Zenon DEF reconcileEpoch, Receive
    <3>2. st.epoch \in 0..1 /\ aEpoch \in 1..1
      BY <1>1, <1>2, AgentFacts, StateFields, Zenon DEF EpochIds, Sound
    <3>3. 1 \in 1..Len(wire) /\ Stream
      BY <1>1, <3>1, Received
    <3>4. wire[1].epoch = aEpoch
      BY <3>1, <3>3, Zenon DEF Stream, Preamble1
    <3> QED BY <3>2, <3>4
  <2>2. CASE st.epoch = 0 /\ AdoptEpoch(wire[1].epoch)
    <3>1. st' = [st EXCEPT !.epoch = 1]
      BY <2>1, <2>2, Zenon DEF AdoptEpoch
    <3>2. st.start = 0
      BY <1>1, <1>6, <2>2, Reading DEF reconcileEpoch, Receive, Point, Sane, ZeroState
    <3>3. st'.start = 0 /\ st'.epoch = 1
      BY <1>2, <3>1, <3>2, EpochExcept, ConstFacts
    <3> QED BY <1>1, <2>1, <3>3, AgentFacts DEF Started, Sound
  <2>3. ~(wire[1].epoch # 0 /\ st.epoch \notin {0, wire[1].epoch})
    BY <2>1
  <2> QED BY <1>4, <1>6, <2>2, <2>3, Zenon DEF reconcileEpoch
<1>7. CASE commit
  BY <1>4, <1>7 DEF commit, memory
<1>8. CASE handleGap
  <2>1. CASE UNCHANGED mirrorVars
    BY <1>4, <2>1 DEF mirrorVars, memory
  <2>2. CASE StartSession(st.epoch, wire[1].to)
    <3>1. st'.start = wire[1].to /\ st'.epoch = st.epoch
      BY <2>2 DEF StartSession
    <3>2. wire # <<>> /\ wire[1].type = "gap"
      BY <1>8 DEF handleGap, Receive
    <3>3. wire[1].to <= aOldest[aEpoch] /\ st.epoch = aEpoch
      BY <1>1, <3>2, Received, Zenon DEF Fits, Welcome, Greeted
    <3> QED BY <3>1, <3>3 DEF Started
  <2> QED BY <1>8, <2>1, <2>2 DEF handleGap
<1>9. CASE MirrorSync
  <2>1. st' = [st EXCEPT !.committed = st.committed + Len(todo)]
    BY <1>9 DEF MirrorSync
  <2>2. st.committed + Len(todo) \in Nat
    BY <1>1, ReachFacts DEF Reach, Sound, MirrorSound
  <2>3. st'.start = st.start /\ st'.epoch = st.epoch
    BY <1>2, <2>1, <2>2, CommittedExcept
  <2> QED BY <1>2, <2>3 DEF Started
<1>10. CASE NewSessionFile
  <2>1. Backed(st, created) /\ OpenSession(st)
    BY <1>1, <1>10, Zenon DEF NewSessionFile, Process, Point
  <2> QED BY <1>1, <1>2, <1>4, <2>1, OpenKeeps, Zenon
<1>11. CASE OpenMirror
  <2>1. Backed(resume, created) /\ OpenSession(resume)
    BY <1>1, <1>11, Zenon DEF OpenMirror, Durable, Point
  <2>2. st' = resume
    BY <1>1, <1>2, <2>1, OpenKeeps, Zenon
  <2> QED BY <1>2, <2>2, Zenon
<1>12. CASE MirrorStep
  BY <1>4, <1>9, <1>10, <1>11, <1>12, Zenon
  DEF MirrorStep, MirrorWrite, persistState, PublishSession, PublishLen, memory
<1>13. CASE Broken \/ Crash
  <2>1. MirrorKill \/ MirrorPowerCut
    BY <1>1, <1>13, NeverBroken, Zenon DEF Broken, Crash
  <2> QED BY <1>3, <2>1 DEF MirrorKill, MirrorPowerCut, Forget
<1> QED BY <1>5, <1>6, <1>7, <1>8, <1>12, <1>13, Zenon DEF CollectorNext, Frame1

\* Where a resume.json comes from.
LEMMA ResumeStep ==
  ASSUME CallsSucceed, CInv, [CollectorNext]_cvars
  PROVE  resume' \in {resume, kept, st} /\ kept' \in {resume, kept, st}
<1>1. Sound /\ Process
  BY InvParts
<1>2. CASE UNCHANGED <<resume, kept>>
  BY <1>2, Zenon
<1>3. CASE Capture \/ Retire \/ Wipe \/ Send \/ runOnce \/ Drop \/ Heartbeat \/ UNCHANGED cvars
  BY <1>2, <1>3, Zenon DEF Capture, Retire, Wipe, Send, runOnce, Drop, Heartbeat, cvars, mirrorVars, disk
<1>4. CASE Frame1
  BY <1>2, <1>4, Zenon DEF Frame1, reconcileEpoch, SetHeader, commit, handleGap, mirrorVars, disk
<1>5. CASE MirrorStep
  BY <1>5
  DEF MirrorStep, MirrorWrite, MirrorSync, persistState, PublishSession, PublishLen, NewSessionFile,
      OpenMirror, disk
<1>6. CASE Broken \/ Crash
  <2>1. MirrorKill \/ MirrorPowerCut
    BY <1>1, <1>6, NeverBroken DEF Broken, Crash
  <2> QED BY <2>1 DEF MirrorKill, MirrorPowerCut, HalfPersisted
<1> QED BY <1>3, <1>4, <1>5, <1>6, Zenon DEF CollectorNext

-----------------------------------------------------------------------------
(* One spool instance: the files declare its link type.                    *)

LEMMA OneEpoch ==
  ASSUME MaxEpoch = 1 PROVE EpochIds = {1}
  BY DEF EpochIds

\* The disk, the process and what it knows are as they were, or it is past the preamble.
LEMMA HeadKept ==
  ASSUME HInv, UNCHANGED <<disk, gh>>, mfile' \in {mfile, -1},
         mpc' = "down" => mpc = "down",
         \/ gh = 1 /\ mpc # "down"
         \/ mpc' \in {mpc, "idle", "reading"} /\ (conn' = "up" /\ Greeted' => conn = "up" /\ Greeted)
  PROVE  HInv'
<1>1. UNCHANGED <<files, created, header, resume, named, kept, gh>>
  BY DEF disk
<1>2. Declared'
  BY <1>1 DEF HInv, Declared
<1>3. mpc' = "down" => gh' = 0
  BY <1>1 DEF HInv
<1>4. mpc' \notin {"down", "idle", "reading"} => gh' = 1
  BY <1>1 DEF HInv
<1>5. conn' = "up" /\ Greeted' => gh' = 1
  BY <1>1 DEF HInv
<1>6. gh' = 1 /\ mfile' # -1 => header'[mfile'] = 1
  BY <1>1 DEF HInv
<1> QED BY <1>2, <1>3, <1>4, <1>5, <1>6, Zenon DEF HInv

LEMMA HeadLink ==
  ASSUME Sound, Sound', Link, HInv,
         Capture \/ Retire \/ Wipe \/ Send \/ runOnce \/ Drop \/ Heartbeat \/ UNCHANGED cvars
  PROVE  HInv'
<1>1. CASE Capture \/ Retire \/ Wipe \/ Heartbeat \/ UNCHANGED cvars
  <2>1. UNCHANGED <<disk, gh, mfile, mpc>> /\ (UNCHANGED <<conn, wire>> \/ conn' = "down")
    BY <1>1 DEF Capture, Retire, Wipe, Heartbeat, Hangup, cvars, mirrorVars, memory, linkVars
  <2> QED BY <2>1, HeadKept, Zenon DEF Greeted
<1>2. CASE Send
  <2>1. UNCHANGED <<disk, gh, mfile, mpc, conn>>
    BY <1>2, Zenon DEF Send, mirrorVars, memory
  <2>2. PICK f : wire' = Append(wire, f)
    BY <1>2 DEF Send
  <2>3. wire # <<>> => wire' # <<>> /\ wire'[1] = wire[1]
    <3> SUFFICES ASSUME wire # <<>> PROVE wire' # <<>> /\ wire'[1] = wire[1]
      OBVIOUS
    <3>1. wire \in Seq(Frames) /\ Len(wire) \in Nat /\ Len(wire) > 0 /\ wire' \in Seq(Frames)
      BY WireFacts DEF Sound, LinkTyped
    <3> QED BY <2>2, <3>1
  <2>4. Greeted' => Greeted
    BY <2>3 DEF Greeted
  <2> QED BY <2>1, <2>4, HeadKept, Zenon
<1>3. CASE runOnce
  <2>1. UNCHANGED <<disk, gh, mfile>> /\ mpc' = "reading"
    BY <1>3, Zenon DEF runOnce, memory
  <2>2. ~Greeted'
    <3>1. \E id, from : \E q \in {<<>>, <<GapTo(from)>>} : wire' = <<Preamble(id, from)>> \o q
      BY <1>3, Zenon DEF runOnce
    <3>2. PICK id, from : \E q \in {<<>>, <<GapTo(from)>>} : wire' = <<Preamble(id, from)>> \o q
      BY <3>1, Zenon
    <3>3. wire' # <<>> /\ wire'[1] = Preamble(id, from)
      BY <3>2
    <3> QED BY <3>3 DEF Greeted, Preamble
  <2> QED BY <2>1, <2>2, HeadKept
<1>4. CASE Drop
  <2>1. UNCHANGED <<disk, gh, mfile>> /\ mpc' = "idle" /\ conn' = "down"
    BY <1>4 DEF Drop, memory, Hangup
  <2> QED BY <2>1, HeadKept, Zenon
<1> QED BY <1>1, <1>2, <1>3, <1>4, Zenon

LEMMA HeadFrame ==
  ASSUME MaxEpoch = 1, Sound, Durable, Process, Link, HInv, Frame1 PROVE HInv'
<1>1. CASE commit \/ handleGap
  <2>1. mpc = "reading" /\ wire # <<>> /\ wire[1].type # "preamble"
    BY <1>1, Zenon DEF commit, handleGap, Receive
  <2>2. gh = 1
    BY <2>1, Received, Zenon DEF HInv, Greeted
  <2>3. UNCHANGED <<disk, gh>> /\ mfile' \in {mfile, -1} /\ mpc' # "down"
    BY <1>1, <2>1, Zenon DEF commit, handleGap, StartSession, mirrorVars, memory
  <2> QED BY <2>1, <2>2, <2>3, HeadKept, Zenon
<1>2. CASE reconcileEpoch
  <2>1. mpc = "reading" /\ wire # <<>> /\ wire[1].type = "preamble" /\ SetHeader(wire[1].link)
    BY <1>2, Zenon DEF reconcileEpoch, Receive
  <2>2. wire[1].link = 1
    BY <2>1, Received, FrameFields, OneEpoch, Zenon
  <2>3. SetHeader(1) /\ 1 \in EpochIds
    BY <2>1, <2>2, OneEpoch, Zenon
  <2>4. UNCHANGED <<files, created, resume, named, kept>>
    BY <2>1, <2>3, HeaderKeeps, Zenon
  <2>5. gh' = 1 /\ mfile' \in {mfile, -1} /\ mpc' # "down"
    BY <1>2, <2>1, <2>2, Zenon DEF reconcileEpoch, SetHeader, AdoptEpoch, StartSession
  <2>6. /\ mfile = st.session /\ mfile \in created /\ mfile \in Sessions
        /\ Len(files[mfile]) = st.committed - st.start
        /\ st.committed \in Nat /\ st.start \in Nat /\ st.start <= st.committed
    BY <2>1, Reading, StateFields, Zenon DEF Opened, Sound, MirrorSound, MirrorTyped
  <2>7. header \in [Sessions -> Garbage..MaxEpoch] /\ created \subseteq Sessions
    BY DEF Sound, MirrorSound, MirrorTyped
  <2>8. header'[mfile] = 1 /\ \A s \in Sessions \ {mfile} : header'[s] = header[s]
    <3>1. CASE Rewrites(1)
      BY <2>3, <2>6, <2>7, <3>1, Zenon DEF SetHeader
    <3>2. CASE gh = 1
      BY <2>3, <2>6, <3>2, ConstFacts DEF SetHeader, Rewrites, HInv
    <3>3. CASE st.committed # st.start
      <4>1. files[mfile] # <<>>
        BY <2>6, <3>3, FileFacts DEF Sound, MirrorSound
      <4>2. header[mfile] = 1
        BY <2>6, <4>1, Zenon DEF HInv, Declared
      <4> QED BY <2>3, <3>3, <4>2, Zenon DEF SetHeader, Rewrites
    <3> QED BY <3>1, <3>2, <3>3, Zenon DEF Rewrites
  <2>9. Declared'
    BY <2>4, <2>7, <2>8, Zenon DEF HInv, Declared
  <2> QED BY <2>5, <2>6, <2>8, <2>9, Zenon DEF HInv
<1> QED BY <1>1, <1>2, Zenon DEF Frame1

LEMMA HeadMirror ==
  ASSUME Sound, Sound', Durable, Durable', Process, HInv, MirrorStep, UNCHANGED linkVars PROVE HInv'
<1>1. UNCHANGED <<conn, wire>>
  BY Zenon DEF linkVars
<1>2. CASE PublishSession \/ PublishLen
  <2>1. UNCHANGED <<disk, gh, mfile>> /\ mpc \in {"publish", "publishLen"} /\ mpc' # "down"
    BY <1>2, Zenon DEF PublishSession, PublishLen
  <2> QED BY <2>1, HeadKept DEF HInv
<1>3. CASE MirrorSync
  <2>1. UNCHANGED <<files, created, header, resume, named, kept, gh, mfile>> /\ mpc = "sync" /\ mpc' = "persist"
    BY <1>3, Zenon DEF MirrorSync
  <2>2. Declared'
    BY <2>1, Zenon DEF HInv, Declared
  <2> QED BY <2>1, <2>2, Zenon DEF HInv
<1>4. CASE MirrorWrite
  <2>1. UNCHANGED <<created, header, resume, named, kept, gh, mfile>> /\ mpc = "write" /\ mpc' = "sync"
        /\ mfile # -1
    BY <1>4, Zenon DEF MirrorWrite, memory
  <2>2. /\ header[mfile] = 1 /\ created \subseteq Sessions
        /\ \A s \in Sessions \ {mfile} : files'[s] = files[s]
    BY <1>4, <2>1, Written, Zenon DEF HInv, Sound, MirrorSound, MirrorTyped
  <2>3. Declared'
    BY <2>1, <2>2 DEF HInv, Declared
  <2> QED BY <2>1, <2>3, Zenon DEF HInv
<1>5. CASE persistState
  <2>1. UNCHANGED <<files, created, header, gh, mfile>> /\ resume' = st /\ kept' = st /\ named' = created
        /\ mpc \in {"persist", "adopt"} /\ mpc' \in {"reading", "publish"}
    BY <1>5 DEF persistState, memory
  <2>2. st.session \in created
    BY <2>1, Zenon DEF Process, Opened
  <2>3. Declared'
    BY <2>1, <2>2, Zenon DEF HInv, Declared
  <2> QED BY <2>1, <2>3 DEF HInv
<1>6. ASSUME NEW r \in States, r.start <= r.committed, Backed(r, created), OpenSession(r),
             UNCHANGED <<resume, named, kept, gh>>,
             r.session \in created \/ r.session = 0 \/ gh = 1
      PROVE  Declared' /\ mfile' = r.session /\ (gh = 1 /\ r.session > 0 => header'[r.session] = 1)
  <2>1. /\ mfile' = r.session /\ Cut /\ created' = created \cup {r.session}
        /\ \A s \in Sessions \ {r.session} : files'[s] = files[s]
        /\ r.session \in Sessions /\ created \subseteq Sessions
    BY <1>6, OpenKeeps, StateFields, Zenon DEF Sound, MirrorSound, MirrorTyped
  <2>2. header' = [header EXCEPT ![r.session] = IF Blank(r.session) THEN gh ELSE
                                                IF @ = NoHeader THEN Garbage ELSE @]
        /\ (Blank(r.session) => files'[r.session] = <<>>)
    BY <1>6, <2>1 DEF OpenSession, OpenFile, Sound, MirrorSound, MirrorTyped
  <2>3. Blank(r.session) <=> r.session \notin created
    BY DEF Blank, Durable, Runs
  <2>4. r.session \in created => header'[r.session] = header[r.session]
    BY <2>1, <2>2, <2>3, Zenon DEF Durable, Runs, Sound, MirrorSound, MirrorTyped
  <2>5. r.session \notin created => header'[r.session] = gh /\ files'[r.session] = <<>>
    BY <2>1, <2>2, <2>3, Zenon DEF Sound, MirrorSound, MirrorTyped
  <2>6. \A s \in Sessions \ {r.session} : header'[s] = header[s]
    BY <2>1, <2>2, Zenon DEF Sound, MirrorSound, MirrorTyped
  <2>7. files'[r.session] # <<>> => files[r.session] # <<>>
    BY <2>1, CutFirst, Zenon DEF Sound, MirrorSound
  <2>8. ASSUME NEW s \in created', s > 0 \/ files'[s] # <<>> PROVE header'[s] = 1
    <3>1. CASE s = r.session /\ s \notin created
      BY <1>6, <2>1, <2>5, <2>8, <3>1, ConstFacts
    <3>2. CASE s = r.session /\ s \in created
      BY <2>4, <2>7, <2>8, <3>2, Zenon DEF HInv, Declared
    <3>3. CASE s # r.session
      BY <2>1, <2>6, <2>8, <3>3, Zenon DEF HInv, Declared
    <3> QED BY <3>1, <3>2, <3>3, Zenon
  <2>9. Declared'
    BY <1>6, <2>1, <2>8, Zenon DEF HInv, Declared
  <2> QED BY <2>1, <2>8, <2>9, Zenon
<1>7. CASE NewSessionFile
  <2>1. mpc = "open" /\ mpc' = "persist" /\ OpenSession(st) /\ UNCHANGED <<resume, named, kept, gh>>
    BY <1>7, Zenon DEF NewSessionFile
  <2>2. Backed(st, created) /\ st \in States /\ st.start <= st.committed /\ resume \in States
        /\ st.session = resume.session + 1 /\ gh = 1
    BY <2>1, Zenon DEF Process, Point, Sound, MirrorSound, MirrorTyped, HInv
  <2>3. st.session > 0
    BY <2>2, StateFields
  <2>4. Declared' /\ mfile' = st.session /\ header'[st.session] = 1
    BY <1>6, <2>1, <2>2, <2>3, Zenon
  <2> QED BY <2>1, <2>2, <2>4, Zenon DEF HInv
<1>8. CASE OpenMirror
  <2>1. mpc = "down" /\ mpc' = "idle" /\ OpenSession(resume) /\ UNCHANGED <<resume, named, kept, gh>>
    BY <1>8, Zenon DEF OpenMirror
  <2>2. Backed(resume, created) /\ resume \in States /\ resume.start <= resume.committed
        /\ gh = 0 /\ conn = "down"
    BY <2>1, Zenon DEF Durable, Process, Point, Sound, MirrorSound, MirrorTyped, HInv
  <2>3. resume.session \in created \/ resume.session = 0
    BY <2>2, StateFields DEF HInv, Declared
  <2>4. Declared'
    BY <1>6, <2>1, <2>2, <2>3, Zenon
  <2> QED BY <1>1, <2>1, <2>2, <2>4 DEF HInv
<1> QED BY <1>2, <1>3, <1>4, <1>5, <1>7, <1>8, Zenon DEF MirrorStep

LEMMA HeadCrash ==
  ASSUME Sound, Sound', Durable, Process, HInv, MirrorKill \/ MirrorPowerCut, Hangup PROVE HInv'
<1>1. gh' = 0 /\ mfile' = -1 /\ mpc' = "down" /\ conn' = "down" /\ UNCHANGED header
  BY Zenon DEF MirrorKill, MirrorPowerCut, Forget, Hangup, Ethernet
<1>2. mpc \in {"persist", "adopt"} => st.session \in created
  BY Zenon DEF Process, Opened
<1>3. created \subseteq Sessions /\ named \subseteq Sessions
  BY Zenon DEF Sound, MirrorSound, MirrorTyped
<1>4. CASE MirrorKill
  <2>1. UNCHANGED <<files, created, named, kept>> /\ resume' \in HalfPersisted
    BY <1>4 DEF MirrorKill
  <2>2. Declared'
    BY <1>1, <1>2, <2>1 DEF HInv, Declared, HalfPersisted
  <2> QED BY <1>1, <2>2 DEF HInv
<1>5. CASE MirrorPowerCut
  <2>1. /\ \/ resume' \in HalfPersisted /\ created' = created
           \/ resume' = kept /\ created' = named
        /\ kept' = resume' /\ named' = created'
    BY <1>5 DEF MirrorPowerCut
  <2>2. resume'.session > 0 => resume'.session \in created'
    BY <1>2, <2>1 DEF HInv, Declared, HalfPersisted
  <2>3. created' \subseteq created
    BY <2>1, Zenon DEF Durable, Names
  <2>4. ASSUME NEW s \in created', files'[s] # <<>> PROVE files[s] # <<>>
    <3>1. s \in Sessions
      BY <1>3, <2>3, Zenon
    <3>2. PICK n \in fsynced[s]..Len(files[s]) : Len(files'[s]) = n
      BY <1>5, <3>1, CutFiles, Zenon DEF Sound
    <3>3. Len(files[s]) \in Nat /\ fsynced[s] \in Nat /\ Len(files'[s]) # 0
          /\ (files[s] = <<>> <=> Len(files[s]) = 0)
      BY <2>4, <3>1, FileFacts, NewFileFacts, Zenon DEF Sound, MirrorSound
    <3> QED BY <3>2, <3>3
  <2>5. Declared'
    BY <1>1, <2>1, <2>2, <2>3, <2>4, Zenon DEF HInv, Declared
  <2> QED BY <1>1, <2>5 DEF HInv
<1> QED BY <1>4, <1>5, Zenon

-----------------------------------------------------------------------------
(* The refinement of Relay, for a process that is killed or a machine that *)
(* loses power, but not both: a resume.json that was renamed and not       *)
(* synced is seen by the process that restarts after a kill, and a power   *)
(* cut may still take it back.                                             *)

\* The packets the commit point covers.
Log == UNION {{files[s][i] : i \in CommittedIn(s)} : s \in Sessions}

\* Packet p is one of them: of a session that is over, or of the current one.
Held(p) ==
  \/ \E s \in Sessions : s < resume.session /\ \E i \in 1..fsynced[s] : p = files[s][i]
  \/ \E i \in 1..(resume.committed - resume.start) : p = files[resume.session][i]

LEMMA LogIs ==
  ASSUME resume \in States, \A s \in Sessions : fsynced[s] \in Nat,
         resume.start <= resume.committed,
         resume.committed - resume.start <= fsynced[resume.session], NEW p
  PROVE  p \in Log <=> Held(p)
<1> DEFINE n == resume.committed - resume.start
<1>1. resume.session \in Sessions /\ n \in Nat /\ n <= fsynced[resume.session]
  <2>1. resume.session \in Sessions /\ resume.committed \in Nat /\ resume.start \in Nat
    BY StateFields, Zenon
  <2> QED BY <2>1
<1>2. \A s \in Sessions : s \in Nat
  BY ConstFacts
<1>3. \A s \in Sessions : s < resume.session => CommittedIn(s) = 1..fsynced[s]
  BY <1>1, <1>2 DEF CommittedIn
<1>4. CommittedIn(resume.session) = 1..n
  <2>1. ~(resume.session < resume.session)
    BY <1>1, <1>2
  <2>2. CommittedIn(resume.session) = 1..fsynced[resume.session] \cap 1..n
    BY <2>1 DEF CommittedIn
  <2> QED BY <1>1, <2>2
<1>5. \A s \in Sessions : s > resume.session => CommittedIn(s) = {}
  BY <1>1, <1>2 DEF CommittedIn
<1>6. p \in Log <=> \E s \in Sessions : \E i \in CommittedIn(s) : p = files[s][i]
  BY DEF Log
<1>7. ASSUME p \in Log PROVE Held(p)
  <2>1. PICK s \in Sessions : \E i \in CommittedIn(s) : p = files[s][i]
    BY <1>6, <1>7, Zenon
  <2>2. s < resume.session \/ s = resume.session \/ s > resume.session
    BY <1>1, <1>2
  <2> QED BY <1>3, <1>4, <1>5, <2>1, <2>2, Zenon DEF Held
<1>8. ASSUME Held(p) PROVE p \in Log
  BY <1>1, <1>3, <1>4, <1>6, <1>8, Zenon DEF Held
<1> QED BY <1>7, <1>8, Zenon

LEMMA NewLogIs ==
  ASSUME resume' \in States, \A s \in Sessions : fsynced'[s] \in Nat,
         resume'.start <= resume'.committed,
         resume'.committed - resume'.start <= fsynced'[resume'.session], NEW p
  PROVE  p \in Log' <=> Held(p)'
<1> DEFINE n == resume'.committed - resume'.start
<1>1. resume'.session \in Sessions /\ n \in Nat /\ n <= fsynced'[resume'.session]
  <2>1. resume'.session \in Sessions /\ resume'.committed \in Nat /\ resume'.start \in Nat
    BY StateFields, Zenon
  <2> QED BY <2>1
<1>2. \A s \in Sessions : s \in Nat
  BY ConstFacts, Zenon
<1>3. \A s \in Sessions : s < resume'.session => CommittedIn(s)' = 1..fsynced'[s]
  BY <1>1, <1>2 DEF CommittedIn
<1>4. CommittedIn(resume.session)' = 1..n
  <2>1. ~(resume'.session < resume'.session)
    BY <1>1, <1>2
  <2>2. CommittedIn(resume.session)' = 1..fsynced'[resume'.session] \cap 1..n
    BY <2>1 DEF CommittedIn
  <2> QED BY <1>1, <2>2
<1>5. \A s \in Sessions : s > resume'.session => CommittedIn(s)' = {}
  BY <1>1, <1>2 DEF CommittedIn
<1>6. p \in Log' <=> \E s \in Sessions : \E i \in CommittedIn(s)' : p = files'[s][i]
  BY DEF Log
<1>7. ASSUME p \in Log' PROVE Held(p)'
  <2>1. PICK s \in Sessions : \E i \in CommittedIn(s)' : p = files'[s][i]
    BY <1>6, <1>7, Zenon
  <2>2. s < resume'.session \/ s = resume'.session \/ s > resume'.session
    BY <1>1, <1>2
  <2>3. CASE s = resume'.session
    <3>1. CommittedIn(s)' = 1..n
      BY <1>1, <1>2, <2>3 DEF CommittedIn
    <3> QED BY <2>1, <2>3, <3>1, Zenon DEF Held
  <2> QED BY <1>3, <1>5, <2>1, <2>2, <2>3, Zenon DEF Held
<1>8. ASSUME Held(p)' PROVE p \in Log'
  <2>1. CASE \E s \in Sessions : s < resume'.session /\ \E i \in 1..fsynced'[s] : p = files'[s][i]
    BY <1>3, <1>6, <2>1, Zenon
  <2>2. CASE \E i \in 1..n : p = files'[resume'.session][i]
    <3>1. \A s \in Sessions : s = resume'.session => CommittedIn(s)' = 1..n
      BY <1>1, <1>2 DEF CommittedIn
    <3> QED BY <1>1, <1>6, <2>2, <3>1, Zenon
  <2> QED BY <1>8, <2>1, <2>2, Zenon DEF Held
<1> QED BY <1>7, <1>8, Zenon

LEMMA Synced ==
  ASSUME Sound, Durable
  PROVE  /\ resume \in States /\ resume.start <= resume.committed
         /\ \A s \in Sessions : fsynced[s] \in Nat
         /\ resume.committed - resume.start <= fsynced[resume.session]
         /\ resume.session \in Sessions /\ resume.session \in Nat
         /\ resume.committed \in Nat /\ resume.start \in Nat
<1>1. resume \in States /\ resume.start <= resume.committed
  BY Zenon DEF Sound, MirrorSound, MirrorTyped
<1>2. \A s \in Sessions : fsynced[s] \in Nat
  BY FileFacts, Zenon DEF Sound, MirrorSound
<1> QED BY <1>1, <1>2, StateFields, PointsSynced, ConstFacts, Zenon

LEMMA NewSynced ==
  ASSUME Sound', Durable'
  PROVE  /\ resume' \in States /\ resume'.start <= resume'.committed
         /\ \A s \in Sessions : fsynced'[s] \in Nat
         /\ resume'.committed - resume'.start <= fsynced'[resume'.session]
<1>1. resume' \in States /\ resume'.start <= resume'.committed
  BY Zenon DEF Sound, MirrorSound, MirrorTyped
<1>2. \A s \in Sessions : fsynced'[s] \in Nat
  BY NewFileFacts, Zenon DEF Sound, MirrorSound
<1> QED BY <1>1, <1>2, Zenon DEF Durable, Point, Backed

\* A step that leaves the commit point and what is below it.
LEMMA LogSame ==
  ASSUME Sound, Durable, Sound', Durable', resume' = resume,
         \A s \in Sessions : s < resume.session =>
           fsynced'[s] = fsynced[s] /\ \A i \in 1..fsynced[s] : files'[s][i] = files[s][i],
         \A i \in 1..(resume.committed - resume.start) :
           files'[resume.session][i] = files[resume.session][i]
  PROVE  Log' = Log
<1>1. \A p : p \in Log <=> Held(p)
  BY Synced, LogIs, Zenon
<1>2. \A p : p \in Log' <=> Held(p)'
  BY NewSynced, NewLogIs, Zenon
<1>3. ASSUME NEW p PROVE Held(p)' <=> Held(p)
  BY DEF Held
<1> QED BY <1>1, <1>2, <1>3, Zenon

-----------------------------------------------------------------------------
(* A new resume.json.                                                      *)

\* What persist is about to write, next to what is there.
LEMMA Pending ==
  ASSUME Sound, Durable, Process, RInv, mpc \in {"persist", "adopt"}
  PROVE  /\ st \in States /\ st.start <= st.committed /\ st.session \in Sessions
         /\ st.committed \in Nat /\ st.start \in Nat /\ st.session \in Nat
         /\ st.epoch \in EpochIds /\ st.epoch \in Nat /\ st.epoch > 0 /\ resume.epoch \in Nat
         /\ Point(st, created) /\ Later(resume, st) /\ Opened
         /\ st.session \in {resume.session, resume.session + 1}
         /\ \A s \in Sessions : s <= st.session => fsynced[s] = Len(files[s])
         /\ mpc = "adopt" => resume = ZeroState /\ st.session = 0 /\ st.start = 0 /\ st.committed = 0
<1>1. st \in States /\ st.start <= st.committed /\ resume \in States
  BY Zenon DEF Sound, MirrorSound, MirrorTyped
<1>2. Point(st, created) /\ Later(resume, st) /\ Opened /\ st.epoch > 0
  BY Zenon DEF Process
<1>3. /\ st.session \in Sessions /\ st.committed \in Nat /\ st.start \in Nat /\ st.session \in Nat
      /\ st.epoch \in 0..MaxEpoch /\ st.epoch \in Nat /\ resume.session \in Nat /\ resume.epoch \in Nat
  BY <1>1, StateFields, Zenon
<1>4. st.epoch \in EpochIds
  BY <1>2, <1>3, EpochFacts, Zenon
<1>5. mpc = "adopt" => resume = ZeroState /\ st.session = 0 /\ st.start = 0 /\ st.committed = 0
  <2> SUFFICES ASSUME mpc = "adopt"
               PROVE  resume = ZeroState /\ st.session = 0 /\ st.start = 0 /\ st.committed = 0
    BY Zenon
  <2>1. resume.epoch = 0 /\ resume = ZeroState
    BY Zenon DEF Process, Durable, Point, Sane
  <2>2. st.session = 0
    BY <1>2, <2>1, Zenon DEF Opened, Durable, Names
  <2>3. st.start = 0
    BY <1>2, <2>1, <2>2 DEF Later, ZeroState
  <2> QED BY <2>1, <2>2, <2>3, Zenon DEF RInv
<1>6. st.session \in {resume.session, resume.session + 1}
  <2>1. CASE mpc = "adopt"
    BY <1>5, <2>1 DEF ZeroState
  <2>2. CASE mpc = "persist"
    BY <1>2, <1>3, <2>2 DEF Process, Later
  <2> QED BY <2>1, <2>2, Zenon
<1>7. ASSUME NEW s \in Sessions, s <= st.session PROVE fsynced[s] = Len(files[s])
  <2>1. CASE s = st.session
    BY <1>2, <2>1, Zenon DEF Opened
  <2>2. CASE s # st.session
    <3>1. s < resume.session \/ s = resume.session
      BY <1>3, <1>6, <1>7, <2>2, ConstFacts
    <3> QED BY <3>1, Zenon DEF RInv
  <2> QED BY <2>1, <2>2, Zenon
<1> QED BY <1>1, <1>2, <1>3, <1>4, <1>5, <1>6, <1>7, Zenon

\* Its packets: those of before, and if the session is the same one, those from the old
\* commit point to the new one.
LEMMA Persisted ==
  ASSUME Sound, Durable, Process, RInv, Sound', Durable', mpc \in {"persist", "adopt"}, resume' = st,
         \A s \in Sessions : s <= st.session =>
           fsynced'[s] = fsynced[s] /\ \A i \in 1..fsynced[s] : files'[s][i] = files[s][i]
  PROVE  /\ st.session # resume.session => Log' = Log
         /\ st.session = resume.session =>
              LET new == {<<st.epoch, g>> : g \in resume.committed..(st.committed - 1)} IN
              Log' = Log \cup new /\ new \cap Log = {}
<1>1. \A p : p \in Log <=> Held(p)
  BY Synced, LogIs, Zenon
<1>2. \A p : p \in Log' <=> Held(p)'
  BY NewSynced, NewLogIs, Zenon
<1>3. /\ st.session \in Sessions /\ st.session \in Nat /\ resume.session \in Sessions /\ resume.session \in Nat
      /\ st.session \in {resume.session, resume.session + 1}
      /\ st.committed \in Nat /\ st.start \in Nat /\ resume.committed \in Nat /\ resume.start \in Nat
      /\ st.start <= st.committed /\ resume.start <= resume.committed
  BY Pending, Synced, Zenon
<1>4. \A s \in Sessions : s \in Nat /\ fsynced[s] \in Nat
  BY Synced, ConstFacts, Zenon
<1>5. Backed(st, created) /\ Below(st) /\ Later(resume, st)
  BY Pending, Zenon DEF Point
<1> DEFINE n == st.committed - st.start
<1>6. /\ n \in Nat /\ n <= fsynced[st.session]
      /\ \A i \in 1..n : files'[st.session][i] = files[st.session][i]
      /\ \A i \in 1..n : files[st.session][i] = <<st.epoch, st.start + i - 1>>
  <2>1. n \in Nat /\ n <= fsynced[st.session]
    BY <1>3, <1>5 DEF Backed
  <2>2. \A i \in 1..n : i \in 1..fsynced[st.session]
    BY <1>3, <1>4, <2>1
  <2>3. \A i \in 1..fsynced[st.session] : files'[st.session][i] = files[st.session][i]
    BY <1>3
  <2> QED BY <1>5, <2>1, <2>2, <2>3, Zenon DEF Backed
<1>7. ASSUME NEW p
      PROVE  Held(p)' <=> \/ \E s \in Sessions : s < st.session /\ \E i \in 1..fsynced[s] : p = files[s][i]
                          \/ \E i \in 1..n : p = files[st.session][i]
  <2>1. \A s \in Sessions : s < st.session =>
          fsynced'[s] = fsynced[s] /\ \A i \in 1..fsynced[s] : files'[s][i] = files[s][i]
    BY <1>3, <1>4
  <2> QED BY <1>6, <2>1 DEF Held
<1>8. CASE st.session # resume.session
  <2>1. mpc = "persist"
    BY <1>8, Pending DEF ZeroState
  <2>2. n = 0 /\ fsynced[resume.session] = resume.committed - resume.start
    BY <1>3, <1>8, <2>1 DEF RInv
  <2>3. \A s \in Sessions : s < st.session <=> (s < resume.session \/ s = resume.session)
    BY <1>3, <1>4, <1>8
  <2>4. ASSUME NEW p PROVE Held(p)' <=> Held(p)
    <3>1. Held(p)' <=> \E s \in Sessions : s < st.session /\ \E i \in 1..fsynced[s] : p = files[s][i]
      BY <1>7, <2>2
    <3>2. (\E s \in Sessions : s < st.session /\ \E i \in 1..fsynced[s] : p = files[s][i])
          <=> \/ \E s \in Sessions : s < resume.session /\ \E i \in 1..fsynced[s] : p = files[s][i]
              \/ \E i \in 1..fsynced[resume.session] : p = files[resume.session][i]
      BY <1>3, <2>3, Zenon
    <3> QED BY <2>2, <3>1, <3>2, Zenon DEF Held
  <2> QED BY <1>1, <1>2, <1>8, <2>4, Zenon
<1>9. CASE st.session = resume.session
  <2> DEFINE new == {<<st.epoch, g>> : g \in resume.committed..(st.committed - 1)}
             m   == resume.committed - resume.start
  <2>1. st.start = resume.start /\ resume.committed <= st.committed /\ m \in Nat /\ m <= n
    BY <1>3, <1>5, <1>9 DEF Later
  <2>2. ASSUME NEW p PROVE p \in new <=> \E i \in (m + 1)..n : p = files[st.session][i]
    <3>1. ASSUME NEW g \in resume.committed..(st.committed - 1)
          PROVE  \E i \in (m + 1)..n : <<st.epoch, g>> = files[st.session][i]
      <4>1. g - st.start + 1 \in (m + 1)..n /\ g - st.start + 1 \in 1..n
            /\ st.start + (g - st.start + 1) - 1 = g
        BY <1>3, <2>1
      <4>2. files[st.session][g - st.start + 1] = <<st.epoch, g>>
        BY <1>6, <4>1, Zenon
      <4> QED BY <4>1, <4>2, Zenon
    <3>2. ASSUME NEW i \in (m + 1)..n PROVE files[st.session][i] \in new
      <4>1. i \in 1..n /\ st.start + i - 1 \in resume.committed..(st.committed - 1)
        BY <1>3, <2>1
      <4>2. files[st.session][i] = <<st.epoch, st.start + i - 1>>
        BY <1>6, <4>1, Zenon
      <4> QED BY <4>1, <4>2, Zenon
    <3> QED BY <3>1, <3>2
  <2>3. \A i : i \in 1..n <=> i \in 1..m \/ i \in (m + 1)..n
    BY <1>6, <2>1
  <2>4. ASSUME NEW p PROVE Held(p)' <=> Held(p) \/ p \in new
    <3> HIDE DEF new, n, m
    <3>1. Held(p) <=> \/ \E s \in Sessions : s < st.session /\ \E i \in 1..fsynced[s] : p = files[s][i]
                      \/ \E i \in 1..m : p = files[st.session][i]
      BY <1>9, Zenon DEF Held, m
    <3> QED BY <1>7, <2>2, <2>3, <3>1
  <2>5. ASSUME NEW p, Held(p), p \in new PROVE FALSE
    <3>1. PICK g \in resume.committed..(st.committed - 1) : p = <<st.epoch, g>>
      BY <2>5, Zenon
    <3>2. CASE \E s \in Sessions : s < resume.session /\ \E i \in 1..fsynced[s] : p = files[s][i]
      <4>1. PICK s \in Sessions : s < st.session /\ \E i \in 1..fsynced[s] : p = files[s][i]
        BY <1>9, <3>2
      <4>2. PICK i \in 1..fsynced[s] : p = files[s][i]
        BY <4>1, Zenon
      <4>3. fsynced[s] = Len(files[s]) /\ Len(files[s]) \in Nat
        BY <1>3, <1>4, <4>1, Pending, SMTT(20)
      <4>4. files[s] # <<>> /\ i \in 1..Len(files[s]) /\ i \in Nat
        BY <4>3, FileFacts DEF Sound, MirrorSound
      <4>5. files[s][i] = <<First(s)[1], First(s)[2] + i - 1>>
        BY <4>4, Zenon DEF Durable, Runs
      <4>6. First(s)[1] \in Nat /\ First(s)[2] \in Nat /\ st.epoch \in Nat
        BY <4>4, FirstFacts, Pending, Zenon DEF Sound, MirrorSound
      <4>7. First(s)[1] = st.epoch /\ First(s)[2] + i - 1 = g
        BY <3>1, <4>2, <4>5
      <4>8. \/ First(s)[1] < st.epoch
            \/ First(s)[1] = st.epoch /\ First(s)[2] + Len(files[s]) <= st.start
        BY <1>5, <4>1, <4>4, Zenon DEF Below
      <4>9. First(s)[2] + Len(files[s]) <= st.start
        BY <4>6, <4>7, <4>8
      <4> QED BY <1>3, <2>1, <4>3, <4>4, <4>6, <4>7, <4>9, SMTT(20)
    <3>3. CASE \E i \in 1..m : p = files[resume.session][i]
      <4>1. PICK i \in 1..m : p = files[st.session][i]
        BY <1>9, <3>3, Zenon
      <4>2. i \in 1..n
        BY <1>6, <2>1
      <4>3. p = <<st.epoch, st.start + i - 1>>
        BY <1>6, <4>1, <4>2, Zenon
      <4> QED BY <1>3, <2>1, <3>1, <4>1, <4>3
    <3> QED BY <2>5, <3>2, <3>3, Zenon DEF Held
  <2>6. Log' = Log \cup new
    BY <1>1, <1>2, <2>4, Zenon
  <2>7. new \cap Log = {}
    BY <1>1, <2>5, Zenon
  <2> QED BY <1>9, <2>6, <2>7, Zenon
<1> QED BY <1>8, <1>9, Zenon

-----------------------------------------------------------------------------
(* RInv is inductive.                                                      *)

\* The process turns to a step that no conjunct but the second is about.
LEMMA RTurns ==
  ASSUME RInv, UNCHANGED <<files, fsynced, resume, kept>>, mpc # "down", mpc # "sync",
         mpc' \in {"idle", "reading", "write", "publish", "publishLen"}
  PROVE  RInv'
<1>1. UNCHANGED <<files, fsynced, resume, kept>>
  BY Zenon
<1>2. ASSUME NEW s \in Sessions,
             s < resume'.session \/ (s = resume'.session /\ mpc' \notin {"down", "sync"})
      PROVE  fsynced'[s] = Len(files'[s])
  BY <1>1, <1>2, Zenon DEF RInv
<1> QED BY <1>1, <1>2, Zenon DEF RInv

\* The mirror is as it was, while the agent may have gone on.
LEMMA RKept ==
  ASSUME Sound, Sound', Process, AgentGrows, RInv, UNCHANGED <<files, fsynced, resume, kept, mpc, st>>
  PROVE  RInv'
<1>1. UNCHANGED <<files, fsynced, resume, kept, mpc, st>>
  BY Zenon
<1>2. ASSUME NEW s \in Sessions,
             s < resume'.session \/ (s = resume'.session /\ mpc' \notin {"down", "sync"})
      PROVE  fsynced'[s] = Len(files'[s])
  BY <1>1, <1>2, Zenon DEF RInv
<1>3. ASSUME mpc \in {"open", "persist"}, st.start <= aOldest[st.epoch]
      PROVE  st.start <= aOldest'[st.epoch]
  <2>1. st.start \in Nat /\ st.epoch \in Nat /\ st.epoch \in 0..MaxEpoch /\ resume.epoch \in Nat
    BY StateFields, Zenon DEF Sound, MirrorSound, MirrorTyped
  <2>2. st.epoch > 0
    <3>1. CASE mpc = "open"
      <4>1. resume.epoch > 0 /\ resume.epoch <= st.epoch
        BY <3>1, Zenon DEF Process, Later
      <4> QED BY <2>1, <4>1
    <3>2. CASE mpc = "persist"
      BY <3>2, Zenon DEF Process
    <3> QED BY <1>3, <3>1, <3>2
  <2>3. /\ aOldest[st.epoch] \in Nat /\ aOldest'[st.epoch] \in Nat
        /\ aOldest[st.epoch] <= aOldest'[st.epoch]
    BY <2>1, <2>2, EpochFacts, AgentFacts, NewAgentFacts DEF Sound, AgentGrows
  <2> QED BY <1>3, <2>1, <2>3
<1> QED BY <1>1, <1>2, <1>3, Zenon DEF RInv

LEMMA FrameDisk ==
  ASSUME Sound, Durable, Process, Link, Frame1 PROVE UNCHANGED <<files, fsynced, resume, kept>>
<1>1. mpc = "reading" /\ wire # <<>>
  BY Zenon DEF Frame1, reconcileEpoch, commit, handleGap, Receive
<1>2. CASE reconcileEpoch
  <2>1. SetHeader(wire[1].link) /\ wire[1].link \in EpochIds
    BY <1>1, <1>2, Received, FrameFields, Zenon DEF reconcileEpoch, Receive
  <2> QED BY <1>1, <2>1, HeaderKeeps, Zenon
<1>3. CASE commit \/ handleGap
  BY <1>3, Zenon DEF commit, handleGap, mirrorVars, disk
<1> QED BY <1>2, <1>3, Zenon DEF Frame1

LEMMA RFrame ==
  ASSUME Sound, Durable, Process, Link, RInv, Frame1 PROVE RInv'
<1>1. mpc = "reading" /\ wire # <<>>
  BY Zenon DEF Frame1, reconcileEpoch, commit, handleGap, Receive
<1>2. /\ st = resume /\ fsynced[st.session] = st.committed - st.start /\ Point(st, created)
      /\ st \in States /\ st.committed \in Nat /\ st.start \in Nat
  BY <1>1, Reading, StateFields, Zenon DEF Sound, MirrorSound, MirrorTyped
<1>3. UNCHANGED <<files, fsynced, resume, kept>>
  BY FrameDisk, Zenon
<1>4. ASSUME NEW e, NEW from, StartSession(e, from),
             e = st.epoch \/ from = st.committed \/ from <= aOldest'[e]
      PROVE  RInv'
  <2>1. mpc' = "open" /\ st'.committed = from /\ st'.start = from /\ st'.epoch = e
    BY <1>4, Zenon DEF StartSession
  <2>2. \A s \in Sessions : s < resume.session \/ s = resume.session => fsynced[s] = Len(files[s])
    BY <1>1 DEF RInv
  <2> QED BY <1>2, <1>3, <1>4, <2>1, <2>2, Zenon DEF RInv
<1>5. ASSUME NEW e, st.epoch = 0, AdoptEpoch(e) PROVE RInv'
  <2>1. mpc' = "adopt" /\ st' = [st EXCEPT !.epoch = e] /\ st = ZeroState
    BY <1>2, <1>5, Zenon DEF AdoptEpoch, Point, Sane
  <2>2. st'.committed = 0
    BY <2>1, Zenon DEF ZeroState
  <2>3. \A s \in Sessions : s < resume.session \/ s = resume.session => fsynced[s] = Len(files[s])
    BY <1>1 DEF RInv
  <2> QED BY <1>3, <2>1, <2>2, <2>3, Zenon DEF RInv
<1>6. CASE mpc' \in {"idle", "reading", "write"}
  BY <1>1, <1>3, <1>6, RTurns, Zenon
<1>7. CASE reconcileEpoch
  <2>1. /\ wire[1].type = "preamble" /\ UNCHANGED agentVars /\ Stream /\ Welcome /\ ~Greeted
        /\ 1 \in 1..Len(wire)
    BY <1>1, <1>7, Received DEF reconcileEpoch, Receive, Greeted
  <2>2. /\ wire[1].epoch = aEpoch /\ aOldest' = aOldest
        /\ wire[1].from = st.committed \/ wire[1].from <= aOldest[aEpoch]
    BY <2>1, Zenon DEF Stream, Preamble1, Welcome, agentVars
  <2> QED BY <1>1, <1>4, <1>5, <1>6, <1>7, <2>2, Zenon DEF reconcileEpoch
<1>8. CASE commit
  BY <1>1, <1>6, <1>8, Zenon DEF commit
<1>9. CASE handleGap
  BY <1>1, <1>4, <1>6, <1>9, Zenon DEF handleGap, mirrorVars
<1> QED BY <1>7, <1>8, <1>9, Zenon DEF Frame1

LEMMA RMirror ==
  ASSUME Sound, Sound', Durable, Process, Process', RInv, MirrorStep, UNCHANGED agentVars
  PROVE  RInv'
<1>1. /\ st \in States /\ resume \in States /\ st.session \in Sessions /\ st.session \in Nat
      /\ resume.session \in Sessions /\ resume.session \in Nat
      /\ st.start <= st.committed /\ resume.start <= resume.committed
  BY StateFields, Zenon DEF Sound, MirrorSound, MirrorTyped
<1>2. \A s \in Sessions : s \in Nat
  BY ConstFacts
<1>3. CASE PublishSession \/ PublishLen
  BY <1>3, RTurns, Zenon DEF PublishSession, PublishLen, disk
<1>4. CASE MirrorWrite
  <2>1. UNCHANGED <<resume, fsynced, kept>> /\ mpc = "write" /\ mpc' = "sync" /\ st = resume
    BY <1>4, Zenon DEF MirrorWrite, Process
  <2>2. \A s \in Sessions : s < resume.session => files'[s] = files[s]
    BY <1>1, <1>2, <1>4, <2>1, Written
  <2> QED BY <2>1, <2>2, Zenon DEF RInv
<1>5. CASE MirrorSync
  <2>1. UNCHANGED <<files, resume, kept>> /\ mpc = "sync" /\ mpc' = "persist" /\ st = resume /\ st.epoch > 0
        /\ fsynced' = [fsynced EXCEPT ![mfile] = Len(files[mfile])] /\ mfile = st.session
    BY <1>5, Zenon DEF MirrorSync, Process, Opened
  <2>2. st'.session = st.session
    <3>1. st' = [st EXCEPT !.committed = st.committed + Len(todo)] /\ st.committed + Len(todo) \in Nat
      BY <1>5, ReachFacts, Zenon DEF MirrorSync, Reach, Sound, MirrorSound
    <3> QED BY <1>1, <3>1, CommittedExcept
  <2>3. fsynced'[mfile] = Len(files[mfile]) /\ \A s \in Sessions \ {mfile} : fsynced'[s] = fsynced[s]
    BY <1>1, <2>1, Zenon DEF Sound, MirrorSound, MirrorTyped
  <2>4. \A s \in Sessions : s < resume.session \/ s = resume.session => fsynced'[s] = Len(files[s])
    BY <1>1, <1>2, <2>1, <2>3, Zenon DEF RInv
  <2> QED BY <2>1, <2>2, <2>4, Zenon DEF RInv
<1>6. CASE persistState
  <2>1. UNCHANGED <<files, fsynced, st>> /\ resume' = st /\ kept' = st /\ mpc \in {"persist", "adopt"}
        /\ mpc' \in {"reading", "publish"}
    BY <1>6, Zenon DEF persistState, memory
  <2>2. \A s \in Sessions : s < st.session \/ s = st.session => fsynced[s] = Len(files[s])
    BY <1>1, <1>2, <2>1, Pending
  <2> QED BY <2>1, <2>2, Zenon DEF RInv
<1>7. CASE NewSessionFile
  <2>1. /\ mpc = "open" /\ mpc' = "persist" /\ OpenSession(st) /\ UNCHANGED <<resume, kept>>
        /\ Backed(st, created) /\ st.session = resume.session + 1 /\ resume.epoch > 0
    BY <1>7, Zenon DEF NewSessionFile, Process, Point
  <2>2. st' = st /\ \A s \in Sessions \ {st.session} : files'[s] = files[s] /\ fsynced'[s] = fsynced[s]
    BY <1>1, <2>1, OpenKeeps, Zenon
  <2>3. \A s \in Sessions : s < resume.session \/ s = resume.session =>
          s # st.session /\ fsynced[s] = Len(files[s])
    BY <1>1, <1>2, <2>1 DEF RInv
  <2>4. aOldest' = aOldest
    BY Zenon DEF agentVars
  <2> QED BY <1>1, <2>1, <2>2, <2>3, <2>4, Zenon DEF RInv
<1>8. CASE OpenMirror
  <2>1. mpc = "down" /\ mpc' = "idle" /\ OpenSession(resume) /\ UNCHANGED <<resume, kept>>
        /\ Backed(resume, created)
    BY <1>8, Zenon DEF OpenMirror, Durable, Point
  <2>2. fsynced'[resume.session] = Len(files'[resume.session])
        /\ \A s \in Sessions \ {resume.session} : files'[s] = files[s] /\ fsynced'[s] = fsynced[s]
    BY <1>1, <2>1, OpenKeeps, Zenon
  <2>3. \A s \in Sessions : s < resume.session => s # resume.session /\ fsynced[s] = Len(files[s])
    BY <1>1, <1>2 DEF RInv
  <2> QED BY <2>1, <2>2, <2>3, Zenon DEF RInv
<1> QED BY <1>3, <1>4, <1>5, <1>6, <1>7, <1>8, Zenon DEF MirrorStep

LEMMA RCrash ==
  ASSUME Sound, Sound', Durable, Process, RInv, MirrorKill \/ MirrorPowerCut PROVE RInv'
<1>1. mpc' = "down"
  BY DEF MirrorKill, MirrorPowerCut, Forget
<1>2. \A s \in Sessions : s \in Nat
  BY ConstFacts, Zenon
<1>3. CASE MirrorPowerCut
  <2>1. kept' = resume' /\ fsynced' = [s \in Sessions |-> Len(files'[s])]
    BY <1>3, Zenon DEF MirrorPowerCut
  <2> QED BY <1>1, <2>1, Zenon DEF RInv
<1>4. CASE MirrorKill
  <2>1. UNCHANGED <<files, fsynced, kept>> /\ "kill" \in Faults /\ resume' \in HalfPersisted
    BY <1>4, Zenon DEF MirrorKill
  <2>2. CASE resume' = resume
    BY <1>1, <2>1, <2>2, Zenon DEF RInv
  <2>3. CASE mpc \in {"persist", "adopt"} /\ resume' = st
    <3>1. \A s \in Sessions : s < st.session => fsynced[s] = Len(files[s])
      BY <1>2, <2>3, Pending
    <3> QED BY <1>1, <2>1, <2>3, <3>1, Zenon DEF RInv
  <2> QED BY <2>1, <2>2, <2>3, Zenon DEF HalfPersisted
<1> QED BY <1>3, <1>4, Zenon

-----------------------------------------------------------------------------
(* Every step is one of the relay's, or a stutter.                         *)

\* The relay's actions under the refinement mapping.
LEMMA Stutters ==
  ASSUME UNCHANGED agentVars, resume' = resume, Log' = Log PROVE UNCHANGED R!relayVars
  BY Zenon DEF R!relayVars, agentVars, Log

LEMMA Delivers ==
  ASSUME UNCHANGED agentVars, resume'.epoch = resume.epoch, resume.epoch # 0,
         resume'.committed \in (resume.committed + 1)..aHead[resume.epoch],
         LET new == {<<resume.epoch, g>> : g \in resume.committed..(resume'.committed - 1)} IN
         Log' = Log \cup new /\ new \cap Log = {}
  PROVE  R!Deliver
  BY Zenon DEF R!Deliver, R!agent, agentVars, Log

LEMMA Skips ==
  ASSUME UNCHANGED agentVars, resume'.epoch = resume.epoch, resume.epoch # 0,
         resume'.committed \in (resume.committed + 1)..aOldest[resume.epoch], Log' = Log
  PROVE  R!Skip
  BY Zenon DEF R!Skip, R!agent, agentVars, Log

LEMMA Realigns ==
  ASSUME UNCHANGED agentVars, resume'.epoch \in (resume.epoch + 1)..aEpoch,
         \/ resume'.committed = resume.committed /\ resume.committed <= aHead[resume'.epoch]
         \/ resume.epoch # 0 /\ resume'.committed \in 0..aOldest[resume'.epoch],
         Log' = Log
  PROVE  R!Realign
  BY Zenon DEF R!Realign, R!agent, agentVars, Log

\* A persist, returned or cut short by a crash, is one step of the relay.
LEMMA PersistRelays ==
  ASSUME Sound, Durable, Process, RInv, Sound', Durable', mpc \in {"persist", "adopt"}, resume' = st,
         UNCHANGED agentVars,
         \A s \in Sessions : s <= st.session =>
           fsynced'[s] = fsynced[s] /\ \A i \in 1..fsynced[s] : files'[s][i] = files[s][i]
  PROVE  R!RelayNext
<1>1. /\ st.session # resume.session => Log' = Log
      /\ st.session = resume.session =>
           LET new == {<<st.epoch, g>> : g \in resume.committed..(st.committed - 1)} IN
           Log' = Log \cup new /\ new \cap Log = {}
  BY Persisted
<1>2. /\ st.epoch \in EpochIds /\ st.epoch \in Nat /\ st.epoch > 0 /\ resume.epoch \in Nat
      /\ Point(st, created) /\ Later(resume, st) /\ st.committed \in Nat /\ st.start \in Nat
      /\ st.session \in Nat /\ st.session \in {resume.session, resume.session + 1}
      /\ mpc = "adopt" => resume = ZeroState /\ st.session = 0 /\ st.start = 0 /\ st.committed = 0
  BY Pending
<1>3. resume.session \in Nat /\ resume.committed \in Nat
  BY Synced, Zenon
<1>4. /\ aEpoch \in Nat /\ aHead[st.epoch] \in Nat /\ aOldest[st.epoch] \in Nat
      /\ st.epoch <= aEpoch /\ st.committed <= aHead[st.epoch]
  BY <1>2, AgentFacts, Zenon DEF Sound, Point, Sane
<1>5. CASE mpc = "adopt"
  <2>1. resume.epoch = 0 /\ resume.committed = 0 /\ st.session = resume.session /\ st.committed = 0
    BY <1>2, <1>5 DEF ZeroState
  <2>2. resume.committed..(st.committed - 1) = {}
    BY <2>1
  <2>3. Log' = Log
    BY <1>1, <2>1, <2>2, Zenon
  <2>4. resume'.epoch \in (resume.epoch + 1)..aEpoch /\ resume.committed <= aHead[resume'.epoch]
    BY <1>2, <1>4, <2>1, SMTT(20)
  <2> QED BY <2>1, <2>3, <2>4, Realigns, Zenon DEF R!RelayNext
<1>6. CASE mpc = "persist" /\ st.session = resume.session
  <2>1. st.epoch = resume.epoch /\ resume.epoch # 0 /\ resume.committed < st.committed
    <3>1. resume.epoch > 0 /\ resume.committed < st.committed /\ resume.epoch \in {0, st.epoch}
      <4>1. st.committed > resume.committed
        BY <1>6, Zenon DEF Process
      <4> QED BY <1>2, <1>3, <1>6, <4>1 DEF RInv, Later
    <3> QED BY <1>2, <3>1
  <2>2. resume'.committed \in (resume.committed + 1)..aHead[resume.epoch]
    BY <1>2, <1>3, <1>4, <2>1
  <2> QED BY <1>1, <1>6, <2>1, <2>2, Delivers, SMTT(20) DEF R!RelayNext
<1>7. CASE mpc = "persist" /\ st.session # resume.session
  <2>1. Log' = Log /\ resume.session < st.session /\ resume.epoch > 0 /\ st.committed = st.start
        /\ resume.epoch <= st.epoch
    <3>1. resume.session < st.session
      BY <1>2, <1>3, <1>7
    <3>2. Log' = Log /\ resume.epoch > 0 /\ st.committed = st.start /\ resume.epoch <= st.epoch
      BY <1>1, <1>2, <1>7, Zenon DEF RInv, Later
    <3> QED BY <3>1, <3>2, Zenon
  <2>2. CASE st.epoch = resume.epoch
    <3>1. resume.committed < st.start /\ st.start <= aOldest[st.epoch]
      BY <1>2, <2>1, <2>2, Zenon DEF Later
    <3>2. resume'.committed \in (resume.committed + 1)..aOldest[resume.epoch] /\ resume.epoch # 0
      BY <1>2, <1>3, <1>4, <2>1, <2>2, <3>1
    <3> QED BY <2>1, <2>2, <3>2, Skips, Zenon DEF R!RelayNext
  <2>3. CASE st.epoch # resume.epoch
    <3>1. resume'.epoch \in (resume.epoch + 1)..aEpoch /\ resume.epoch # 0
      BY <1>2, <1>4, <2>1, <2>3
    <3>2. st.start = resume.committed \/ st.start <= aOldest[st.epoch]
      BY <1>7, <2>3, Zenon DEF RInv
    <3>3. CASE st.start = resume.committed
      BY <1>4, <2>1, <3>1, <3>3, Realigns, Zenon DEF R!RelayNext
    <3>4. CASE st.start <= aOldest[st.epoch]
      <4>1. st.start \in 0..aOldest[st.epoch]
        BY <1>2, <1>4, <3>4
      <4> QED BY <2>1, <3>1, <4>1, Realigns, Zenon DEF R!RelayNext
    <3> QED BY <3>2, <3>3, <3>4, Zenon
  <2> QED BY <2>2, <2>3, Zenon
<1> QED BY <1>5, <1>6, <1>7

\* The agent's own steps.
LEMMA AgentRelays ==
  ASSUME Sound, Capture \/ Retire \/ Wipe PROVE R!Agent
<1>1. /\ UNCHANGED <<files, fsynced, resume>> /\ Log' = Log
  BY DEF Capture, Retire, Wipe, mirrorVars, disk, Log, CommittedIn
<1>2. /\ aEpoch \in EpochIds /\ aHead \in [EpochIds -> 0..MaxGpidx] /\ aOldest \in [EpochIds -> 0..MaxGpidx]
      /\ aOldest[aEpoch] <= aHead[aEpoch] /\ MaxGpidx \in Nat /\ MaxEpoch \in Nat
  BY ConstFacts DEF Sound, LinkTyped
<1>3. aEpoch' \in aEpoch..MaxEpoch
  BY <1>2, SMTT(20) DEF Capture, Retire, Wipe, EpochIds
<1>4. \E e \in 1..MaxEpoch :
        /\ aHead' \in {[aHead EXCEPT ![e] = n] : n \in aHead[e]..MaxGpidx}
        /\ aOldest' \in {[aOldest EXCEPT ![e] = n] : n \in aOldest[e]..aHead'[e]}
  <2>1. /\ aHead = [aHead EXCEPT ![aEpoch] = aHead[aEpoch]]
        /\ aOldest = [aOldest EXCEPT ![aEpoch] = aOldest[aEpoch]]
        /\ aHead[aEpoch] \in aHead[aEpoch]..MaxGpidx /\ aEpoch \in 1..MaxEpoch
        /\ aHead[aEpoch] \in Nat /\ aOldest[aEpoch] \in Nat
    BY <1>2 DEF EpochIds
  <2>2. CASE Capture
    <3>1. /\ aHead' = [aHead EXCEPT ![aEpoch] = aHead[aEpoch] + 1] /\ aOldest' = aOldest
          /\ aHead[aEpoch] < MaxGpidx
      BY <2>2 DEF Capture
    <3>2. aHead'[aEpoch] = aHead[aEpoch] + 1
      BY <1>2, <3>1
    <3>3. /\ aHead[aEpoch] + 1 \in aHead[aEpoch]..MaxGpidx
          /\ aOldest[aEpoch] \in aOldest[aEpoch]..aHead'[aEpoch]
      BY <1>2, <2>1, <3>1, <3>2
    <3> QED BY <2>1, <3>1, <3>3, Zenon
  <2>3. CASE Retire
    <3>1. aHead' = aHead
          /\ \E n \in (aOldest[aEpoch] + 1)..aHead[aEpoch] : aOldest' = [aOldest EXCEPT ![aEpoch] = n]
      BY <2>3 DEF Retire
    <3>2. PICK n \in (aOldest[aEpoch] + 1)..aHead[aEpoch] : aOldest' = [aOldest EXCEPT ![aEpoch] = n]
      BY <3>1, Zenon
    <3>3. n \in aOldest[aEpoch]..aHead'[aEpoch]
      BY <2>1, <3>1, <3>2
    <3> QED BY <2>1, <3>1, <3>2, <3>3, Zenon
  <2>4. CASE Wipe
    <3>1. aHead' = aHead /\ aOldest' = aOldest
      BY <2>4, Zenon DEF Wipe
    <3>2. aOldest[aEpoch] \in aOldest[aEpoch]..aHead'[aEpoch]
      BY <1>2, <2>1, <3>1
    <3> QED BY <2>1, <3>1, <3>2
  <2> QED BY <2>2, <2>3, <2>4, Zenon
<1> QED BY <1>1, <1>3, <1>4, Zenon DEF R!Agent, Log

LEMMA MirrorRelays ==
  ASSUME Sound, Durable, Process, RInv, Sound', Durable', MirrorStep, UNCHANGED agentVars
  PROVE  R!RelayNext \/ UNCHANGED R!relayVars
<1> DEFINE n == resume.committed - resume.start
<1>1. /\ st \in States /\ resume \in States /\ st.session \in Sessions /\ st.session \in Nat
      /\ st.start <= st.committed /\ resume.start <= resume.committed
  BY StateFields, Zenon DEF Sound, MirrorSound, MirrorTyped
<1>2. /\ resume.session \in Sessions /\ resume.session \in Nat /\ resume.committed \in Nat
      /\ resume.start \in Nat /\ n \in Nat /\ n <= fsynced[resume.session]
      /\ \A s \in Sessions : s \in Nat /\ fsynced[s] \in Nat
  BY Synced, ConstFacts
<1>3. \A s \in Sessions : fsynced[s] <= Len(files[s]) /\ Len(files[s]) \in Nat
  BY FileFacts DEF Sound, MirrorSound, Sealed
<1>4. CASE PublishSession \/ PublishLen
  BY <1>4, LogSame, Stutters DEF PublishSession, PublishLen, disk
<1>5. CASE MirrorWrite
  <2>1. /\ UNCHANGED <<resume, fsynced>> /\ mfile \in Sessions
        /\ \A s \in Sessions \ {mfile} : files'[s] = files[s]
        /\ \A i \in 1..Len(files[mfile]) : files'[mfile][i] = files[mfile][i]
    BY <1>5, Written, Zenon DEF MirrorWrite
  <2>2. \A s \in Sessions : \A i \in 1..fsynced[s] : files'[s][i] = files[s][i]
    <3> SUFFICES ASSUME NEW s \in Sessions, NEW i \in 1..fsynced[s] PROVE files'[s][i] = files[s][i]
      BY Zenon
    <3>1. i \in 1..Len(files[s])
      BY <1>2, <1>3
    <3> QED BY <2>1, <3>1, Zenon
  <2>3. \A i \in 1..n : i \in 1..fsynced[resume.session]
    BY <1>2
  <2> QED BY <1>2, <2>1, <2>2, <2>3, LogSame, Stutters, Zenon
<1>6. CASE MirrorSync
  <2>1. UNCHANGED <<files, resume>> /\ mfile = resume.session
        /\ fsynced' = [fsynced EXCEPT ![mfile] = Len(files[mfile])]
    BY <1>6, Zenon DEF MirrorSync, Process, Opened
  <2>2. ASSUME NEW s \in Sessions, s < resume.session PROVE fsynced'[s] = fsynced[s]
    <3>1. s # mfile
      BY <1>2, <2>1, <2>2
    <3> QED BY <2>1, <3>1, Zenon DEF Sound, MirrorSound, MirrorTyped
  <2> QED BY <2>1, <2>2, LogSame, Stutters, Zenon
<1>7. CASE persistState
  BY <1>7, PersistRelays, Zenon DEF persistState
<1>8. CASE NewSessionFile
  <2>1. /\ OpenSession(st) /\ UNCHANGED resume /\ Backed(st, created) /\ st.session = resume.session + 1
    BY <1>8, Zenon DEF NewSessionFile, Process, Point
  <2>2. \A s \in Sessions \ {st.session} : files'[s] = files[s] /\ fsynced'[s] = fsynced[s]
    BY <1>1, <2>1, OpenKeeps, Zenon
  <2>3. \A s \in Sessions : s < resume.session \/ s = resume.session => s # st.session
    BY <1>2, <2>1
  <2> QED BY <1>2, <2>1, <2>2, <2>3, LogSame, Stutters, Zenon
<1>9. CASE OpenMirror
  <2>1. OpenSession(resume) /\ UNCHANGED resume /\ Backed(resume, created)
    BY <1>9, Zenon DEF OpenMirror, Durable, Point
  <2>2. /\ Len(files'[resume.session]) = n /\ Cut
        /\ \A s \in Sessions \ {resume.session} : files'[s] = files[s] /\ fsynced'[s] = fsynced[s]
    BY <1>1, <2>1, OpenKeeps, Zenon
  <2>3. \A i \in 1..n : files'[resume.session][i] = files[resume.session][i]
    BY <1>2, <2>2, Zenon DEF Cut
  <2>4. \A s \in Sessions : s < resume.session => s # resume.session
    BY <1>2
  <2> QED BY <2>1, <2>2, <2>3, <2>4, LogSame, Stutters, Zenon
<1> QED BY <1>4, <1>5, <1>6, <1>7, <1>8, <1>9, Zenon DEF MirrorStep

LEMMA CrashRelays ==
  ASSUME ~({"kill", "power"} \subseteq Faults), Sound, Durable, Process, RInv, Sound', Durable',
         MirrorKill \/ MirrorPowerCut, UNCHANGED agentVars
  PROVE  R!RelayNext \/ UNCHANGED R!relayVars
<1> DEFINE n == resume.committed - resume.start
<1>1. CASE MirrorKill
  <2>1. UNCHANGED <<files, fsynced>> /\ resume' \in HalfPersisted
    BY <1>1, Zenon DEF MirrorKill
  <2>2. CASE resume' = resume
    BY <2>1, <2>2, LogSame, Stutters, Zenon
  <2>3. CASE mpc \in {"persist", "adopt"} /\ resume' = st
    BY <2>1, <2>3, PersistRelays, Zenon
  <2> QED BY <2>1, <2>2, <2>3, Zenon DEF HalfPersisted
<1>2. CASE MirrorPowerCut
  <2>1. /\ \/ resume' \in HalfPersisted /\ created' = created
           \/ resume' = kept /\ created' = named
        /\ fsynced' = [s \in Sessions |-> Len(files'[s])] /\ "power" \in Faults
    BY <1>2, Zenon DEF MirrorPowerCut
  <2>2. kept = resume
    BY <2>1, Zenon DEF RInv
  <2>3. /\ \A s \in Sessions \ created' : files'[s] = <<>>
        /\ \A s \in created' : /\ fsynced[s] <= Len(files'[s]) /\ Len(files'[s]) <= Len(files[s])
                               /\ \A i \in 1..Len(files'[s]) : files'[s][i] = files[s][i]
    BY <1>2, PowerFiles, Zenon
  <2>4. /\ \A s \in Sessions : /\ s \in Nat /\ fsynced[s] \in Nat /\ Len(files[s]) \in Nat
                               /\ Len(files'[s]) \in Nat /\ (s \notin created => files[s] = <<>>)
        /\ created \subseteq Sessions /\ created' \subseteq Sessions
    BY FileFacts, NewFileFacts, Zenon DEF Sound, MirrorSound, MirrorTyped, Sealed
  <2>5. \A s \in created : s < resume.session => s \in created'
    BY <2>1, <2>2, Zenon DEF Sound, MirrorSound, Sealed
  \* A file that was synced to its end is as it was.
  <2>6. ASSUME NEW s \in Sessions, fsynced[s] = Len(files[s]), s \in created => s \in created'
        PROVE  fsynced'[s] = fsynced[s] /\ \A i \in 1..fsynced[s] : files'[s][i] = files[s][i]
    <3>1. CASE s \in created'
      <4>1. Len(files'[s]) = fsynced[s]
        BY <2>3, <2>4, <2>6, <3>1
      <4> QED BY <2>1, <2>3, <3>1, <4>1, Zenon
    <3>2. CASE s \notin created'
      <4>1. files[s] = <<>> /\ files'[s] = <<>>
        BY <2>3, <2>4, <2>6, <3>2, Zenon
      <4>2. Len(files'[s]) = Len(files[s])
        BY <4>1, Zenon
      <4>3. fsynced'[s] = fsynced[s]
        BY <2>1, <2>6, <4>2, Zenon
      <4> QED BY <4>1, <4>3, Zenon
    <3> QED BY <3>1, <3>2, Zenon
  <2>7. CASE mpc \in {"persist", "adopt"} /\ resume' = st /\ created' = created
    <3>1. \A s \in Sessions : s <= st.session => fsynced[s] = Len(files[s])
      BY <2>7, Pending, Zenon
    <3> QED BY <2>6, <2>7, <3>1, PersistRelays, Zenon
  <2>8. CASE resume' = resume
    <3>1. \A s \in Sessions : s < resume.session =>
            fsynced'[s] = fsynced[s] /\ \A i \in 1..fsynced[s] : files'[s][i] = files[s][i]
      BY <2>5, <2>6, Zenon DEF RInv
    <3>2. /\ resume.session \in Sessions /\ n \in Nat /\ n <= fsynced[resume.session]
      BY Synced
    <3>3. n > 0 => resume.session \in created'
      BY <2>1, <2>2, Zenon DEF Durable, Point, Backed
    <3>4. \A i \in 1..n : files'[resume.session][i] = files[resume.session][i]
      BY <2>3, <2>4, <3>2, <3>3
    <3> QED BY <2>8, <3>1, <3>4, LogSame, Stutters, Zenon
  <2> QED BY <2>1, <2>2, <2>7, <2>8, Zenon DEF HalfPersisted
<1> QED BY <1>1, <1>2, Zenon
=============================================================================

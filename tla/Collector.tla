----------------------------- MODULE Collector -----------------------------
(***************************************************************************)
(* The collector's side of the link (internal/collector: Run, runOnce,     *)
(* Demux), which drains one agent into the mirror (module Mirror).         *)
(*                                                                         *)
(* The agent is reduced to what its serve connection promises (module      *)
(* Serve): a spool instance is an epoch with a head and a retention edge,  *)
(* a stream starts where OpenReader puts it, is contiguous, and says GAP   *)
(* where retention was faster.  A view of the spool read in the middle of  *)
(* a rotation may show less than there is.  With the fault "noid" a        *)
(* preamble may lack the epoch id, as module Epoch shows it can.           *)
(***************************************************************************)
EXTENDS Mirror

CONSTANTS
  MaxGpidx,     \* bound: packets captured per epoch
  MaxEpoch,     \* bound: spool instances
  MaxBatch,     \* BatchMaxPackets
  MaxInFlight   \* bound: frames on the wire

ASSUME CollectorAssumption ==
  {MaxGpidx, MaxEpoch, MaxBatch, MaxInFlight} \subseteq Nat \ {0}

VARIABLES
  aEpoch, aHead, aOldest,   \* the agent: its epoch; head and retention edge of each
  conn, pos, wire           \* the connection: next gpidx to send, frames in flight

agentVars == <<aEpoch, aHead, aOldest>>
linkVars  == <<conn, pos, wire>>
cvars     == <<mirrorVars, agentVars, linkVars>>

EpochIds == 1..MaxEpoch
Preamble(id, from) == [type |-> "preamble", epoch |-> id, link |-> aEpoch, from |-> from]
PktBatch(from, n) == [type |-> "batch", epoch |-> aEpoch, base |-> from, n |-> n]
\* Mutant: the GAP is one packet too long.
GapToLate(to)    == [type |-> "gap", to |-> to + 1]
\* Mutant: one packet too short.
GapToEarly(to)   == [type |-> "gap", to |-> to - 1]
GapTo(to)        == [type |-> "gap", to |-> to]

CollectorInit ==
  /\ MirrorInit
  /\ aEpoch = 1 /\ aHead = [e \in EpochIds |-> 0] /\ aOldest = [e \in EpochIds |-> 0]
  /\ conn = "down" /\ pos = 0 /\ wire = <<>>

Hangup == conn' = "down" /\ pos' = 0 /\ wire' = <<>>

-----------------------------------------------------------------------------
(* The agent.                                                              *)

Capture ==
  /\ aHead[aEpoch] < MaxGpidx
  /\ aHead' = [aHead EXCEPT ![aEpoch] = @ + 1]
  /\ UNCHANGED <<mirrorVars, aEpoch, aOldest, linkVars>>

Retire ==
  /\ aOldest' \in {[aOldest EXCEPT ![aEpoch] = n] : n \in (aOldest[aEpoch] + 1)..aHead[aEpoch]}
  /\ UNCHANGED <<mirrorVars, aEpoch, aHead, linkVars>>

\* The spool is wiped and the agent redeployed: the listener restarts with it, and its
\* connections end.
Wipe ==
  /\ aEpoch < MaxEpoch
  /\ aEpoch' = aEpoch + 1
  /\ Hangup
  /\ UNCHANGED <<mirrorVars, aHead, aOldest>>

\* RunServe's loop: a batch from the position, or the GAP to the oldest packet.
Send ==
  /\ conn = "up" /\ Len(wire) < MaxInFlight
  /\ \/ /\ pos < aOldest[aEpoch]
        /\ wire' = Append(wire, GapTo(aOldest[aEpoch]))
        /\ pos' = aOldest[aEpoch]
     \/ /\ pos >= aOldest[aEpoch]
        /\ \E n \in 1..MaxBatch :
             /\ pos + n <= aHead[aEpoch]
             /\ wire' = Append(wire, PktBatch(pos, n))
             /\ pos' = pos + n
  /\ UNCHANGED <<mirrorVars, agentVars, conn>>

\* The first and last gpidx of a view of the spool: its files up to some rotation,
\* or none.
Views ==
  {[oldest |-> aOldest[aEpoch], head |-> h] : h \in aOldest[aEpoch]..aHead[aEpoch]}
    \cup {[oldest |-> 0, head |-> 0]}

\* The id RunServe advertises.  Epoch returns "" (0) to a caller that reads the file before
\* it is written, and to every caller if a crash left it empty (module Epoch).
Ids == {aEpoch} \cup {e \in {0} : "noid" \in Faults}

-----------------------------------------------------------------------------
(* The supervisor and the demux.                                           *)

\* runOnce: dial, send the resume point; RunServe opens its reader there and
\* answers with the preamble, then the GAP if the resume point was reaped.
runOnce ==
  /\ mpc = "idle" /\ conn = "down"
  /\ \E v \in Views, id \in Ids :
       LET clamped == IF pub.committed < v.oldest THEN v.oldest ELSE pub.committed
           from    == IF clamped > v.head THEN v.oldest ELSE clamped IN
       /\ pos' = from
       /\ wire' = <<Preamble(id, from)>> \o
                    (IF pub.committed < v.oldest THEN <<GapTo(from)>> ELSE <<>>)
  /\ conn' = "up" /\ mpc' = "reading"
  /\ UNCHANGED <<disk, memory, outages, agentVars>>

\* The connection is lost, with the frames in flight, or found to be lost.
Drop ==
  /\ mpc = "reading"
  /\ \/ conn = "up" /\ outages < MaxOutages /\ outages' = outages + 1
     \/ conn = "down" /\ UNCHANGED outages
  /\ mpc' = "idle"
  /\ Hangup
  /\ UNCHANGED <<disk, memory, agentVars>>

Receive(type) ==
  /\ mpc = "reading" /\ wire # <<>> /\ wire[1].type = type
  /\ wire' = Tail(wire)
  /\ UNCHANGED <<agentVars, conn, pos>>

\* Mutant: another epoch is adopted without a new session.
reconcileEpochAdopt ==
  /\ Receive("preamble")
  /\ LET f == wire[1] IN
     /\ SetHeader(f.link)
     /\ \/ st.epoch # f.epoch /\ AdoptEpoch(f.epoch)
        \/ st.epoch = f.epoch /\ UNCHANGED <<mpc, st, mfile, fileLen, todo, pub, outages>>
\* Mutant: another epoch is ignored.
reconcileEpochNever ==
  /\ Receive("preamble")
  /\ LET f == wire[1] IN
     /\ SetHeader(f.link)
     /\ \/ st.epoch = 0 /\ AdoptEpoch(f.epoch)
        \/ st.epoch # 0 /\ UNCHANGED <<mpc, st, mfile, fileLen, todo, pub, outages>>
\* The first frame: SetHeader, then reconcileEpoch, which ignores an empty id.  Every
\* spool instance has a link type of its own.
reconcileEpoch ==
  /\ Receive("preamble")
  /\ LET f == wire[1] IN
     /\ SetHeader(f.link)
     /\ \/ f.epoch \in {0, st.epoch} /\ UNCHANGED <<mpc, st, mfile, fileLen, todo, pub, outages>>
        \/ f.epoch # 0 /\ st.epoch = 0 /\ AdoptEpoch(f.epoch)
        \/ f.epoch # 0 /\ st.epoch \notin {0, f.epoch} /\ StartSession(f.epoch, f.from)

\* SetHeader's error ends the connection.
HeaderClosed == /\ mpc = "reading" /\ wire # <<>> /\ wire[1].type = "preamble"
                /\ SetHeaderClosed(wire[1].link)
HeaderFail   == /\ mpc = "reading" /\ wire # <<>> /\ wire[1].type = "preamble"
                /\ SetHeaderFail(wire[1].link)

\* commit: the packets of the batch from the commit point on.
KeepAll(f) == [i \in 1..f.n |-> <<f.epoch, f.base + i - 1>>]        \* mutant: no dedupe
Keep(f) ==
  LET known == IF f.base < pub.committed THEN pub.committed - f.base ELSE 0 IN
  [i \in 1..(IF known < f.n THEN f.n - known ELSE 0) |-> <<f.epoch, f.base + known + i - 1>>]

\* A forward jump without a GAP is an error, and the connection is dropped.
commit ==
  /\ mpc = "reading" /\ wire # <<>> /\ wire[1].type = "batch"
  /\ IF wire[1].base > pub.committed
       THEN /\ mpc' = "idle" /\ Hangup
            /\ UNCHANGED <<disk, memory, outages, agentVars>>
       ELSE /\ Receive("batch")
            /\ todo' = Keep(wire[1])
            /\ mpc' = IF todo' = <<>> THEN "reading" ELSE "write"
            /\ UNCHANGED <<disk, gh, st, mfile, fileLen, pub, outages>>

\* Mutant: a GAP behind the commit point counts too.
handleGapAlways == Receive("gap") /\ StartSession(st.epoch, wire[1].to) /\ UNCHANGED <<disk, gh>>
handleGap ==
  /\ Receive("gap")
  /\ \/ wire[1].to <= pub.committed /\ UNCHANGED mirrorVars
     \/ wire[1].to > pub.committed /\ StartSession(st.epoch, wire[1].to) /\ UNCHANGED <<disk, gh>>

\* Heartbeats and statistics are counted, nothing else.
Heartbeat == mpc = "reading" /\ conn = "up" /\ wire = <<>> /\ UNCHANGED cvars

-----------------------------------------------------------------------------
MirrorStep == MirrorWrite \/ MirrorSync \/ persistState \/ PublishSession \/ PublishLen
                \/ NewSessionFile \/ OpenMirror
Frame1     == reconcileEpoch \/ commit \/ handleGap
Broken     == (WriteToClosed \/ HeaderClosed) /\ Hangup
Crash      == (MirrorKill \/ MirrorPowerCut \/ MirrorFail \/ HeaderFail) /\ Hangup

CollectorNext ==
  \/ Capture \/ Retire \/ Wipe \/ Send
  \/ runOnce \/ Drop \/ Frame1 \/ Heartbeat
  \/ MirrorStep /\ UNCHANGED <<agentVars, linkVars>>
  \/ (Broken \/ Crash) /\ UNCHANGED agentVars

CollectorSpec == CollectorInit /\ [][CollectorNext]_cvars

\* The supervisor and the demux never stop; serve sends while there is something to
\* send; a broken connection is noticed.  Nothing is promised for capture and
\* retention.
FairCollectorSpec ==
  /\ CollectorSpec
  /\ WF_cvars(MirrorStep /\ UNCHANGED <<agentVars, linkVars>>)
  /\ WF_cvars(runOnce) /\ WF_cvars(Frame1)
  /\ WF_cvars(Broken /\ UNCHANGED agentVars) /\ WF_cvars(Send)
  /\ WF_cvars(Drop /\ conn = "down")

-----------------------------------------------------------------------------
(* Properties.                                                             *)

Packets == EpochIds \X (0..MaxGpidx)
States  == [committed : Nat, session : Sessions, start : 0..MaxGpidx, epoch : 0..MaxEpoch]

\* Types of the mirror's, the agent's and the link's state.
CollectorTypeOK ==
  /\ files \in [Sessions -> Seq(Packets)] /\ created \subseteq Sessions /\ named \subseteq Sessions
  /\ header \in [Sessions -> Garbage..MaxEpoch] /\ gh \in 0..MaxEpoch
  /\ {resume, kept, st} \subseteq States
  /\ fsynced \in [Sessions -> Nat]
  /\ mpc \in {"down", "idle", "reading", "write", "sync", "open", "persist", "adopt",
              "publish", "publishLen"}
  /\ mfile \in Sessions \cup {-1} /\ fileLen \in Nat /\ todo \in Seq(Packets)
  /\ pub \in [committed : Nat, session : Sessions, len : Nat]
  /\ outages \in 0..MaxOutages
  /\ aEpoch \in EpochIds /\ {aHead, aOldest} \subseteq [EpochIds -> 0..MaxGpidx]
  /\ conn \in {"up", "down"} /\ pos \in 0..MaxGpidx

Mirrored(e, g) == \E s \in Sessions : \E i \in 1..fsynced[s] : files[s][i] = <<e, g>>

\* The commit point is backed: whichever resume.json a restart may find, the synced
\* part of its session's file begins with exactly the packets from the session's start
\* to the commit point (Append orders write, fdatasync and persist; openSession then
\* cuts nothing that was committed).
CommitBacked ==
  \A r \in {resume, kept} :
    LET n == r.committed - r.start IN
    /\ n > 0 => r.session \in (IF r = kept THEN named ELSE created)
    /\ n \in 0..fsynced[r.session]
    /\ \A i \in 1..n : files[r.session][i] = <<r.epoch, r.start + i - 1>>

\* Each mirror file is one gap-free run of one epoch, and no packet is mirrored twice,
\* whatever connections and crashes repeated it (commit's dedupe, openSession's
\* truncation, one session per GAP and per epoch).
ExactlyOnce ==
  /\ \A s, t \in Sessions : \A i \in 1..Len(files[s]), j \in 1..Len(files[t]) :
       files[s][i] = files[t][j] => s = t /\ i = j
  /\ \A s \in Sessions : \A i \in 1..Len(files[s]) :
       files[s][i] = <<files[s][1][1], files[s][1][2] + i - 1>>

\* A packet below the commit point is durably mirrored, or the agent's retention
\* dropped it ("every packet with gpidx < CommittedGpidx is durably in the mirror",
\* but for what a GAP announced).
NoSilentLoss ==
  \A r \in {resume, kept} : \A g \in 0..(r.committed - 1) :
    Mirrored(r.epoch, g) \/ g < aOldest[r.epoch]

\* Demux.commit never meets a forward jump: whatever a reconnect, a crash or the
\* retention did, a discontinuity is announced by a GAP or an epoch first.
NoJumpSeen ==
  mpc = "reading" /\ wire # <<>> /\ wire[1].type = "batch" => wire[1].base <= pub.committed

\* The link type a mirror file declares is that of the spool its packets came from
\* (SetHeader rewrites an empty session's header, a later session starts with it), and
\* no file has packets without a header.
HeaderTrue ==
  \A s \in Sessions : \A i \in 1..Len(files[s]) : s \in created /\ header[s] = files[s][i][1]

\* The durable commit point never moves back within an epoch, and sessions are never
\* renumbered: a stale GAP, a duplicate batch or a restart does not undo a commit.
ResumeForward ==
  [][/\ kept'.epoch = kept.epoch => kept'.committed >= kept.committed
     /\ kept'.session >= kept.session]_cvars

\* A session that has a durable successor stays as it is: whatever fails, no synced
\* record of it is cut, rewritten or moved (NewSession never takes a number twice, and a
\* restart opens only the session of its resume.json).
SealedStays ==
  [][\A s \in Sessions : s < kept.session =>
       /\ fsynced[s] <= Len(files'[s])
       /\ \A i \in 1..fsynced[s] : files'[s][i] = files[s][i]]_cvars

\* However connections drop and the collector crashes, in the end its commit point is the
\* head of the agent's current spool instance, and what it holds of that instance is
\* complete but for what was reaped: if a packet is missing that is still in the spool,
\* so are all before it (the resume point of the old spool was taken for a position in
\* the new one, which NoSilentLoss is about).
CatchesUp ==
  <>[](aHead[aEpoch] > 0 =>
         /\ st.epoch = aEpoch /\ pub.committed = aHead[aEpoch]
         /\ \A g \in aOldest[aEpoch]..(aHead[aEpoch] - 1) :
              (\E h \in 0..g : Mirrored(aEpoch, h)) => Mirrored(aEpoch, g))

-----------------------------------------------------------------------------
(* The collector as a relay, seen through what a restart would find: the   *)
(* commit point of resume.json and the synced records below it.            *)

CommittedIn(s) ==
  CASE s < resume.session -> 1..fsynced[s]
    [] s = resume.session -> 1..fsynced[s] \cap 1..(resume.committed - resume.start)
    [] OTHER              -> {}

R == INSTANCE Relay WITH
       current <- aEpoch, captured <- aHead, oldest <- aOldest,
       inst <- resume.epoch, next <- resume.committed,
       log <- UNION {{files[s][i] : i \in CommittedIn(s)} : s \in Sessions}

\* The collector implements Relay: every step that changes the durable commit point,
\* a half-done persist in a crash included, delivers the next packets once, skips what
\* was reaped, or turns to a newer spool instance, where it passes over packets that are
\* still there only if it keeps the position it had (reader.go's resume point).
IsRelay == R!RelaySpec
=============================================================================

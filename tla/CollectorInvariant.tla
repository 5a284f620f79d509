------------------------- MODULE CollectorInvariant -------------------------
(***************************************************************************)
(* The inductive invariant behind the collector's safety properties, for a *)
(* disk that does not fail and preambles that name their spool instance:   *)
(* how the mirror's files, the two resume.json a restart may find, the     *)
(* process's state and the frames in flight fit together.                  *)
(***************************************************************************)
EXTENDS Collector

\* No call on the mirror's files fails, and Epoch does not return "".
CallsSucceed == "io" \notin Faults /\ "noid" \notin Faults

-----------------------------------------------------------------------------
(* Types, with the frames.                                                 *)

Preambles == [type : {"preamble"}, epoch : 0..MaxEpoch, link : EpochIds,
              from : 0..MaxGpidx]
Batches   == {f \in [type : {"batch"}, epoch : EpochIds, base : 0..MaxGpidx, n : 1..MaxBatch] :
                f.base + f.n <= MaxGpidx}
Gaps      == [type : {"gap"}, to : 0..MaxGpidx]
Frames    == Preambles \cup Batches \cup Gaps

Typed ==
  /\ CollectorTypeOK /\ wire \in Seq(Frames)
  /\ \A e \in EpochIds : aOldest[e] <= aHead[e]
  /\ \A r \in {resume, kept, st} : r.start <= r.committed

-----------------------------------------------------------------------------
(* What holds whatever fails: the durable session is not ahead of the one  *)
(* a restart finds, nor that of the one in memory; a file that is open is  *)
(* the current session's; and a file with a durable successor has a        *)
(* durable name.                                                           *)

Sealed ==
  /\ kept.session <= resume.session
  /\ mpc # "down" => resume.session <= st.session
  /\ mfile # -1 => mpc # "down" /\ mfile = st.session /\ mfile \in created
  /\ mpc = "sync" => mfile # -1
  /\ \A s \in Sessions : fsynced[s] <= Len(files[s])
  /\ \A s \in Sessions \ created : files[s] = <<>>
  /\ \A s \in created : s < kept.session => s \in named

-----------------------------------------------------------------------------
(* The resume points.  States a and b of the mirror are in order if b can  *)
(* follow a: the same session further on (or its epoch just adopted), or a *)
(* later one, which within an epoch only a GAP starts: beyond a's commit   *)
(* point, at a packet below which everything is reaped.                    *)

Later(a, b) ==
  /\ a.session <= b.session /\ a.epoch <= b.epoch
  /\ a.session = b.session =>
       a.start = b.start /\ a.committed <= b.committed /\ a.epoch \in {0, b.epoch}
  /\ a.session < b.session /\ a.epoch = b.epoch =>
       a.committed < b.start /\ b.start <= aOldest[b.epoch]

\* A state is of a spool instance there has been, and ends below its head; without one
\* it is the state of an empty mirror.
Sane(r) ==
  /\ r.epoch <= aEpoch
  /\ r.epoch = 0 => r = ZeroState
  /\ r.epoch > 0 => r.committed <= aHead[r.epoch]

\* The synced part of its session's file begins with the packets r has committed.
Backed(r, there) ==
  LET n == r.committed - r.start IN
  /\ n > 0 => r.session \in there
  /\ n <= fsynced[r.session]
  /\ \A i \in 1..n : files[r.session][i] = <<r.epoch, r.start + i - 1>>

-----------------------------------------------------------------------------
(* The files.                                                              *)

First(s) == files[s][1]

\* What a session later than r holds, which only a crash can leave there.
Above(r) ==
  \A s \in Sessions : s > r.session /\ files[s] # <<>> =>
    /\ First(s)[1] \in r.epoch..aEpoch
    /\ First(s)[1] = r.epoch => r.committed < First(s)[2] /\ First(s)[2] <= aOldest[r.epoch]

\* What the sessions before r hold is from older epochs or below r's start.
Below(r) ==
  \A s \in Sessions : s < r.session /\ files[s] # <<>> =>
    \/ First(s)[1] < r.epoch
    \/ First(s)[1] = r.epoch /\ First(s)[2] + Len(files[s]) <= r.start

Runs ==
  /\ \A s \in created : header[s] # NoHeader
  /\ \A s \in Sessions : \A i \in 1..Len(files[s]) :
       files[s][i] = <<First(s)[1], First(s)[2] + i - 1>>
  /\ \A s, t \in Sessions : s < t /\ files[s] # <<>> /\ files[t] # <<>> =>
       \/ First(s)[1] < First(t)[1]
       \/ First(s)[1] = First(t)[1] /\ First(s)[2] + Len(files[s]) <= First(t)[2]

Names ==
  /\ named \subseteq created
  /\ \A s \in created : s <= resume.session + 1 /\ (resume.epoch = 0 => s = 0)
  /\ \A s \in named : s <= kept.session + 1 /\ (kept.epoch = 0 => s = 0)

Point(r, there) == Sane(r) /\ Backed(r, there) /\ Above(r) /\ Below(r)

Durable ==
  /\ Runs /\ Names
  /\ Point(resume, created) /\ Point(kept, named) /\ Later(kept, resume)

-----------------------------------------------------------------------------
(* The process.                                                            *)

\* The file is open and has what is committed, and in Append what is being appended.
Opened ==
  /\ mfile = st.session /\ mfile \in created
  /\ fileLen = st.committed - st.start /\ fsynced[mfile] = fileLen
  /\ Len(files[mfile]) = IF mpc = "sync" THEN fileLen + Len(todo) ELSE fileLen
  /\ \A i \in 1..Len(files[mfile]) : files[mfile][i] = <<st.epoch, st.start + i - 1>>

\* No session after the open one holds anything.
Topmost == \A s \in Sessions : s > st.session => files[s] = <<>>

Published == pub = [committed |-> st.committed, session |-> st.session, len |-> fileLen]

Process ==
  /\ mpc = "down" => st = ZeroState /\ mfile = -1 /\ conn = "down"
  /\ mpc # "down" => Point(st, created) /\ Later(resume, st)
  /\ mpc \notin {"down", "open"} => Opened
  /\ mpc \in {"idle", "reading", "write", "sync"} => st = resume
  /\ mpc \in {"idle", "reading", "write", "sync", "adopt"} => Published
  /\ mpc = "open" => /\ mfile = -1 /\ st.session = resume.session + 1
                     /\ st.committed = st.start /\ resume.epoch > 0
  /\ mpc = "adopt" => resume.epoch = 0 /\ st.epoch > 0
  /\ mpc = "persist" => /\ st.epoch > 0 /\ st.session <= resume.session + 1
                        /\ st.committed > st.start => Topmost
                        /\ st.session = resume.session => st.committed > resume.committed
  /\ mpc \in {"publish", "publishLen"} => st = resume /\ st = kept
  /\ mpc = "publishLen" => pub.committed = st.committed /\ pub.session = st.session
  /\ mpc \in {"write", "sync"} => Topmost /\ st.epoch > 0 /\ todo # <<>>
  /\ mpc \notin {"write", "sync"} => todo = <<>>
  /\ \A i \in 1..Len(todo) : todo[i] = <<st.epoch, st.committed + i - 1>>
  /\ st.epoch > 0 => st.committed + Len(todo) <= aHead[st.epoch]

-----------------------------------------------------------------------------
(* The connection.                                                         *)

\* The position a frame leaves the stream at.
After(f) == CASE f.type = "preamble" -> f.from
              [] f.type = "batch"    -> f.base + f.n
              [] OTHER               -> f.to

\* The commit point once Append has returned.
Reach == st.committed + Len(todo)

Greeted == wire # <<>> => wire[1].type # "preamble"

\* The preamble comes first, and the demux waits for it.
Preamble1 ==
  \A i \in 1..Len(wire) : wire[i].type = "preamble" =>
    i = 1 /\ mpc = "reading" /\ wire[i].epoch = aEpoch /\ wire[i].link = aEpoch

\* A frame in a stream whose position is p: a batch does not jump, a GAP ends where
\* retention has got to.
Fits(f, p) ==
  /\ f.type = "batch" => f.epoch = aEpoch /\ f.base <= p
  /\ f.type = "gap" => f.to <= aOldest[aEpoch]
  /\ After(f) <= aHead[aEpoch]

Stream ==
  /\ Preamble1
  /\ \A i \in 1..Len(wire) : Fits(wire[i], IF i = 1 THEN Reach ELSE After(wire[i - 1]))

Position ==
  /\ IF wire = <<>> THEN pos <= Reach ELSE pos = After(wire[Len(wire)])
  /\ pos <= aHead[aEpoch]

\* Past the preamble the mirror is in the agent's epoch; the preamble itself offers no
\* position beyond the commit point, unless it is another epoch's or a GAP follows, and
\* the commit point itself if not one that retention has got to.
Welcome ==
  /\ Greeted => st.epoch = aEpoch
  /\ ~Greeted => wire[1].from = st.committed \/ wire[1].from <= aOldest[aEpoch]
  /\ ~Greeted => \/ wire[1].from <= st.committed \/ st.epoch \notin {0, aEpoch}
                 \/ Len(wire) > 1 /\ wire[2].type = "gap"

\* A batch on its way is not below a packet that a crash left in a later session.
Clear ==
  \A s \in Sessions :
    s > st.session /\ files[s] # <<>> /\ First(s)[1] = aEpoch /\ st.epoch = aEpoch
      => \A i \in 1..Len(wire) : wire[i].type = "batch" => First(s)[2] <= wire[i].base

Link ==
  /\ mpc = "idle" => conn = "down"
  /\ conn = "down" => wire = <<>>
  /\ conn = "up" => Stream /\ Position /\ Welcome /\ Clear

CInv == Typed /\ Sealed /\ Durable /\ Process /\ Link

-----------------------------------------------------------------------------
(* With one spool instance (MaxEpoch = 1), also:                           *)

\* A session begins where retention has got to, or at 0.
Started(r) == r.epoch > 0 => r.start <= aOldest[r.epoch]

LInv == Started(resume) /\ Started(kept) /\ Started(st)

\* Only the first file, and only while it is empty, declares something else than the
\* instance's link type; and a resume.json names no later one that is not there.
Declared ==
  /\ \A s \in created : s > 0 \/ files[s] # <<>> => header[s] = 1
  /\ resume.session > 0 => resume.session \in created
  /\ kept.session > 0 => kept.session \in named

\* The process knows the link type once it is past the preamble, and then the open file
\* declares it.
HInv ==
  /\ Declared
  /\ mpc = "down" => gh = 0
  /\ mpc \notin {"down", "idle", "reading"} => gh = 1
  /\ conn = "up" /\ Greeted => gh = 1
  /\ gh = 1 /\ mfile # -1 => header[mfile] = 1

-----------------------------------------------------------------------------
(* For the refinement of Relay: a session that is over is synced to its    *)
(* end, and what the next persist will write is one step of the relay.     *)

RInv ==
  /\ "kill" \notin Faults => kept = resume
  /\ \A s \in Sessions :
       s < resume.session \/ (s = resume.session /\ mpc \notin {"down", "sync"})
         => fsynced[s] = Len(files[s])
  /\ mpc = "adopt" => st.committed = 0
  /\ mpc = "persist" => resume.epoch > 0
  /\ mpc = "open" \/ (mpc = "persist" /\ st.session # resume.session) =>
       /\ st.committed = st.start /\ fsynced[resume.session] = resume.committed - resume.start
       /\ st.epoch # resume.epoch =>
            st.start = resume.committed \/ st.start <= aOldest[st.epoch]
=============================================================================

---------------------------- MODULE SpoolProofs -----------------------------
(***************************************************************************)
(* The steps of the running writer, of the janitor and of a crash keep the *)
(* invariant of module SpoolInvariant, and the theorems that follow from it.*)
(***************************************************************************)
EXTENDS SpoolInvariant

\* What the running writer knows.
LEMMA RunningFacts ==
  ASSUME Typed, NEW lo \in Seqs, NEW hi \in Seqs, NEW nlo \in Seqs, NEW nhi \in Seqs \cup {-1},
         Populated(lo, hi, nlo, nhi), pc \in Appending
  PROVE  /\ nhi = hi /\ active.seq = hi /\ active.start = base[hi]
         /\ nextSeq = hi + 1 /\ head = base[hi] + Len(recs[hi]) /\ durable <= Stable(hi)
         /\ Len(recs[hi]) \in Nat /\ base[hi] \in Nat /\ durable \in Nat
         /\ Stable(hi) \in Nat /\ Stable(hi) <= Len(recs[hi])
         /\ reseal = <<>> /\ (pc # "sealsync" => Unsealed(hi)) /\ hi \in named /\ hi \in hdr
         /\ pc # "sealsync" => StableLines = Len(manifest)
<1>1. Running(hi) /\ reseal = <<>> /\ (pc # "sealsync" => StableLines = Len(manifest))
  BY Zenon DEF Populated, Writer
<1>2. hi \in named /\ nhi = hi
  BY <1>1 DEF Running, Populated, Disk, Span, Seqs
<1>3. Len(recs[hi]) \in Nat /\ base[hi] \in Nat /\ durable \in Nat
  BY DEF Typed, FilesTyped, MemTyped
<1>4. Stable(hi) \in Nat /\ Stable(hi) <= Len(recs[hi])
  BY StableBounded, Zenon DEF Populated, Disk
<1> QED BY <1>1, <1>2, <1>3, <1>4 DEF Running, End

\* WritePacket keeps the invariant.
LEMMA WritePacketStep ==
  ASSUME Typed, Typed', NEW lo \in Seqs, NEW hi \in Seqs, NEW nlo \in Seqs,
         NEW nhi \in Seqs \cup {-1}, Populated(lo, hi, nlo, nhi), WritePacket
  PROVE  Populated(lo, hi, nlo, nhi)' /\ Grows
<1>1. /\ UNCHANGED <<onDisk, hdr, base, meta, synced, named, active, durable, nextSeq, sealed, reseal>>
      /\ pc = "idle" /\ head' = head + 1 /\ pc' \in {"idle", "sync"}
      /\ recs' = [recs EXCEPT ![active.seq] = Append(@, captured')]
  BY Zenon DEF WritePacket
<1>2. /\ nhi = hi /\ active.seq = hi /\ active.start = base[hi]
      /\ nextSeq = hi + 1 /\ head = base[hi] + Len(recs[hi]) /\ durable <= Stable(hi)
      /\ Len(recs[hi]) \in Nat /\ base[hi] \in Nat /\ durable \in Nat
      /\ Stable(hi) \in Nat /\ Stable(hi) <= Len(recs[hi])
      /\ reseal = <<>> /\ Unsealed(hi) /\ hi \in named /\ hi \in hdr /\ StableLines = Len(manifest)
  BY <1>1, RunningFacts, Zenon DEF Appending
<1>3. /\ recs'[hi] = Append(recs[hi], captured') /\ Len(recs'[hi]) = Len(recs[hi]) + 1
      /\ recs'[hi] # <<>>
      /\ \A i \in 1..Len(recs[hi]) : recs'[hi][i] = recs[hi][i]
  <2>1. recs[hi] \in Seq(Packets) /\ recs \in [Seqs -> Seq(Packets)]
    BY Zenon DEF Typed, FilesTyped
  <2>2. recs'[hi] = Append(recs[hi], captured')
    BY <1>1, <1>2, <2>1, Zenon
  <2>3. captured' \in Packets
    BY DEF WritePacket, Typed, FilesTyped, Packets
  <2>4. \A i \in 1..Len(recs[hi]) : Append(recs[hi], captured')[i] = recs[hi][i]
    BY <2>1, <2>3
  <2>5. Len(Append(recs[hi], captured')) = Len(recs[hi]) + 1
    BY <2>1, <2>3
  <2>6. Append(recs[hi], captured') # <<>>
    BY <1>2, <2>5
  <2> QED BY <2>2, <2>4, <2>5, <2>6, Zenon
<1>4. \A s \in Seqs : s # hi => recs'[s] = recs[s] /\ Stable(s)' = Stable(s)
  BY <1>1, <1>2, Zenon DEF Typed, FilesTyped, Stable
<1>5. Stable(hi)' \in Nat /\ Stable(hi) <= Stable(hi)' /\ Stable(hi)' <= Len(recs'[hi])
  BY <1>1, <1>2, <1>3, SMTT(20) DEF Stable
<1>6. Grows
  <2> SUFFICES ASSUME NEW s \in Seqs
               PROVE  /\ base'[s] = base[s] /\ Stable(s)' >= Stable(s)
                      /\ \A i \in 1..Stable(s) : recs'[s][i] = recs[s][i]
    BY Zenon DEF Grows
  <2>1. Stable(s) \in Nat
    BY StableBounded, Zenon DEF Populated, Disk
  <2>2. CASE s = hi
    BY <1>1, <1>2, <1>3, <1>5, <2>2
  <2>3. CASE s # hi
    <3>1. recs'[s] = recs[s] /\ synced'[s] = synced[s] /\ base'[s] = base[s]
      BY <1>1, <1>4, <2>3, Zenon
    <3>2. Stable(s)' = Stable(s)
      BY <3>1, Zenon DEF Stable
    <3> QED BY <2>1, <3>1, <3>2
  <2> QED BY <2>2, <2>3, Zenon
<1>7. Span(lo, hi, nlo, nhi)'
  BY <1>1, <1>2 DEF Populated, Disk, Span, Seqs
<1>8. Chain(hi)'
  <2>1. \A s, t \in Seqs : s < t /\ t <= hi => s # hi
    BY DEF Seqs
  <2>2. \A s \in Seqs : synced'[s] <= Len(recs'[s])
    <3>1. \A s \in Seqs : synced[s] <= Len(recs[s]) /\ synced[s] \in Nat
      BY Zenon DEF Populated, Disk, Chain, Typed, FilesTyped
    <3> QED BY <1>1, <1>2, <1>3, <1>4, <3>1, SMTT(20)
  <2>3. (\A s, t \in Seqs : s < t /\ t <= hi => End(s) <= base[t])'
    BY <1>1, <1>4, <2>1, Zenon DEF Populated, Disk, Chain, End
  <2>4. (\A s \in Seqs : s < hi => recs[s] # <<>> /\ Stable(s) = Len(recs[s]) /\ s \in hdr)'
    BY <1>1, <1>4, Zenon DEF Populated, Disk, Chain, Seqs
  <2>5. (\A s \in Seqs : s > hi => recs[s] = <<>>)'
    BY <1>4, Zenon DEF Populated, Disk, Chain, Seqs
  <2>6. (\A s \in Seqs : s + 1 \in Seqs /\ s < hi => base[s + 1] = End(s))'
    BY <1>1, <1>4, Zenon DEF Populated, Disk, Chain, Seqs, End
  <2> QED BY <2>2, <2>3, <2>4, <2>5, <2>6, Zenon DEF Chain
<1>9. Lines(hi)'
  <2>1. /\ DOMAIN manifest = 1..Len(manifest) /\ Len(manifest) \in Nat
        /\ StableLines \in Nat /\ StableLines <= Len(manifest)
        /\ \A t \in Seqs : ~Unsealed(t) => t \in hdr /\ t <= hi /\ Stable(t) = Len(recs[t])
    BY LinesSized, Zenon DEF Populated, Disk
  <2>2. StableLines' = StableLines /\ manifest' = manifest /\ manSynced' <= Len(manifest')
    BY <1>1, Zenon DEF Populated, Disk, Lines, StableLines, meta
  <2> QED BY <1>1, <1>2, <1>4, <2>1, <2>2, LinesKept, Zenon DEF Populated, Disk
<1>10. HeadTrue(nhi)'
  <2>1. headFile.ok => headFile.seq \in Seqs /\ headFile.end \in Nat
    BY Zenon DEF Typed, MetaTyped, Segments
  <2> QED BY <1>1, <1>2, <1>4, <1>5, <2>1, SMTT(60) DEF Populated, Disk, HeadTrue, meta
<1>11. Writer(lo, hi)'
  <2>1. active = [seq |-> hi, start |-> base[hi]]
    BY <1>1, Zenon DEF Populated, Writer, Running, Appending
  <2>2. Unsealed(hi)' /\ StableLines' = Len(manifest')
    BY <1>1, <1>2, Zenon DEF Unsealed, StableLines, meta
  <2>3. head' = End(hi)'
    BY <1>1, <1>2, <1>3 DEF End
  <2>4. durable <= Stable(hi)'
    BY <1>2, <1>5
  <2>5. Running(hi)'
    BY <1>1, <1>2, <1>3, <2>1, <2>2, <2>3, <2>4, Zenon DEF Running
  <2> QED BY <1>1, <1>2, <2>2, <2>5, Zenon DEF Writer, Recovering, Creating
<1>12. SealedTrue(hi)'
  <2>1. \A seg \in sealed : seg.seq \in Seqs /\ seg.seq # hi
    BY <1>2, Zenon DEF Populated, SealedTrue, Typed, MemTyped, Segments
  <2> QED BY <1>1, <1>4, <2>1, ZenonT(60) DEF Populated, SealedTrue, True, End, Unsealed, meta
<1> QED BY <1>6, <1>7, <1>8, <1>9, <1>10, <1>11, <1>12, Zenon DEF Populated, Disk
\* The fdatasync of sync() keeps the invariant.
LEMMA FdatasyncStep ==
  ASSUME Typed, NEW lo \in Seqs, NEW hi \in Seqs, NEW nlo \in Seqs, NEW nhi \in Seqs \cup {-1},
         Populated(lo, hi, nlo, nhi), Fdatasync
  PROVE  Populated(lo, hi, nlo, nhi)' /\ Grows
<1>1. /\ UNCHANGED <<contents, meta, named, caller, goal, active, head, nextSeq, sealed, reseal>>
      /\ pc = "sync" /\ pc' = "publish" /\ durable' = head - active.start
      /\ synced' = [synced EXCEPT ![active.seq] = Len(recs[active.seq])]
  BY Zenon DEF Fdatasync
<1>2. /\ nhi = hi /\ active.seq = hi /\ active.start = base[hi]
      /\ nextSeq = hi + 1 /\ head = base[hi] + Len(recs[hi]) /\ durable <= Stable(hi)
      /\ Len(recs[hi]) \in Nat /\ base[hi] \in Nat
      /\ Stable(hi) \in Nat /\ Stable(hi) <= Len(recs[hi])
      /\ reseal = <<>> /\ Unsealed(hi) /\ hi \in named /\ hi \in hdr /\ StableLines = Len(manifest)
  BY <1>1, RunningFacts, Zenon DEF Appending
<1>3. durable' = Len(recs[hi]) /\ synced'[hi] = Len(recs[hi]) /\ Stable(hi)' = Len(recs[hi])
  BY <1>1, <1>2 DEF Stable, Typed, FilesTyped, contents
<1>4. \A s \in Seqs : s # hi => synced'[s] = synced[s]
  BY <1>1, <1>2, Zenon DEF Typed, FilesTyped
<1>6. Grows
  <2> SUFFICES ASSUME NEW s \in Seqs
               PROVE  /\ base'[s] = base[s] /\ Stable(s)' >= Stable(s)
                      /\ \A i \in 1..Stable(s) : recs'[s][i] = recs[s][i]
    BY Zenon DEF Grows
  <2>1. Stable(s) \in Nat
    BY StableBounded, Zenon DEF Populated, Disk
  <2>2. Stable(s)' >= Stable(s)
    <3>1. CASE s = hi
      BY <1>2, <1>3, <3>1, Zenon
    <3>2. CASE s # hi
      <4>1. Stable(s)' = Stable(s)
        BY <1>1, <1>4, <3>2, Zenon DEF Stable, contents
      <4> QED BY <2>1, <4>1
    <3> QED BY <3>1, <3>2, Zenon
  <2> QED BY <1>1, <2>2, Zenon DEF contents
<1>7. Span(lo, hi, nlo, nhi)'
  BY <1>1, Zenon DEF Populated, Disk, Span, contents
<1>8. Chain(hi)'
  <2>1. \A s \in Seqs : synced'[s] <= Len(recs'[s])
    <3>1. \A s \in Seqs : synced[s] <= Len(recs[s]) /\ synced[s] \in Nat
      BY Zenon DEF Populated, Disk, Chain, Typed, FilesTyped
    <3> QED BY <1>1, <1>2, <1>3, <1>4, <3>1 DEF contents
  <2>2. (\A s \in Seqs : s < hi => recs[s] # <<>> /\ Stable(s) = Len(recs[s]) /\ s \in hdr)'
    BY <1>1, <1>4, Zenon DEF Populated, Disk, Chain, Seqs, contents, Stable
  <2> QED BY <1>1, <2>1, <2>2, Zenon DEF Populated, Disk, Chain, End, contents
<1>9. Lines(hi)'
  <2>1. /\ DOMAIN manifest = 1..Len(manifest) /\ Len(manifest) \in Nat
        /\ StableLines \in Nat /\ StableLines <= Len(manifest)
        /\ \A t \in Seqs : ~Unsealed(t) => t \in hdr /\ t <= hi /\ Stable(t) = Len(recs[t])
    BY LinesSized, Zenon DEF Populated, Disk
  <2>2. StableLines' = StableLines /\ manifest' = manifest /\ manSynced' <= Len(manifest')
    BY <1>1, Zenon DEF Populated, Disk, Lines, StableLines, meta
  <2>3. \A t \in Seqs : ~Unsealed(t) => Stable(t)' = Len(recs'[t])
    BY <1>1, <1>2, <1>4, <2>1, Zenon DEF Stable, contents
  <2> QED BY <1>1, <2>1, <2>2, <2>3, LinesKept DEF Populated, Disk, contents
<1>10. HeadTrue(nhi)'
  <2>1. headFile.ok => headFile.seq \in Seqs /\ headFile.end \in Nat
    BY Zenon DEF Typed, MetaTyped, Segments
  <2>2. CASE headFile.seq = hi
    BY <1>1, <1>2, <1>3, <2>1, <2>2, SMTT(60) DEF Populated, Disk, HeadTrue, meta, contents
  <2>3. CASE headFile.seq # hi
    BY <1>1, <1>2, <1>4, <2>1, <2>3, Zenon DEF Populated, Disk, HeadTrue, meta, contents, Stable
  <2> QED BY <2>2, <2>3, Zenon
<1>11. Writer(lo, hi)'
  BY <1>1, <1>2, <1>3 DEF Populated, Writer, Recovering, Running, Creating, Appending, End,
       Unsealed, StableLines, meta, contents
<1>12. SealedTrue(hi)'
  BY <1>1, Zenon DEF Populated, SealedTrue, True, End, Unsealed, meta, contents
<1> QED BY <1>6, <1>7, <1>8, <1>9, <1>10, <1>11, <1>12, Zenon DEF Populated, Disk
\* head.json now says what is durable of the active file.
LEMMA HeadNowTrue ==
  ASSUME Typed, NEW lo \in Seqs, NEW hi \in Seqs, NEW nlo \in Seqs, NEW nhi \in Seqs \cup {-1},
         Populated(lo, hi, nlo, nhi), pc = "publish", headFile' = HeadNow,
         UNCHANGED <<recs, base, synced>>
  PROVE  nhi = hi /\ HeadTrue(hi)'
<1>1. /\ nhi = hi /\ active.seq = hi /\ active.start = base[hi] /\ durable <= Stable(hi)
      /\ base[hi] \in Nat /\ durable \in Nat /\ Stable(hi) \in Nat
  BY RunningFacts, Zenon DEF Appending
<1>2. headFile'.seq = hi /\ headFile'.start = base[hi] /\ headFile'.end = base[hi] + durable
  BY <1>1, Zenon DEF HeadNow, Segment
<1> QED BY <1>1, <1>2 DEF HeadTrue, Stable, Seqs

\* publishHead keeps the invariant.
LEMMA publishHeadStep ==
  ASSUME Typed, NEW lo \in Seqs, NEW hi \in Seqs, NEW nlo \in Seqs, NEW nhi \in Seqs \cup {-1},
         Populated(lo, hi, nlo, nhi), publishHead
  PROVE  Populated(lo, hi, lo, hi)' /\ Grows
<1>1. /\ UNCHANGED <<contents, manifest, manSynced, synced>>
      /\ pc = "publish" /\ headFile' = HeadNow /\ named' = onDisk
  BY Zenon DEF publishHead, SyncDir
<1>2. /\ active.seq = hi /\ active.start = base[hi]
      /\ nextSeq = hi + 1 /\ head = base[hi] + Len(recs[hi]) /\ durable <= Stable(hi)
      /\ Len(recs[hi]) \in Nat /\ durable \in Nat
      /\ Stable(hi) \in Nat /\ Stable(hi) <= Len(recs[hi])
      /\ reseal = <<>> /\ Unsealed(hi) /\ hi \in hdr /\ StableLines = Len(manifest)
  BY <1>1, RunningFacts, Zenon DEF Appending
<1>3. Chain(hi)' /\ Lines(hi)'
  BY <1>1, Zenon DEF Populated, Disk, Chain, Lines, True, End, Stable, StableLines, contents
<1>4. Grows
  BY <1>1, StableBounded DEF Populated, Disk, Grows, Stable, contents
<1>5. Span(lo, hi, lo, hi)' /\ hi \in named'
  BY <1>1, SpanEnds, BoundsAssumption, Zenon DEF Populated, Disk, Span, contents, Seqs
<1>6. HeadTrue(hi)'
  BY <1>1, HeadNowTrue, Zenon DEF contents
<1>7. (goal # "none" => durable = Len(recs[hi])) /\ (goal = "rotate" => recs[hi] # <<>>)
  BY <1>1, Zenon DEF Populated, Writer, Running, Appending
<1>8. CASE goal = "close" /\ Exit
  <2>1. \A s \in Seqs : Stable(s)' = Len(recs'[s])
    <3>1. \A s \in Seqs : s # hi => Stable(s) = Len(recs[s])
      BY OthersStable, Zenon DEF Populated, Disk
    <3>2. Stable(hi) = Len(recs[hi])
      BY <1>2, <1>7, <1>8
    <3> QED BY <1>1, <3>1, <3>2, Zenon DEF Stable, contents
  <2>2. StableLines' = Len(manifest')
    BY <1>1, <1>2, Zenon DEF StableLines
  <2>3. Writer(lo, hi)' /\ SealedTrue(hi)'
    BY <1>8, <2>1, <2>2, ExitStep, Zenon
  <2> QED BY <1>3, <1>4, <1>5, <1>6, <2>3, Zenon DEF Populated, Disk
<1>9. CASE goal = "rotate" /\ pc' = "seal"
           /\ UNCHANGED <<caller, goal, active, head, durable, nextSeq, sealed, reseal, oldest>>
  <2>1. caller # "start"
    BY <1>9, Zenon DEF Typed, Control
  <2>2. Running(hi)'
    BY <1>1, <1>2, <1>5, <1>7, <1>9, <2>1, Zenon DEF Populated, Writer, Running, Appending, End, Unsealed,
         Stable, contents
  <2>3. Writer(lo, hi)'
    BY <1>1, <1>2, <1>9, <2>2, Zenon DEF Writer, Recovering, Creating, StableLines
  <2>4. SealedTrue(hi)'
    BY <1>1, <1>9, Zenon DEF Populated, SealedTrue, True, End, Unsealed, contents
  <2> QED BY <1>3, <1>4, <1>5, <1>6, <2>3, <2>4, Zenon DEF Populated, Disk
<1>10. CASE goal = "none" /\ pc' = "idle" /\ caller' = "none"
            /\ UNCHANGED <<goal, active, head, durable, nextSeq, sealed, reseal, oldest>>
  <2>2. Running(hi)'
    BY <1>1, <1>2, <1>5, <1>10, Zenon DEF Populated, Writer, Running, Appending, End, Unsealed,
         Stable, contents
  <2>3. Writer(lo, hi)'
    BY <1>1, <1>2, <1>10, <2>2, Zenon DEF Writer, Recovering, Creating, StableLines
  <2>4. SealedTrue(hi)'
    BY <1>1, <1>10, Zenon DEF Populated, SealedTrue, True, End, Unsealed, contents
  <2> QED BY <1>3, <1>4, <1>5, <1>6, <2>3, <2>4, Zenon DEF Populated, Disk
<1> QED BY <1>8, <1>9, <1>10, Zenon DEF publishHead

\* Writing the manifest line keeps the invariant.
LEMMA SealWriteStep ==
  ASSUME Typed, NEW lo \in Seqs, NEW hi \in Seqs, NEW nlo \in Seqs, NEW nhi \in Seqs \cup {-1},
         Populated(lo, hi, nlo, nhi), SealWrite
  PROVE  Populated(lo, hi, nlo, nhi)' /\ Grows
<1>1. /\ UNCHANGED <<contents, manSynced, headFile, synced, named, caller, goal, active, head,
                     durable, nextSeq, sealed, reseal>>
      /\ pc = "seal" /\ pc' = "sealsync" /\ manifest' = Append(manifest, Sealing)
  BY Zenon DEF SealWrite
<1>2. /\ active.seq = hi /\ active.start = base[hi] /\ durable <= Stable(hi)
      /\ Len(recs[hi]) \in Nat /\ base[hi] \in Nat /\ Stable(hi) <= Len(recs[hi])
      /\ Unsealed(hi) /\ Stable(hi) \in Nat /\ hi \in hdr /\ StableLines = Len(manifest)
  BY <1>1, RunningFacts, Zenon DEF Appending
<1>3. durable = Len(recs[hi]) /\ caller # "start" /\ goal = "rotate" /\ recs[hi] # <<>>
  BY <1>1, Zenon DEF Populated, Writer, Running, Appending
<1>4. Sealing = Segment(hi, base[hi], End(hi)) /\ Sealing \in Segments /\ True(Sealing)
      /\ Sealing.seq = hi /\ Stable(hi) = Len(recs[hi])
  <2>1. Sealing = Segment(hi, base[hi], End(hi))
    BY <1>2, <1>3, Zenon DEF Sealing, HeadNow, End
  <2>2. Len(recs[hi]) > 0
    BY <1>2, <1>3 DEF Typed, FilesTyped
  <2> QED BY <1>2, <1>3, <2>1, <2>2 DEF Segment, Segments, True, End
<1>5. /\ manifest \in Seq(Segments) /\ Len(manifest') = Len(manifest) + 1 /\ Len(manifest) \in Nat
      /\ DOMAIN manifest = 1..Len(manifest) /\ DOMAIN manifest' = 1..Len(manifest')
      /\ manifest'[Len(manifest')] = Sealing
      /\ \A i \in DOMAIN manifest : manifest'[i] = manifest[i]
  BY <1>1, <1>4 DEF Typed, MetaTyped
<1>6. Lines(hi)'
  <2>1. \A i \in DOMAIN manifest' : i \in DOMAIN manifest \/ i = Len(manifest')
    BY <1>5
  <2>2. \A i \in DOMAIN manifest :
          /\ True(manifest[i]) /\ manifest[i].seq <= hi /\ manifest[i].seq \in hdr
          /\ Stable(manifest[i].seq) = Len(recs[manifest[i].seq]) /\ manifest[i].seq # hi
    BY <1>2, ZenonT(60) DEF Populated, Disk, Lines, Unsealed
  <2>3. (\A i \in DOMAIN manifest :
           /\ True(manifest[i]) /\ manifest[i].seq <= hi /\ manifest[i].seq \in hdr
           /\ Stable(manifest[i].seq) = Len(recs[manifest[i].seq]))'
    BY <1>1, <1>2, <1>4, <1>5, <2>1, <2>2, SMTT(60) DEF True, End, Stable, contents, Seqs
  <2>4. (\A i, j \in DOMAIN manifest : manifest[i].seq = manifest[j].seq => i = j)'
    BY <1>4, <1>5, <2>1, <2>2 DEF Populated, Disk, Lines
  <2>5. (manSynced <= Len(manifest))'
    BY <1>1, <1>5 DEF Populated, Disk, Lines, Typed, MetaTyped
  <2>6. (\A s \in Seqs : s < hi => \E i \in 1..StableLines : manifest[i].seq = s)'
    <3>1. StableLines \in Nat /\ StableLines' \in Nat /\ StableLines <= StableLines'
      BY <1>1, <1>5 DEF StableLines, Typed, MetaTyped
    <3>2. \A i \in 1..StableLines : i \in 1..StableLines' /\ manifest'[i] = manifest[i]
      BY <1>2, <1>5, <3>1
    <3> QED BY <3>2, Zenon DEF Populated, Disk, Lines
  <2> QED BY <2>3, <2>4, <2>5, <2>6, Zenon DEF Lines
<1>7. Span(lo, hi, nlo, nhi)' /\ Chain(hi)' /\ HeadTrue(nhi)'
  BY <1>1, Zenon DEF Populated, Disk, Span, Chain, HeadTrue, End, Stable, contents
<1>8. Grows
  BY <1>1, StableBounded DEF Populated, Disk, Grows, Stable, contents
<1>9. ~Unsealed(hi)'
  BY <1>4, <1>5 DEF Unsealed
<1>10. Writer(lo, hi)'
  BY <1>1, <1>3, <1>9, Zenon DEF Populated, Writer, Recovering, Running, Creating, Appending, End, Stable,
       contents
<1>11. SealedTrue(hi)'
  <2>1. \A s : ~Unsealed(s) => (~Unsealed(s))'
    BY <1>5 DEF Unsealed
  <2> QED BY <1>1, <2>1, Zenon DEF Populated, SealedTrue, True, End, contents
<1> QED BY <1>6, <1>7, <1>8, <1>10, <1>11, Zenon DEF Populated, Disk
\* Syncing the manifest keeps the invariant.
LEMMA SealSyncStep ==
  ASSUME Typed, NEW lo \in Seqs, NEW hi \in Seqs, NEW nlo \in Seqs, NEW nhi \in Seqs \cup {-1},
         Populated(lo, hi, nlo, nhi), SealSync
  PROVE  Populated(lo, hi, nlo, nhi)' /\ Grows
<1>1. /\ UNCHANGED <<contents, manifest, headFile, synced, named, caller, goal, active, head, durable>>
      /\ pc = "sealsync" /\ manSynced' = Len(manifest)
      /\ sealed' = {seg \in sealed : seg.seq # Sealing.seq} \cup {Sealing}
  BY Zenon DEF SealSync
<1>2. /\ active.seq = hi /\ active.start = base[hi] /\ nextSeq = hi + 1
      /\ head = base[hi] + Len(recs[hi])
      /\ Len(recs[hi]) \in Nat /\ base[hi] \in Nat /\ hi \in named /\ reseal = <<>>
  BY <1>1, RunningFacts, Zenon DEF Appending
<1>3. durable = Len(recs[hi]) /\ caller # "start" /\ goal = "rotate" /\ recs[hi] # <<>> /\ ~Unsealed(hi)
  BY <1>1, Zenon DEF Populated, Writer, Running, Appending
<1>4. pc' = "create" /\ reseal' = <<>> /\ nextSeq' = hi + 2
  <2>1. pc' = "create" /\ reseal' = reseal /\ nextSeq' = nextSeq + 1
    BY <1>3, Zenon DEF SealSync
  <2> QED BY <1>2, <2>1 DEF Seqs
<1>5. True(Sealing) /\ Sealing.seq = hi
  <2>1. Sealing = Segment(hi, base[hi], End(hi))
    BY <1>2, <1>3, Zenon DEF Sealing, HeadNow, End
  <2>2. Len(recs[hi]) > 0
    BY <1>2, <1>3 DEF Typed, FilesTyped
  <2> QED BY <1>2, <2>1, <2>2 DEF Segment, True, End
<1>6. /\ DOMAIN manifest = 1..Len(manifest) /\ Len(manifest) \in Nat
      /\ StableLines \in Nat /\ StableLines <= Len(manifest)
      /\ \A t \in Seqs : ~Unsealed(t) => t \in hdr /\ t <= hi /\ Stable(t) = Len(recs[t])
  BY LinesSized, Zenon DEF Populated, Disk
<1>7. StableLines' = Len(manifest)
  BY <1>1, Zenon DEF StableLines
<1>8. Lines(hi)'
  <2>1. \A t \in Seqs : ~Unsealed(t) => Stable(t)' = Len(recs'[t])
    BY <1>1, <1>6, Zenon DEF Stable, contents
  <2>2. \A s \in Seqs : s < hi => s < hi \/ \E i \in 1..StableLines : manifest[i].seq = s
    OBVIOUS
  <2> QED BY <1>1, <1>6, <1>7, <2>1, <2>2, LinesKept DEF Populated, Disk, contents
<1>9. Span(lo, hi, nlo, nhi)' /\ Chain(hi)' /\ HeadTrue(nhi)'
  BY <1>1, ZenonT(60) DEF Populated, Disk, Span, Chain, HeadTrue, End, Stable, contents
<1>10. Grows
  BY <1>1, StableBounded DEF Populated, Disk, Grows, Stable, contents
<1>11. Writer(lo, hi)'
  <2>1. \E i \in 1..StableLines' : manifest'[i].seq = hi
    BY <1>1, <1>3, <1>6, <1>7, Zenon DEF Unsealed
  <2> QED BY <1>1, <1>2, <1>4, <1>7, <2>1, Zenon DEF Writer, Recovering, Running, Creating, Appending, End,
            contents
<1>12. SealedTrue(hi)'
  <2>1. (\A seg \in sealed : True(seg) /\ ~Unsealed(seg.seq))'
    BY <1>1, <1>3, <1>5, Zenon DEF Populated, SealedTrue, True, End, Unsealed, contents
  <2>2. ASSUME NEW s \in onDisk PROVE \E seg \in sealed' : seg.seq = s
    <3>1. CASE s = hi
      BY <1>1, <1>5, <3>1, Zenon
    <3>2. CASE s # hi
      <4>1. s < hi
        BY <3>2, SpanEnds DEF Populated, Disk, Seqs
      <4>2. PICK seg \in sealed : seg.seq = s
        BY <1>1, <4>1, Zenon DEF Populated, SealedTrue
      <4> QED BY <1>1, <1>5, <3>2, <4>2, Zenon
    <3> QED BY <3>1, <3>2, Zenon
  <2> QED BY <1>1, <2>1, <2>2, Zenon DEF SealedTrue, contents
<1> QED BY <1>8, <1>9, <1>10, <1>11, <1>12, Zenon DEF Populated, Disk

\* The new file is empty, starts where the last one ends, and has no name yet
\* that a power cut could not take.
LEMMA CreateFileStep ==
  ASSUME Typed, NEW lo \in Seqs, NEW hi \in Seqs, NEW nlo \in Seqs, NEW nhi \in Seqs \cup {-1},
         Populated(lo, hi, nlo, nhi), CreateFile
  PROVE  /\ hi + 1 \in Seqs /\ nhi = hi /\ Populated(lo, hi + 1, nlo, hi)' /\ Grows
<1> DEFINE n == hi + 1
<1>1. /\ nextSeq = hi + 2 /\ head = End(hi) /\ hi \in named /\ pc = "create" /\ reseal = <<>>
      /\ \E i \in 1..StableLines : manifest[i].seq = hi
      /\ StableLines = Len(manifest)
  BY Zenon DEF CreateFile, Populated, Writer, Creating
<1>2. n \in Seqs /\ nextSeq - 1 = n
  BY <1>1, SMTT(20) DEF CreateFile, Seqs
<1> HIDE DEF n
<1>3. /\ onDisk' = onDisk \cup {n}
      /\ recs' = [recs EXCEPT ![n] = <<>>]
      /\ base' = [base EXCEPT ![n] = head]
      /\ synced' = [synced EXCEPT ![n] = 0]
      /\ hdr' = hdr \ {n}
      /\ pc' = "header"
      /\ UNCHANGED <<meta, named, nextSeq, head, sealed, reseal>>
  BY <1>2, Zenon DEF CreateFile
<1>4. nhi = hi
  BY <1>1 DEF Populated, Disk, Span, Seqs
<1>5. n = hi + 1 /\ hi < n /\ \A s \in Seqs : s <= n => s = n \/ s <= hi
  BY DEF n, Seqs
<1>6. /\ recs'[n] = <<>> /\ base'[n] = End(hi) /\ synced'[n] = 0
      /\ \A s \in Seqs : s # n => recs'[s] = recs[s] /\ base'[s] = base[s] /\ synced'[s] = synced[s]
  BY <1>1, <1>2, <1>3, Zenon DEF Typed, FilesTyped
<1>7. recs[n] = <<>> /\ Stable(n) = 0
  <2>1. recs[n] = <<>>
    BY <1>2, <1>5, Zenon DEF Populated, Disk, Chain, Seqs
  <2> QED BY <1>2, <2>1, StableBounded DEF Populated, Disk
<1>8. /\ DOMAIN manifest = 1..Len(manifest) /\ Len(manifest) \in Nat
      /\ StableLines \in Nat /\ StableLines <= Len(manifest)
      /\ \A t \in Seqs : ~Unsealed(t) =>
           t \in hdr /\ t <= hi /\ Stable(t) = Len(recs[t]) /\ recs[t] # <<>>
  BY LinesSized, Zenon DEF Populated, Disk
<1>9. ~Unsealed(hi)
  BY <1>1, <1>8, Zenon DEF Unsealed
<1>10. Grows
  <2> SUFFICES ASSUME NEW s \in Seqs, Stable(s) > 0
               PROVE  /\ base'[s] = base[s] /\ Stable(s)' >= Stable(s)
                      /\ \A i \in 1..Stable(s) : recs'[s][i] = recs[s][i]
    BY ZenonT(60) DEF Grows
  <2>1. s # n /\ Stable(s) \in Nat
    BY <1>7, StableBounded DEF Populated, Disk
  <2>2. Stable(s)' = Stable(s)
    BY <1>6, <2>1, Zenon DEF Stable
  <2> QED BY <1>6, <2>1, <2>2
<1>11. Span(lo, n, nlo, hi)'
  <2>1. lo <= hi /\ onDisk = lo..hi /\ named = nlo..hi /\ nlo <= lo
    BY <1>4, Zenon DEF Populated, Disk, Span
  <2>2. onDisk' = lo..n
    BY <1>3, <1>5, <2>1 DEF Seqs
  <2> QED BY <1>3, <1>5, <1>6, <2>1, <2>2 DEF Span, Seqs
<1>12. Chain(n)'
  <2>1. \A s \in Seqs : base[s] \in Nat /\ Len(recs[s]) \in Nat
    BY DEF Typed, FilesTyped
  <2>2. ASSUME NEW s \in Seqs, NEW t \in Seqs, s < t, t <= n
        PROVE  (End(s) <= base[t])'
    <3>1. s # n /\ s <= hi
      BY <1>5, <2>2 DEF Seqs
    <3>2. CASE t = n
      <4>1. s < hi => End(s) <= base[hi]
        <5>1. hi <= hi
          BY DEF Seqs
        <5> QED BY <5>1, Zenon DEF Populated, Disk, Chain
      <4>2. base[hi] <= End(hi)
        BY <2>1 DEF End
      <4>3. End(s) \in Nat /\ End(hi) \in Nat
        BY <2>1 DEF End
      <4>4. s = hi \/ s < hi
        BY <3>1 DEF Seqs
      <4>5. End(s) <= End(hi)
        BY <2>1, <4>1, <4>2, <4>3, <4>4
      <4> QED BY <1>6, <3>1, <3>2, <4>5, Zenon DEF End
    <3>3. CASE t # n
      BY <1>5, <1>6, <2>2, <3>1, <3>3, Zenon DEF Populated, Disk, Chain, End
    <3> QED BY <3>2, <3>3, Zenon
  <2>3. ASSUME NEW s \in Seqs, s + 1 \in Seqs, s < n PROVE (base[s + 1] = End(s))'
    <3>1. CASE s = hi
      <4>1. s + 1 = n /\ s # n
        BY <1>5, <3>1 DEF Seqs
      <4>2. base'[n] = End(s) /\ base'[s] = base[s] /\ recs'[s] = recs[s]
        BY <1>6, <3>1, <4>1, Zenon
      <4> QED BY <4>1, <4>2, Zenon DEF End
    <3>2. CASE s # hi
      <4>1. s < hi /\ s # n /\ s + 1 # n
        BY <1>5, <2>3, <3>2 DEF Seqs
      <4> QED BY <1>6, <2>3, <4>1, Zenon DEF Populated, Disk, Chain, End
    <3> QED BY <3>1, <3>2, Zenon
  <2>4. \A s \in Seqs : s > n => recs'[s] = <<>>
    BY <1>5, <1>6 DEF Populated, Disk, Chain, Seqs
  <2>5. ASSUME NEW s \in Seqs, s < n
        PROVE  (recs[s] # <<>> /\ Stable(s) = Len(recs[s]) /\ s \in hdr)'
    <3>1. s # n /\ recs[s] # <<>> /\ Stable(s) = Len(recs[s]) /\ s \in hdr
      BY <1>5, <1>8, <1>9, <2>5, SMTT(60) DEF Populated, Disk, Chain, Seqs
    <3> QED BY <1>3, <1>6, <3>1, Zenon DEF Stable
  <2>6. \A s \in Seqs : synced'[s] <= Len(recs'[s])
    BY <1>6 DEF Populated, Disk, Chain
  <2> QED BY <2>2, <2>3, <2>4, <2>5, <2>6, Zenon DEF Chain
<1>13. Lines(n)'
  <2>1. StableLines' = StableLines /\ manifest' = manifest /\ manSynced' <= Len(manifest')
    BY <1>3, Zenon DEF Populated, Disk, Lines, StableLines, meta
  <2>2. \A t \in Seqs : ~Unsealed(t) =>
           /\ t # n /\ t <= n /\ t \in hdr' /\ base'[t] = base[t] /\ recs'[t] = recs[t]
           /\ Stable(t)' = Len(recs'[t])
    BY <1>3, <1>5, <1>6, <1>7, <1>8 DEF Stable, Seqs
  <2>3. \A s \in Seqs : s < n => s < hi \/ \E i \in 1..StableLines : manifest[i].seq = s
    BY <1>1, <1>5, SMTT(60) DEF Seqs
  <2> QED BY <1>2, <1>8, <2>1, <2>2, <2>3, LinesKept DEF Populated, Disk
<1>14. HeadTrue(hi)'
  <2>1. headFile.ok => headFile.seq \in Seqs /\ headFile.seq <= hi /\ headFile.seq # n
    BY <1>4, <1>5 DEF Typed, MetaTyped, Segments, Populated, Disk, HeadTrue, Seqs
  <2> QED BY <1>3, <1>4, <1>6, <2>1 DEF Populated, Disk, HeadTrue, meta, Stable
<1>15. Writer(lo, n)'
  <2>1. StableLines' = Len(manifest')
    BY <1>1, <1>3, Zenon DEF StableLines, meta
  <2> QED BY <1>1, <1>3, <1>5, <1>6, <2>1 DEF Writer, Recovering, Running, Creating, Appending, Seqs
<1>16. SealedTrue(n)'
  <2>1. \A seg \in sealed : seg.seq \in Seqs /\ seg.seq # n
    BY <1>7, <1>8, Zenon DEF Populated, SealedTrue, Typed, MemTyped, Segments
  <2>2. \A s \in onDisk : \E seg \in sealed : seg.seq = s
    BY <1>1, Zenon DEF Populated, SealedTrue
  <2>3. (\A seg \in sealed : True(seg) /\ ~Unsealed(seg.seq))'
    BY <1>3, <1>6, <2>1 DEF Populated, SealedTrue, True, End, Unsealed, meta
  <2> QED BY <1>3, <1>5, <2>2, <2>3 DEF SealedTrue, Seqs
<1> QED BY <1>2, <1>4, <1>5, <1>10, <1>11, <1>12, <1>13, <1>14, <1>15, <1>16, Zenon DEF Populated, Disk
\* An empty file has no line.
LEMMA NewUnsealed ==
  ASSUME Typed, NEW hi \in Seqs, Lines(hi), recs[hi] = <<>>
  PROVE  Unsealed(hi)
BY LinesSized, Zenon

\* Writing a new file's header keeps the invariant.
LEMMA WriteHeaderStep ==
  ASSUME Typed, NEW lo \in Seqs, NEW hi \in Seqs, NEW nlo \in Seqs, NEW nhi \in Seqs \cup {-1},
         Populated(lo, hi, nlo, nhi), WriteHeader
  PROVE  Populated(lo, hi, nlo, nhi)' /\ Grows
<1>1. /\ UNCHANGED <<onDisk, recs, base, meta, synced, named, head, nextSeq, sealed, reseal>>
      /\ pc = "header" /\ pc' = "dirsync" /\ hdr' = hdr \cup {nextSeq - 1}
  BY Zenon DEF WriteHeader
<1>2. nextSeq = hi + 1 /\ head = base[hi] /\ recs[hi] = <<>> /\ reseal = <<>> /\ StableLines = Len(manifest)
  BY <1>1, Zenon DEF Populated, Writer, Creating
<1>3. hdr' = hdr \cup {hi}
  BY <1>1, <1>2 DEF Seqs
<1>4. Disk(lo, hi, nlo, nhi)'
  <2>1. Span(lo, hi, nlo, nhi)' /\ HeadTrue(nhi)'
    BY <1>1, Zenon DEF Populated, Disk, Span, HeadTrue, Stable, meta
  <2>2. Chain(hi)'
    BY <1>1, <1>3, Zenon DEF Populated, Disk, Chain, End, Stable
  <2>3. Lines(hi)'
    BY <1>1, <1>3, Zenon DEF Populated, Disk, Lines, True, End, Stable, StableLines, meta
  <2> QED BY <2>1, <2>2, <2>3, Zenon DEF Disk
<1>5. Grows
  BY <1>1, StableBounded DEF Populated, Disk, Grows, Stable
<1>6. Writer(lo, hi)'
  BY <1>1, <1>2, <1>3, Zenon DEF Writer, Recovering, Running, Creating, Appending, StableLines, meta
<1>7. SealedTrue(hi)'
  BY <1>1, Zenon DEF Populated, SealedTrue, True, End, Unsealed, meta
<1> QED BY <1>4, <1>5, <1>6, <1>7, Zenon DEF Populated

\* Switching to the new file keeps the invariant.
LEMMA SwitchActiveStep ==
  ASSUME Typed, NEW lo \in Seqs, NEW hi \in Seqs, NEW nlo \in Seqs, NEW nhi \in Seqs \cup {-1},
         Populated(lo, hi, nlo, nhi), SwitchActive
  PROVE  Populated(lo, hi, lo, hi)' /\ Grows
<1>1. /\ UNCHANGED <<contents, meta, synced, head, nextSeq, sealed, reseal>> /\ SyncDir
      /\ pc = "dirsync" /\ pc' = "publish" /\ durable' = 0 /\ goal' = "none"
      /\ active' = [seq |-> nextSeq - 1, start |-> head]
  BY Zenon DEF SwitchActive
<1>2. /\ nextSeq = hi + 1 /\ head = base[hi] /\ recs[hi] = <<>> /\ reseal = <<>>
      /\ StableLines = Len(manifest) /\ hi \in hdr
  BY <1>1, Zenon DEF Populated, Writer, Creating
<1>3. active' = [seq |-> hi, start |-> base[hi]]
  BY <1>1, <1>2 DEF Seqs
<1>4. Disk(lo, hi, lo, hi)' /\ Grows
  BY <1>1, DiskSynced, Zenon DEF Populated
<1>5. hi \in named'
  BY <1>1, SpanEnds, Zenon DEF Populated, Disk, SyncDir
<1>6. Unsealed(hi) /\ Stable(hi) \in Nat /\ base[hi] \in Nat
  BY <1>2, NewUnsealed, StableBounded, Zenon DEF Populated, Disk, Typed, FilesTyped
<1>7. Running(hi)'
  BY <1>1, <1>2, <1>3, <1>5, <1>6 DEF Running, End, Unsealed, Stable, contents, meta
<1>8. Writer(lo, hi)'
  BY <1>1, <1>2, <1>7, Zenon DEF Writer, Recovering, Creating, StableLines, meta
<1>9. SealedTrue(hi)'
  BY <1>1, Zenon DEF Populated, SealedTrue, True, End, Unsealed, contents, meta
<1> QED BY <1>4, <1>8, <1>9, Zenon DEF Populated

\* Close keeps the invariant.
LEMMA CloseStep ==
  ASSUME Typed, NEW lo \in Seqs, NEW hi \in Seqs, NEW nlo \in Seqs, NEW nhi \in Seqs \cup {-1},
         Populated(lo, hi, nlo, nhi), Close
  PROVE  Populated(lo, hi, nlo, nhi)' /\ Grows
<1>1. UNCHANGED <<contents, meta, synced, named>> /\ pc = "idle" /\ CloseWriter
  BY Zenon DEF Close
<1>2. Disk(lo, hi, nlo, nhi)' /\ Grows
  BY <1>1, DiskSame, Zenon DEF Populated
<1>3. /\ active.start = base[hi] /\ head = base[hi] + Len(recs[hi]) /\ durable <= Stable(hi)
      /\ Len(recs[hi]) \in Nat /\ base[hi] \in Nat /\ durable \in Nat /\ reseal = <<>>
      /\ Stable(hi) \in Nat /\ Stable(hi) <= Len(recs[hi]) /\ StableLines = Len(manifest)
  BY <1>1, RunningFacts, Zenon DEF Appending
<1>4. CASE Pending
  <2>1. /\ pc' = "sync" /\ goal' = "close"
        /\ UNCHANGED <<active, head, durable, nextSeq, sealed, reseal>>
    BY <1>1, <1>4, Zenon DEF CloseWriter
  <2>2. Running(hi)'
    BY <1>1, <2>1, Zenon DEF Populated, Writer, Running, Appending, End, Unsealed, Stable, contents, meta
  <2>3. Writer(lo, hi)'
    BY <1>1, <1>3, <2>1, <2>2, Zenon DEF Writer, Recovering, Creating, StableLines, meta
  <2>4. SealedTrue(hi)'
    BY <1>1, <2>1, Zenon DEF Populated, SealedTrue, True, End, Unsealed, contents, meta
  <2> QED BY <1>2, <2>3, <2>4, Zenon DEF Populated
<1>5. CASE ~Pending
  <2>1. Stable(hi) = Len(recs[hi])
    BY <1>3, <1>5 DEF Pending
  <2>2. \A s \in Seqs : Stable(s)' = Len(recs'[s])
    BY <1>1, <2>1, OthersStable, Zenon DEF Populated, Disk, Stable, contents
  <2>3. StableLines' = Len(manifest')
    BY <1>1, <1>3, Zenon DEF StableLines, meta
  <2>4. Writer(lo, hi)' /\ SealedTrue(hi)'
    BY <1>1, <1>5, <2>2, <2>3, ExitStep, Zenon DEF CloseWriter
  <2> QED BY <1>2, <2>4, Zenon DEF Populated
<1> QED BY <1>4, <1>5, Zenon

\* Retention takes the lowest file, and never the last one.
LEMMA ReapOneStep ==
  ASSUME Typed, NEW lo \in Seqs, NEW hi \in Seqs, NEW nlo \in Seqs, NEW nhi \in Seqs \cup {-1},
         Populated(lo, hi, nlo, nhi), ReapOne
  PROVE  lo + 1 \in Seqs /\ Populated(lo + 1, hi, nlo, nhi)' /\ Grows
<1>1. /\ UNCHANGED <<recs, hdr, base, meta, synced, named, pc, caller, goal, active, head, durable,
                     nextSeq, reseal>>
      /\ pc = "reap"
  BY Zenon DEF ReapOne
<1>2. PICK seg \in Candidates : /\ Oldest(seg) /\ onDisk' = onDisk \ {seg.seq}
                                /\ sealed' = sealed \ {seg}
  BY Zenon DEF ReapOne
<1>3. nhi = hi /\ active.seq = hi
  BY <1>1, RunningFacts, Zenon DEF Appending
<1>4. /\ lo \in onDisk /\ lo <= hi
      /\ \A s : s \in onDisk <=> s \in Seqs /\ lo <= s /\ s <= hi
  BY SpanEnds, Zenon DEF Populated, Disk
<1>5. seg \in sealed /\ seg.seq \in onDisk /\ seg.seq < hi /\ seg.seq \in Seqs /\ lo <= seg.seq /\ lo < hi
  BY <1>3, <1>4 DEF Candidates, Seqs
<1>6. seg.seq = lo
  <2>1. PICK low \in sealed : low.seq = lo
    BY <1>1, <1>4, <1>5, Zenon DEF Populated, SealedTrue
  <2>2. low \in Candidates
    BY <1>3, <1>4, <1>5, <2>1 DEF Candidates, Seqs
  <2>3. seg.start <= low.start
    BY <1>2, <2>2, Zenon DEF Oldest
  <2>4. low.start = base[lo] /\ low.start < End(lo) /\ seg.start = base[seg.seq]
    BY <1>5, <2>1, Zenon DEF Populated, SealedTrue, True
  <2>5. lo < seg.seq => End(lo) <= base[seg.seq]
    BY <1>5 DEF Populated, Disk, Chain, Seqs
  <2>6. base[lo] \in Nat /\ End(lo) \in Nat /\ base[seg.seq] \in Nat
    BY <1>5, SMTT(60) DEF End, Typed, FilesTyped
  <2> QED BY <1>5, <2>3, <2>4, <2>5, <2>6 DEF Seqs
<1>7. lo + 1 \in Seqs /\ onDisk' = (lo + 1)..hi /\ lo + 1 <= hi
  <2>1. lo + 1 \in Seqs /\ lo + 1 <= hi
    BY <1>5, BoundsAssumption DEF Seqs
  <2>2. onDisk' = (lo..hi) \ {lo}
    BY <1>2, <1>6, Zenon DEF Populated, Disk, Span
  <2>3. (lo..hi) \ {lo} = (lo + 1)..hi
    BY DEF Seqs
  <2> QED BY <2>1, <2>2, <2>3, Zenon
<1>8. Span(lo + 1, hi, nlo, nhi)'
  BY <1>1, <1>3, <1>7 DEF Populated, Disk, Span, Seqs
<1>9. (Chain(hi) /\ Lines(hi) /\ HeadTrue(nhi))'
  BY <1>1, ZenonT(60) DEF Populated, Disk, Chain, Lines, HeadTrue, True, End, Stable, StableLines, meta
<1>10. Grows
  BY <1>1, StableBounded DEF Populated, Disk, Grows, Stable
<1>11. Running(hi)'
  BY <1>1, Zenon DEF Populated, Writer, Running, Appending, End, Unsealed, Stable, meta
<1>12. Writer(lo + 1, hi)'
  BY <1>1, <1>11, Zenon DEF Populated, Writer, Recovering, Creating, StableLines, meta
<1>13. SealedTrue(hi)'
  BY <1>1, <1>2, Zenon DEF Populated, SealedTrue, True, End, Unsealed, meta
<1> QED BY <1>7, <1>8, <1>9, <1>10, <1>12, <1>13, Zenon DEF Populated, Disk

\* A killed process leaves the kernel everything it wrote: without power cuts
\* all of it is stable.
LEMMA KillStep ==
  ASSUME Typed, CleanFaults, NEW lo \in Seqs, NEW hi \in Seqs, NEW nlo \in Seqs,
         NEW nhi \in Seqs \cup {-1}, Populated(lo, hi, nlo, nhi), Kill
  PROVE  Populated(lo, hi, nlo, nhi)' /\ Grows
<1>1. ~OnlySynced /\ "torn" \notin Faults
  BY Zenon DEF Kill, CleanFaults, OnlySynced
<1>2. UNCHANGED <<onDisk, recs, hdr, base, manifest, manSynced, synced, named>> /\ Exit
  BY <1>1, Zenon DEF Kill, HalfDone
<1>3. (\A s \in Seqs : Stable(s) = Len(recs[s]))' /\ (StableLines = Len(manifest))'
  BY <1>1, Zenon DEF Stable, StableLines
<1>4. Writer(lo, hi)' /\ SealedTrue(hi)'
  BY <1>2, <1>3, ExitStep, Zenon
<1>5. (Span(lo, hi, nlo, nhi) /\ Chain(hi) /\ Lines(hi))'
  BY <1>2, Zenon DEF Populated, Disk, Span, Chain, Lines, True, End, Stable, StableLines
<1>6. Grows
  BY <1>2, StableBounded DEF Populated, Disk, Grows, Stable
<1>7. HeadTrue(nhi)'
  <2>1. CASE headFile' = headFile
    BY <1>2, <2>1, Zenon DEF Populated, Disk, HeadTrue, Stable
  <2>2. CASE pc = "publish" /\ headFile' = HeadNow
    BY <1>2, <2>2, HeadNowTrue, ZenonT(60)
  <2> QED BY <2>1, <2>2, Zenon DEF Kill, HalfDone
<1> QED BY <1>4, <1>5, <1>6, <1>7, Zenon DEF Populated, Disk
\* The files after a power cut are again an interval: the newest may be gone,
\* some that retention took may be back.
LEMMA PowerCutFiles ==
  ASSUME NEW lo \in Seqs, NEW hi \in Seqs, NEW nlo \in Seqs, NEW nhi \in Seqs \cup {-1},
         Span(lo, hi, nlo, nhi), NEW k \in 0..(MaxSeq + 1), NEW lost \in SUBSET (onDisk \ named),
         onDisk' = (onDisk \ lost) \cup {s \in named \ onDisk : s >= k}
  PROVE  \/ onDisk' = {} /\ hi = 0 /\ nhi = -1
         \/ \E low \in Seqs, top \in Seqs :
              onDisk' = low..top /\ low <= top /\ (top = hi \/ (top = hi - 1 /\ nhi = hi - 1))
<1>1. /\ onDisk = lo..hi /\ lo <= hi /\ named = nlo..nhi /\ nlo <= lo
      /\ nhi \in {hi - 1, hi} /\ (lo <= nhi \/ (hi = 0 /\ nlo = 0))
  BY Zenon DEF Span
<1>2. \A s \in onDisk \ named : s = hi /\ nhi = hi - 1
  BY <1>1 DEF Seqs
<1>3. lost = {} \/ (lost = {hi} /\ nhi = hi - 1)
  BY <1>2, Zenon
<1>4. \A s : s \in named \ onDisk <=> s \in nlo..(lo - 1)
  BY <1>1 DEF Seqs
<1> DEFINE low == IF k >= lo THEN lo ELSE IF k <= nlo THEN nlo ELSE k
<1>5. low \in Seqs /\ low <= lo /\ nlo <= low
  BY <1>1, BoundsAssumption DEF Seqs
<1>6. {s \in named \ onDisk : s >= k} = low..(lo - 1)
  BY <1>1, <1>4 DEF Seqs
<1> HIDE DEF low
<1>7. CASE lost = {}
  <2>1. onDisk' = low..hi
    BY <1>1, <1>5, <1>6, <1>7 DEF Seqs
  <2> QED BY <1>1, <1>5, <2>1 DEF Seqs
<1>8. CASE lost = {hi} /\ nhi = hi - 1 /\ lo <= nhi
  <2>1. onDisk' = low..(hi - 1)
    BY <1>1, <1>5, <1>6, <1>8 DEF Seqs
  <2>2. hi - 1 \in Seqs /\ low <= hi - 1
    BY <1>1, <1>5, <1>8 DEF Seqs
  <2> QED BY <1>5, <1>8, <2>1, <2>2, Zenon
<1>9. CASE lost = {hi} /\ nhi = hi - 1 /\ hi = 0 /\ nlo = 0
  <2>1. onDisk = {0} /\ named = {}
    BY <1>1, <1>9 DEF Seqs
  <2> QED BY <1>9, <2>1
<1> QED BY <1>1, <1>3, <1>7, <1>8, <1>9, Zenon

\* A power cut keeps the invariant: only unstable records and names are lost.
LEMMA PowerCutStep ==
  ASSUME Typed, CleanFaults, NEW lo \in Seqs, NEW hi \in Seqs, NEW nlo \in Seqs,
         NEW nhi \in Seqs \cup {-1}, Populated(lo, hi, nlo, nhi), PowerCut
  PROVE  Core' /\ Grows
<1>1. OnlySynced /\ "torn" \notin Faults /\ Exit /\ UNCHANGED <<hdr, base>> /\ named' = onDisk'
  BY Zenon DEF PowerCut, CleanFaults, OnlySynced
<1>2. \A s \in Seqs : /\ recs[s] \in Seq(Packets) /\ Len(recs[s]) \in Nat
                      /\ Stable(s) = synced[s] /\ synced[s] \in Nat /\ synced[s] <= Len(recs[s])
  BY <1>1 DEF Stable, Typed, FilesTyped, Populated, Disk, Chain
<1>3. PICK keep \in [{s \in onDisk : synced[s] < Len(recs[s])} -> 0..MaxPackets] :
       /\ \A s \in DOMAIN keep : keep[s] \in synced[s]..Len(recs[s])
       /\ recs' = [s \in Seqs |-> IF s \in DOMAIN keep THEN SubSeq(recs[s], 1, keep[s])
                                                       ELSE recs[s]]
  BY Zenon DEF PowerCut
<1>4. \A s \in Seqs : s # hi => recs'[s] = recs[s]
  <2>1. \A s \in Seqs : s # hi => synced[s] = Len(recs[s])
    BY <1>2, OthersStable, Zenon DEF Populated, Disk
  <2> QED BY <1>2, <1>3, <2>1
<1>5. /\ Len(recs'[hi]) \in Nat /\ synced[hi] <= Len(recs'[hi])
      /\ \A i \in 1..synced[hi] : recs'[hi][i] = recs[hi][i]
      /\ (synced[hi] = Len(recs[hi]) => recs'[hi] = recs[hi])
      /\ recs[hi] = <<>> => recs'[hi] = <<>>
  <2>1. CASE hi \in DOMAIN keep
    <3>1. recs'[hi] = SubSeq(recs[hi], 1, keep[hi]) /\ keep[hi] \in synced[hi]..Len(recs[hi])
      BY <1>3, <2>1, Zenon
    <3>2. synced[hi] < Len(recs[hi])
      BY <1>3, <2>1, Zenon
    <3>3. recs[hi] \in Seq(Packets) /\ keep[hi] \in 0..Len(recs[hi])
      BY <1>2, <3>1
    <3>4. /\ Len(SubSeq(recs[hi], 1, keep[hi])) = keep[hi]
          /\ \A i \in 1..keep[hi] : SubSeq(recs[hi], 1, keep[hi])[i] = recs[hi][i]
      BY <3>3
    <3> QED BY <1>2, <3>1, <3>2, <3>4
  <2>2. CASE hi \notin DOMAIN keep
    <3>1. recs'[hi] = recs[hi]
      BY <1>3, <2>2, Zenon
    <3> QED BY <1>2, <3>1, Zenon
  <2> QED BY <2>1, <2>2, Zenon
<1>6. \A s \in Seqs : synced'[s] = Len(recs'[s])
  BY Zenon DEF PowerCut
<1>7. (\A s \in Seqs : Stable(s) = Len(recs[s]))'
  BY <1>1, <1>6, Zenon DEF Stable
<1>8. Grows
  <2> SUFFICES ASSUME NEW s \in Seqs
               PROVE  /\ base'[s] = base[s] /\ Stable(s)' >= Stable(s)
                      /\ \A i \in 1..Stable(s) : recs'[s][i] = recs[s][i]
    BY Zenon DEF Grows
  <2>1. Stable(s) = synced[s] /\ Stable(s)' = Len(recs'[s])
    BY <1>1, <1>2, <1>6, Zenon DEF Stable
  <2>2. CASE s = hi
    BY <1>1, <1>5, <2>1, <2>2, Zenon
  <2>3. CASE s # hi
    BY <1>1, <1>2, <1>4, <2>1, <2>3, Zenon
  <2> QED BY <2>2, <2>3, Zenon
<1>9. PICK m \in manSynced..Len(manifest) : manifest' = SubSeq(manifest, 1, m)
  BY <1>1, Zenon DEF PowerCut
<1>10. /\ DOMAIN manifest = 1..Len(manifest) /\ Len(manifest) \in Nat
       /\ StableLines \in Nat /\ StableLines <= Len(manifest)
       /\ \A t \in Seqs : ~Unsealed(t) =>
            t \in hdr /\ t <= hi /\ Stable(t) = Len(recs[t]) /\ recs[t] # <<>>
  BY LinesSized, Zenon DEF Populated, Disk
<1>11. /\ Len(manifest') = m /\ m \in Nat /\ DOMAIN manifest' = 1..m /\ StableLines <= m
       /\ \A i \in 1..m : i \in DOMAIN manifest /\ manifest'[i] = manifest[i]
       /\ StableLines' = m /\ manSynced' = m
  <2>1. manifest \in Seq(Segments) /\ manSynced \in Nat /\ m \in 0..Len(manifest) /\ StableLines = manSynced
    BY <1>1, <1>9 DEF Typed, MetaTyped, StableLines
  <2>2. /\ Len(manifest') = m /\ DOMAIN manifest' = 1..m
        /\ \A i \in 1..m : i \in DOMAIN manifest /\ manifest'[i] = manifest[i]
    BY <1>9, <2>1
  <2>3. manSynced' = m
    BY <2>2, Zenon DEF PowerCut
  <2> QED BY <1>1, <1>9, <2>1, <2>2, <2>3 DEF StableLines
<1>12. headFile' = headFile \/ ~headFile'.ok
  BY DEF PowerCut, Unparsable
<1>13. \/ onDisk' = {} /\ hi = 0 /\ nhi = -1
       \/ \E low \in Seqs, top \in Seqs :
            onDisk' = low..top /\ low <= top /\ (top = hi \/ (top = hi - 1 /\ nhi = hi - 1))
  BY PowerCutFiles, ZenonT(60) DEF PowerCut, Populated, Disk
<1>14. nhi = hi - 1 => recs[hi] = <<>> /\ recs'[hi] = <<>>
  BY <1>5, Zenon DEF Populated, Disk, Span
<1>15. ASSUME onDisk' = {}, hi = 0, nhi = -1 PROVE Empty'
  <2>1. recs[0] = <<>> /\ recs'[0] = <<>>
    BY <1>14, <1>15
  <2>2. \A s \in Seqs : recs'[s] = <<>> /\ recs[s] = <<>>
    BY <1>4, <1>15, <2>1 DEF Populated, Disk, Chain, Seqs
  <2>3. \A s \in Seqs : synced'[s] = 0
    BY <1>6, <2>2, Zenon
  <2>4. Len(manifest) = 0
    <3>1. \A s \in Seqs : Unsealed(s)
      BY <1>10, <2>2, Zenon
    <3>2. \A i \in DOMAIN manifest : manifest[i].seq \in Seqs
      BY LinesSized, Zenon DEF Populated, Disk
    <3>3. 1 \notin DOMAIN manifest
      BY <3>1, <3>2, Zenon DEF Unsealed
    <3> QED BY <1>10, <3>3
  <2>5. manifest' = <<>> /\ manSynced' = 0
    <3>1. m = 0 /\ manifest = <<>>
      BY <1>9, <1>10, <2>4 DEF Typed, MetaTyped
    <3> QED BY <1>9, <1>11, <3>1
  <2>6. ~headFile'.ok
    <3>1. headFile.ok => headFile.seq \in Seqs /\ headFile.seq <= -1
      BY <1>15, Zenon DEF Populated, Disk, HeadTrue, Typed, MetaTyped, Segments
    <3> QED BY <1>12, <3>1 DEF Seqs
  <2> QED BY <1>1, <1>15, <2>2, <2>3, <2>5, <2>6, Zenon DEF Empty, Exit
<1>16. ASSUME NEW low \in Seqs, NEW top \in Seqs, onDisk' = low..top, low <= top,
              top = hi \/ (top = hi - 1 /\ nhi = hi - 1)
       PROVE  Populated(low, top, low, top)'
  <2>1. top <= hi /\ (top # hi => recs[hi] = <<>> /\ recs'[hi] = <<>> /\ top = hi - 1)
    BY <1>14, <1>16 DEF Seqs
  <2>2. Span(low, top, low, top)'
    BY <1>1, <1>16, BoundsAssumption DEF Span, Seqs
  <2>3. Chain(top)'
    <3>1. (\A s, t \in Seqs : s < t /\ t <= top => End(s) <= base[t])'
      <4>1. \A s, t \in Seqs : s < t /\ t <= top => t <= hi /\ s # hi
        BY <2>1 DEF Seqs
      <4> QED BY <1>1, <1>4, <4>1, Zenon DEF Populated, Disk, Chain, End
    <3>2. (\A s \in Seqs : s + 1 \in Seqs /\ s < top => base[s + 1] = End(s))'
      <4>1. \A s \in Seqs : s < top => s < hi /\ s # hi
        BY <2>1 DEF Seqs
      <4> QED BY <1>1, <1>4, <4>1, Zenon DEF Populated, Disk, Chain, End
    <3>3. \A s \in Seqs : s > top => recs'[s] = <<>>
      <4>1. \A s \in Seqs : s > top => s > hi \/ (s = hi /\ top # hi)
        BY <1>16, <2>1, SMT DEF Seqs
      <4> QED BY <1>4, <2>1, <4>1, Zenon DEF Populated, Disk, Chain
    <3>4. \A s \in Seqs : s < top => recs'[s] # <<>> /\ s \in hdr'
      <4>1. \A s \in Seqs : s < top => s < hi /\ s # hi
        BY <2>1 DEF Seqs
      <4> QED BY <1>1, <1>4, <4>1, Zenon DEF Populated, Disk, Chain
    <3>5. \A s \in Seqs : synced'[s] <= Len(recs'[s])
      BY <1>2, <1>4, <1>5, <1>6
    <3> QED BY <1>7, <3>1, <3>2, <3>3, <3>4, <3>5, Zenon DEF Chain
  <2>4. Lines(top)'
    <3>1. \A t \in Seqs : ~Unsealed(t) =>
             /\ base'[t] = base[t] /\ recs'[t] = recs[t] /\ t \in hdr' /\ t <= top
      <4> SUFFICES ASSUME NEW t \in Seqs, ~Unsealed(t)
                   PROVE  base'[t] = base[t] /\ recs'[t] = recs[t] /\ t \in hdr' /\ t <= top
        OBVIOUS
      <4>1. t \in hdr /\ t <= hi /\ Stable(t) = Len(recs[t]) /\ recs[t] # <<>>
        BY <1>10, Zenon
      <4>2. recs'[t] = recs[t]
        BY <1>2, <1>4, <1>5, <4>1, ZenonT(60)
      <4>3. t <= top
        BY <2>1, <4>1, SMTT(60) DEF Seqs
      <4> QED BY <1>1, <4>1, <4>2, <4>3, ZenonT(60)
    <3>2. \A s \in Seqs : s < top => s < hi
      BY <2>1 DEF Seqs
    <3>3. \A t \in Seqs : Stable(t)' = Len(recs'[t])
      BY <1>7, Zenon
    <3>4. manSynced' <= Len(manifest') /\ StableLines' \in Nat /\ StableLines <= StableLines'
          /\ StableLines' <= Len(manifest') /\ Len(manifest') \in Nat
          /\ DOMAIN manifest' = 1..Len(manifest')
      BY <1>11
    <3>5. \A i \in DOMAIN manifest' : i \in DOMAIN manifest /\ manifest'[i] = manifest[i]
      BY <1>11, Zenon
    <3> QED BY <1>10, <3>1, <3>2, <3>3, <3>4, <3>5, LinesKept, Zenon DEF Populated, Disk
  <2>5. HeadTrue(top)'
    <3>1. CASE ~headFile'.ok
      BY <3>1, Zenon DEF HeadTrue
    <3>2. CASE headFile' = headFile /\ headFile.ok
      <4>1. /\ headFile.seq \in Seqs /\ headFile.end \in Nat /\ headFile.seq <= nhi
            /\ headFile.start = base[headFile.seq]
            /\ headFile.end <= base[headFile.seq] + synced[headFile.seq]
        BY <1>2, <3>2, Zenon DEF Populated, Disk, HeadTrue, Typed, MetaTyped, Segments
      <4>2. headFile.seq <= top
        BY <1>16, <4>1 DEF Populated, Disk, Span, Seqs
      <4>3. synced[headFile.seq] <= synced'[headFile.seq] /\ synced'[headFile.seq] \in Nat
        <5>1. CASE headFile.seq = hi
          BY <1>5, <1>6, <5>1, Zenon
        <5>2. CASE headFile.seq # hi
          BY <1>2, <1>4, <1>6, <4>1, <5>2, ZenonT(60)
        <5> QED BY <5>1, <5>2, Zenon
      <4>4. synced[headFile.seq] \in Nat /\ base[headFile.seq] \in Nat
        BY <1>2, <4>1, Zenon DEF Typed, FilesTyped
      <4> QED BY <1>1, <3>2, <4>1, <4>2, <4>3, <4>4 DEF HeadTrue, Stable
    <3> QED BY <1>12, <3>1, <3>2, Zenon
  <2>6. Writer(low, top)' /\ SealedTrue(top)'
    <3>1. \A s \in Seqs : Stable(s)' = Len(recs'[s])
      BY <1>7, Zenon
    <3>2. StableLines' = Len(manifest')
      BY <1>11, Zenon
    <3> QED BY <1>1, <3>1, <3>2, ExitStep, Zenon
  <2> QED BY <2>2, <2>3, <2>4, <2>5, <2>6, Zenon DEF Populated, Disk
<1>17. CASE onDisk' = {} /\ hi = 0 /\ nhi = -1
  BY <1>8, <1>15, <1>17, Zenon DEF Core
<1>18. CASE \E low \in Seqs, top \in Seqs :
              onDisk' = low..top /\ low <= top /\ (top = hi \/ (top = hi - 1 /\ nhi = hi - 1))
  <2>1. PICK low \in Seqs, top \in Seqs :
              onDisk' = low..top /\ low <= top /\ (top = hi \/ (top = hi - 1 /\ nhi = hi - 1))
    BY <1>18, Zenon
  <2>2. Populated(low, top, low, top)'
    BY <1>16, <2>1, Zenon
  <2> QED BY <1>8, <2>2, Zenon DEF Core
<1> QED BY <1>13, <1>17, <1>18, Zenon

-----------------------------------------------------------------------------
(* Before the first file, and the invariant as a whole.                    *)

\* Every step of a spool without a file keeps the invariant or makes the first file.
LEMMA EmptyStep ==
  ASSUME Typed, CleanFaults, Empty, Step
  PROVE  Core' /\ Grows
<1>1. /\ onDisk = {} /\ named = {} /\ manifest = <<>> /\ manSynced = 0 /\ ~headFile.ok
      /\ sealed = {} /\ reseal = <<>> /\ active = NoSegment /\ pc \in {"down", "open", "create"}
      /\ pc # "down" => head = 0 /\ nextSeq = (IF pc = "open" THEN 0 ELSE 1)
      /\ \A s \in Seqs : recs[s] = <<>> /\ synced[s] = 0
  BY Zenon DEF Empty
<1>2. \A s \in Seqs : ~(Stable(s) > 0)
  BY <1>1 DEF Stable
<1>3. Grows
  BY <1>2, Zenon DEF Grows
<1>4. "torn" \notin Faults /\ "io" \notin Faults
  BY Zenon DEF CleanFaults
<1>5. loadManifest = {}
  BY <1>1 DEF loadManifest, ParsedLines
<1>6. CASE RecoverBegin
  <2>1. head' = 0 /\ nextSeq' = 0 /\ pc' = "open"
    BY <1>1, <1>5, <1>6, Zenon DEF RecoverBegin
  <2> QED BY <1>1, <1>3, <1>6, <2>1, Zenon DEF RecoverBegin, Empty, Core, contents, meta
<1>7. CASE OpenManifest
  BY <1>1, <1>3, <1>7 DEF OpenManifest, AfterReseal, SyncDir, Empty, Core, contents, meta
<1>8. CASE ReaderFlock
  BY <1>1, <1>3, <1>8, Zenon DEF ReaderFlock, Empty, Core, contents, meta, procVars
<1>9. CASE Kill
  BY <1>1, <1>3, <1>4, <1>9, Zenon DEF Kill, HalfDone, Exit, Empty, Core
<1>10. CASE PowerCut
  <2>1. onDisk' = {} /\ named' = {}
    BY <1>1, <1>10, Zenon DEF PowerCut
  <2>2. manifest' = <<>> /\ manSynced' = 0
    <3>1. manifest' = SubSeq(manifest, 1, 0)
      BY <1>1, <1>4, <1>10 DEF PowerCut
    <3> QED BY <1>1, <1>10, <3>1 DEF PowerCut
  <2>3. \A s \in Seqs : recs'[s] = <<>> /\ synced'[s] = 0
    <3>1. recs' = recs
      BY <1>1, <1>10, Zenon DEF PowerCut, Typed, FilesTyped
    <3> QED BY <1>1, <1>10, <3>1, Zenon DEF PowerCut
  <2>4. ~headFile'.ok
    BY <1>1, <1>10 DEF PowerCut, Unparsable
  <2> QED BY <1>3, <1>10, <2>1, <2>2, <2>3, <2>4, Zenon DEF PowerCut, Exit, Empty, Core
<1>11. CASE CreateFile
  <2>1. pc = "create" /\ nextSeq = 1 /\ head = 0 /\ 0 \in Seqs
    BY <1>1, <1>11, BoundsAssumption DEF CreateFile, Seqs
  <2>2. /\ onDisk' = {0} /\ hdr' = hdr \ {0} /\ pc' = "header"
        /\ recs' = [recs EXCEPT ![0] = <<>>]
        /\ base' = [base EXCEPT ![0] = 0]
        /\ synced' = [synced EXCEPT ![0] = 0]
        /\ UNCHANGED <<meta, named, active, head, nextSeq, sealed, reseal>>
    BY <1>1, <1>11, <2>1 DEF CreateFile
  <2>3. (\A s \in Seqs : recs[s] = <<>> /\ synced[s] = 0 /\ Stable(s) = 0)' /\ base'[0] = 0
    BY <1>1, <2>1, <2>2, Zenon DEF Stable, Typed, FilesTyped
  <2>4. Span(0, 0, 0, -1)'
    BY <1>1, <2>1, <2>2, <2>3 DEF Span
  <2>5. Chain(0)'
    BY <2>1, <2>3 DEF Chain, Seqs
  <2>6. Lines(0)' /\ HeadTrue(-1)' /\ StableLines' = Len(manifest')
    BY <1>1, <2>2 DEF Lines, HeadTrue, StableLines, meta, Seqs
  <2>7. Writer(0, 0)'
    BY <1>1, <2>1, <2>2, <2>3, <2>6 DEF Writer, Recovering, Running, Creating, Appending
  <2>8. SealedTrue(0)'
    BY <1>1, <2>2 DEF SealedTrue
  <2> QED BY <1>3, <2>1, <2>4, <2>5, <2>6, <2>7, <2>8, Zenon DEF Core, Populated, Disk
<1> QED
  BY <1>1, <1>4, <1>6, <1>7, <1>8, <1>9, <1>10, <1>11, Zenon
  DEF Step, Recover, RecoverSealed, RecoverActive, RecoverUnlisted, RecoverUnsealed, RecoverRefuse,
      WritePacket, Tick, Flush, Fdatasync, publishHead, Rotate, SealWrite, SealSync, WriteHeader,
      SwitchActive, Close, Reap, ReapBegin, ReapOne, ReapEnd, Fault, FailCall, FailWrite

\* Every step keeps the invariant.
LEMMA CoreStep ==
  ASSUME Typed, Typed', CleanFaults, OldestAnchored, Core, Step
  PROVE  Core' /\ Grows
<1>1. CASE Empty
  BY <1>1, EmptyStep, Zenon
<1>2. CASE \E lo, hi, nlo \in Seqs, nhi \in Seqs \cup {-1} : Populated(lo, hi, nlo, nhi)
  <2>1. PICK lo \in Seqs, hi \in Seqs, nlo \in Seqs, nhi \in Seqs \cup {-1} :
          Populated(lo, hi, nlo, nhi)
    BY <1>2, Zenon
  <2>2. ASSUME NEW a \in Seqs, NEW b \in Seqs, NEW c \in Seqs, NEW d \in Seqs \cup {-1},
               Populated(a, b, c, d)', Grows
        PROVE  Core' /\ Grows
    BY <2>2, Zenon DEF Core
  <2>3. CASE RecoverBegin
    BY <2>1, <2>2, <2>3, RecoverBeginStep
  <2>4. CASE RecoverSealed
    BY <2>1, <2>2, <2>4, RecoverSealedStep
  <2>5. CASE RecoverActive
    BY <2>1, <2>2, <2>5, RecoverActiveStep
  <2>6. CASE RecoverUnlisted \/ RecoverRefuse
    BY <2>1, <2>6, ScanClean, Zenon
  <2>7. CASE OpenManifest
    BY <2>1, <2>2, <2>7, OpenManifestStep, Zenon
  <2>8. CASE WritePacket
    BY <2>1, <2>2, <2>8, WritePacketStep, SMTT(60)
  <2>9. CASE Tick
    BY <2>1, <2>2, <2>9, TickStep
  <2>10. CASE Fdatasync
    BY <2>1, <2>2, <2>10, FdatasyncStep
  <2>11. CASE publishHead
    BY <2>1, <2>2, <2>11, publishHeadStep, Zenon
  <2>12. CASE SealWrite
    BY <2>1, <2>2, <2>12, SealWriteStep
  <2>13. CASE SealSync
    BY <2>1, <2>2, <2>13, SealSyncStep
  <2>14. CASE CreateFile
    BY <2>1, <2>2, <2>14, CreateFileStep, SMTT(20)
  <2>15. CASE WriteHeader
    BY <2>1, <2>2, <2>15, WriteHeaderStep
  <2>16. CASE SwitchActive
    BY <2>1, <2>2, <2>16, SwitchActiveStep, Zenon
  <2>17. CASE Close
    BY <2>1, <2>2, <2>17, CloseStep
  <2>18. CASE ReapOne
    BY <2>1, <2>2, <2>18, ReapOneStep, ZenonT(60)
  <2>19. CASE ReapBegin \/ ReapEnd \/ ReaderFlock
    BY <2>1, <2>2, <2>19, QuietSteps
  <2>20. CASE Kill
    BY <2>1, <2>2, <2>20, KillStep
  <2>21. CASE PowerCut
    BY <2>1, <2>21, PowerCutStep, Zenon
  <2>22. CASE FailCall \/ FailWrite
    BY <2>22, Zenon DEF FailCall, FailWrite, CleanFaults
  <2> QED
    BY <2>3, <2>4, <2>5, <2>6, <2>7, <2>8, <2>9, <2>10, <2>11, <2>12, <2>13, <2>14, <2>15, <2>16,
       <2>17, <2>18, <2>19, <2>20, <2>21, <2>22, ZenonT(60)
    DEF Step, Recover, Flush, Rotate, Reap, Fault
<1> QED BY <1>1, <1>2, Zenon DEF Core
\* What the invariant gives in any state.
SomeChain   == \E hi \in Seqs : Chain(hi)
StableNat   == \A s \in Seqs : Stable(s) \in Nat
VisibleKept == \A x \in Visible : \E s \in Seqs : At(x, s)

\* What the invariant says of the files and of what a reader can be given.
LEMMA CoreFacts == Typed /\ Core => SomeChain /\ StableNat /\ VisibleKept
<1> SUFFICES ASSUME Typed, Core PROVE SomeChain /\ StableNat /\ VisibleKept
  OBVIOUS
<1>1. CASE Empty
  <2>1. 0 \in Seqs /\ \A s \in Seqs : recs[s] = <<>> /\ synced[s] = 0
    BY <1>1, BoundsAssumption DEF Empty, Seqs
  <2>2. Chain(0)
    BY <2>1 DEF Chain, Seqs
  <2>3. StableNat
    BY <2>1 DEF StableNat, Stable
  <2> QED BY <1>1, <2>1, <2>2, <2>3, EmptyInvisible, Zenon DEF SomeChain, VisibleKept
<1>2. CASE \E lo, hi, nlo \in Seqs, nhi \in Seqs \cup {-1} : Populated(lo, hi, nlo, nhi)
  <2>1. PICK lo \in Seqs, hi \in Seqs, nlo \in Seqs, nhi \in Seqs \cup {-1} :
          Populated(lo, hi, nlo, nhi)
    BY <1>2, Zenon
  <2>2. Chain(hi)
    BY <2>1, Zenon DEF Populated, Disk
  <2>3. StableNat
    BY <2>2, StableBounded, Zenon DEF StableNat
  <2>4. VisibleKept
    BY <2>1, VisibleAt, Zenon DEF VisibleKept
  <2> QED BY <2>2, <2>3, <2>4, Zenon DEF SomeChain
<1> QED BY <1>1, <1>2, Zenon DEF Core

\* The same of the state after a step.
LEMMA CoreFactsPrime == (Typed /\ Core => SomeChain /\ StableNat /\ VisibleKept)'
BY CoreFacts, PTL

\* The inductive invariant holds initially.
LEMMA IInvInit == Init => IInv
<1> SUFFICES ASSUME Init PROVE IInv
  OBVIOUS
<1>1. Typed
  BY TypedInit, Zenon
<1>2. Empty
  BY Zenon DEF Init, Empty, Unparsable
<1> QED BY <1>1, <1>2, Zenon DEF Init, IInv, AdvertisedTyped, Kept, Core

\* Every step keeps the inductive invariant.
LEMMA IInvStep == CleanFaults /\ IInv /\ OldestAnchored /\ [Next]_vars => IInv'
<1> SUFFICES ASSUME CleanFaults, IInv, OldestAnchored, [Next]_vars PROVE IInv'
  OBVIOUS
<1>1. Typed'
  BY TypedStep, Zenon DEF IInv
<1>2. CASE Next
  <2>1. Core' /\ Grows
    BY <1>1, <1>2, CoreStep, Zenon DEF IInv, Next, Advertised
  <2>2. SomeChain' /\ StableNat' /\ VisibleKept' /\ StableNat
    BY <1>1, <2>1, CoreFacts, CoreFactsPrime, Zenon DEF IInv
  <2>3. AdvertisedTyped'
    BY <1>1, <1>2, NewVisibleTyped, Zenon DEF IInv, AdvertisedTyped, Next, Advertised, Typed, FilesTyped, MetaTyped
  <2>4. ASSUME NEW x \in advertised' PROVE \E s \in Seqs : At(x, s)'
    <3>1. CASE x \in advertised
      <4>1. PICK s \in Seqs : At(x, s)
        BY <3>1, Zenon DEF IInv, Kept
      <4>2. x[1] \in Nat
        BY <3>1, Zenon DEF IInv, AdvertisedTyped
      <4>3. At(x, s)'
        BY <2>1, <2>2, <4>1, <4>2, KeptStep, Zenon DEF IInv, StableNat
      <4> QED BY <4>3, Zenon
    <3>2. CASE x \in Visible'
      BY <2>2, <3>2, Zenon DEF VisibleKept
    <3> QED BY <1>2, <3>1, <3>2, Zenon DEF Next, Advertised
  <2>5. Kept'
    BY <2>4, Zenon DEF Kept
  <2> QED BY <1>1, <2>1, <2>3, <2>5, Zenon DEF IInv
<1>3. CASE UNCHANGED vars
  <2>1. Core'
    <3>1. CASE Empty
      BY <1>3, <3>1, Zenon DEF Core, Empty, vars, contents, meta, procVars
    <3>2. ASSUME NEW lo \in Seqs, NEW hi \in Seqs, NEW nlo \in Seqs, NEW nhi \in Seqs \cup {-1},
                 Populated(lo, hi, nlo, nhi)
          PROVE  Populated(lo, hi, nlo, nhi)'
      <4>1. Disk(lo, hi, nlo, nhi)'
        BY <1>3, <3>2, DiskSame, Zenon DEF IInv, Populated, vars
      <4>2. Recovering(lo, hi)' /\ Running(hi)' /\ Creating(hi)'
        BY <1>3, <3>2, ZenonT(60) DEF Populated, Writer, Recovering, Running, Creating, Appending,
             Unsealed, Stable, StableLines, End, vars, contents, meta, procVars
      <4>3. Writer(lo, hi)'
        BY <1>3, <3>2, <4>2, Zenon DEF Populated, Writer, StableLines, vars, meta, procVars
      <4>4. SealedTrue(hi)'
        BY <1>3, <3>2, Zenon DEF Populated, SealedTrue, True, End, Unsealed, vars, contents, meta,
             procVars
      <4> QED BY <4>1, <4>3, <4>4, Zenon DEF Populated
    <3> QED BY <3>1, <3>2, ZenonT(30) DEF IInv, Core
  <2>2. Kept' /\ AdvertisedTyped'
    BY <1>3, Zenon DEF IInv, Kept, AdvertisedTyped, At, Stable, vars, contents
  <2> QED BY <1>1, <2>1, <2>2, ZenonT(60) DEF IInv
<1> QED BY <1>2, <1>3, Zenon

\* No gpidx is ever given to two packets, whatever the bounds, if the process is
\* only ever killed or the power only ever cut (not both), and retention never
\* leaves a file without an anchor as the oldest (recoverSpool, rotate, Reap).
THEOREM IdentityHolds == CleanFaults => (Spec /\ []OldestAnchored => []OneIdentity)
<1> SUFFICES ASSUME CleanFaults PROVE Spec /\ []OldestAnchored => []OneIdentity
  OBVIOUS
<1>1. IInv /\ OldestAnchored /\ [Next]_vars => IInv'
  BY IInvStep, Zenon
<1>2. IInv => OneIdentity
  <2> SUFFICES ASSUME IInv, NEW x \in advertised, NEW y \in advertised, x[1] = y[1]
               PROVE  x[2] = y[2]
    BY Zenon DEF OneIdentity
  <2>1. PICK hi \in Seqs : Chain(hi)
    BY CoreFacts, Zenon DEF IInv, SomeChain
  <2>2. PICK s \in Seqs : At(x, s)
    BY Zenon DEF IInv, Kept
  <2>3. PICK t \in Seqs : At(y, t)
    BY Zenon DEF IInv, Kept
  <2>4. x[1] \in Nat
    BY Zenon DEF IInv, AdvertisedTyped
  <2>5. s = t
    BY <2>1, <2>2, <2>3, <2>4, Disjoint, Zenon DEF IInv
  <2> QED BY <2>2, <2>3, <2>5, Zenon DEF At
<1> QED BY <1>1, <1>2, IInvInit, PTL DEF Spec

\* Recovery never refuses the directory the writer and the crashes have left.
THEOREM NeverRefusesHolds == CleanFaults => (Spec /\ []OldestAnchored => []NeverRefuses)
<1> SUFFICES ASSUME CleanFaults PROVE Spec /\ []OldestAnchored => []NeverRefuses
  OBVIOUS
<1>1. IInv /\ OldestAnchored /\ [Next]_vars => IInv'
  BY IInvStep, Zenon
<1>2. IInv => NeverRefuses
  BY Zenon DEF IInv, Core, Empty, Populated, Writer, NeverRefuses
<1> QED BY <1>1, <1>2, IInvInit, PTL DEF Spec

\* A reader is only ever shown fdatasync'd records, if the process is not killed:
\* recovery after a kill publishes what the kernel has (scanSegment, publishHead).
THEOREM DurableHolds ==
  CleanFaults /\ "kill" \notin Faults => (Spec /\ []OldestAnchored => []AdvertisedDurable)
<1> SUFFICES ASSUME CleanFaults, "kill" \notin Faults
             PROVE  Spec /\ []OldestAnchored => []AdvertisedDurable
  OBVIOUS
<1>1. IInv /\ OldestAnchored /\ [Next]_vars => IInv'
  BY IInvStep, Zenon
<1>2. IInv => AdvertisedDurable
  <2> SUFFICES ASSUME IInv, NEW seg \in View PROVE seg.end - seg.start <= synced[seg.seq]
    BY Zenon DEF AdvertisedDurable
  <2>1. ~Empty
    BY Zenon DEF Empty, View
  <2>2. PICK lo \in Seqs, hi \in Seqs, nlo \in Seqs, nhi \in Seqs \cup {-1} :
          Populated(lo, hi, nlo, nhi)
    BY <2>1, Zenon DEF IInv, Core
  <2>3. /\ seg \in Segments /\ seg.start = base[seg.seq]
        /\ seg.end <= base[seg.seq] + synced[seg.seq]
    BY <2>2, ViewTrue, Zenon DEF IInv, Stable, OnlySynced
  <2>4. synced[seg.seq] \in Nat /\ seg.start \in Nat /\ seg.end \in Nat
    BY <2>3, Zenon DEF Segments, IInv, Typed, FilesTyped
  <2> QED BY <2>3, <2>4
<1> QED BY <1>1, <1>2, IInvInit, PTL DEF Spec
-----------------------------------------------------------------------------
(* Nothing vanishes: what the writer has published covers all that was ever *)
(* advertised of the newest file.                                          *)

Shown ==
  pc \in Appending =>
    /\ \A x \in advertised : x[1] < active.start + durable
    /\ headFile.ok /\ headFile.seq = active.seq => headFile.end <= active.start + durable
    /\ pc # "publish" => headFile = HeadNow

\* All that was advertised, and all that head.json says, lies below the end of the
\* newest file.
LEMMA BelowEnd ==
  ASSUME Typed, AdvertisedTyped, Kept, NEW lo \in Seqs, NEW hi \in Seqs, NEW nlo \in Seqs,
         NEW nhi \in Seqs \cup {-1}, Populated(lo, hi, nlo, nhi)
  PROVE  /\ \A x \in advertised : x[1] < End(hi)
         /\ headFile.ok => headFile.end <= End(hi)
<1>1. Chain(hi) /\ HeadTrue(nhi) /\ nhi <= hi
  BY DEF Populated, Disk, Span, Seqs
<1>2. \A s \in Seqs : /\ base[s] \in Nat /\ Len(recs[s]) \in Nat
                      /\ Stable(s) \in Nat /\ Stable(s) <= Len(recs[s])
  BY <1>1, StableBounded, SMTT(20) DEF Typed, FilesTyped
<1>3. ASSUME NEW s \in Seqs, s <= hi PROVE base[s] + Stable(s) <= End(hi)
  <2>1. CASE s = hi
    BY <1>2, <2>1 DEF End
  <2>2. CASE s < hi
    <3>1. End(s) <= base[hi]
      BY <1>1, <2>2 DEF Chain, Seqs
    <3> QED BY <1>2, <3>1 DEF End
  <2> QED BY <1>3, <2>1, <2>2 DEF Seqs
<1>4. ASSUME NEW x \in advertised PROVE x[1] < End(hi)
  <2>1. PICK s \in Seqs : At(x, s)
    BY Zenon DEF Kept
  <2>2. x[1] \in Nat /\ base[s] <= x[1] /\ x[1] < base[s] + Stable(s)
    BY <2>1, Zenon DEF At, AdvertisedTyped
  <2>3. Len(recs[s]) # 0
    BY <1>2, <2>2
  <2>4. s <= hi
    <3>1. s > hi => recs[s] = <<>>
      BY <1>1, Zenon DEF Chain
    <3> QED BY <2>3, <3>1 DEF Seqs
  <2>5. base[s] + Stable(s) <= End(hi)
    BY <1>3, <2>4, Zenon
  <2> QED BY <1>2, <2>2, <2>5 DEF End
<1>5. ASSUME headFile.ok PROVE headFile.end <= End(hi)
  <2>1. /\ headFile.seq \in Seqs /\ headFile.end \in Nat /\ headFile.seq <= nhi
        /\ headFile.end <= base[headFile.seq] + Stable(headFile.seq)
    BY <1>1, <1>5, Zenon DEF HeadTrue, Typed, MetaTyped, Segments
  <2>2. headFile.seq <= hi
    BY <1>1, <2>1 DEF Seqs
  <2>3. base[headFile.seq] + Stable(headFile.seq) <= End(hi)
    BY <1>3, <2>1, <2>2, Zenon
  <2> QED BY <1>2, <2>1, <2>3 DEF End
<1> QED BY <1>4, <1>5, Zenon

\* What a reader can be given ends where the durable extent of the active file does.
LEMMA VisibleShown ==
  ASSUME Typed, NEW lo \in Seqs, NEW hi \in Seqs, NEW nlo \in Seqs, NEW nhi \in Seqs \cup {-1},
         Populated(lo, hi, nlo, nhi), pc \in Appending,
         headFile.ok /\ headFile.seq = active.seq => headFile.end <= active.start + durable
  PROVE  \A x \in Visible : x[1] < active.start + durable
<1>1. /\ nhi = hi /\ active.seq = hi /\ active.start = base[hi] /\ durable \in Nat
      /\ pc # "sealsync" => Unsealed(hi)
      /\ base[hi] \in Nat
  BY RunningFacts, Zenon
<1>2. Chain(hi) /\ Lines(hi) /\ HeadTrue(nhi)
  BY Zenon DEF Populated, Disk
<1>3. \A s \in Seqs : /\ base[s] \in Nat /\ Len(recs[s]) \in Nat
                      /\ Stable(s) \in Nat /\ Stable(s) <= Len(recs[s])
  BY <1>2, StableBounded, SMTT(20) DEF Typed, FilesTyped
<1>4. \A s \in Seqs : s < hi => End(s) <= base[hi]
  BY <1>2 DEF Chain, Seqs
<1>5. ASSUME NEW seg \in loadManifest PROVE seg.end <= base[hi] + durable
  <2>1. seg.seq \in Seqs /\ seg.end = End(seg.seq) /\ seg.seq <= hi
    <3>1. PICK i \in DOMAIN manifest : seg = manifest[i]
      BY <1>2, ManifestLoaded, Zenon
    <3> QED BY <1>2, <3>1, LineOf, Zenon DEF Lines, True
  <2>2. CASE seg.seq < hi
    BY <1>1, <1>3, <1>4, <2>1, <2>2, SMTT(20) DEF End
  <2>3. CASE seg.seq = hi
    <3>1. pc = "sealsync"
      BY <1>1, <1>2, <2>3, LineOf, Zenon
    <3>2. durable = Len(recs[hi])
      BY <3>1, Zenon DEF Populated, Writer, Running
    <3> QED BY <2>1, <2>3, <3>2, <1>1, <1>3 DEF End
  <2> QED BY <2>1, <2>2, <2>3 DEF Seqs
<1>6. ASSUME headFile.ok PROVE headFile.end <= base[hi] + durable
  <2>1. /\ headFile.seq \in Seqs /\ headFile.end \in Nat /\ headFile.seq <= hi
        /\ headFile.end <= base[headFile.seq] + Stable(headFile.seq)
    BY <1>1, <1>2, <1>6, Zenon DEF HeadTrue, Typed, MetaTyped, Segments
  <2>2. CASE headFile.seq = hi
    BY <1>1, <1>6, <2>2
  <2>3. CASE headFile.seq < hi
    <3>1. End(headFile.seq) <= base[hi]
      BY <1>4, <2>1, <2>3, Zenon
    <3> QED BY <1>1, <1>3, <2>1, <3>1, SMTT(20) DEF End
  <2> QED BY <2>1, <2>2, <2>3 DEF Seqs
<1> SUFFICES ASSUME NEW x \in Visible PROVE x[1] < base[hi] + durable
  BY <1>1, Zenon
<1>7. PICK seg \in View :
        \E g \in {n \in seg.start..(seg.end - 1) : n - seg.start < Len(recs[seg.seq])} :
          x = <<g, recs[seg.seq][g - seg.start + 1]>>
  BY Zenon DEF Visible
<1>8. PICK g \in seg.start..(seg.end - 1) : x = <<g, recs[seg.seq][g - seg.start + 1]>>
  BY <1>7, Zenon
<1>9. seg.end <= base[hi] + durable
  BY <1>5, <1>6, Zenon DEF View
<1>10. seg.start \in Nat /\ seg.end \in Nat
  BY ViewTrue, Zenon DEF Segments
<1>11. x[1] = g
  BY <1>8, Zenon
<1> QED BY <1>1, <1>9, <1>10, <1>11

\* Both for whichever files there are.
EndBounds ==
  \A lo, hi, nlo \in Seqs, nhi \in Seqs \cup {-1} : Populated(lo, hi, nlo, nhi) =>
    /\ \A x \in advertised : x[1] < End(hi)
    /\ headFile.ok => headFile.end <= End(hi)
    /\ /\ pc \in Appending
       /\ headFile.ok /\ headFile.seq = active.seq => headFile.end <= active.start + durable
       => \A x \in Visible : x[1] < active.start + durable
    /\ pc \in Appending =>
         /\ active.seq = hi /\ active.start = base[hi] /\ head = End(hi)
         /\ pc \in {"seal", "sealsync"} => durable = Len(recs[hi])

LEMMA EndBoundsHold == IInv => EndBounds
<1> SUFFICES ASSUME IInv, NEW lo \in Seqs, NEW hi \in Seqs, NEW nlo \in Seqs, NEW nhi \in Seqs \cup {-1},
                    Populated(lo, hi, nlo, nhi)
             PROVE  /\ \A x \in advertised : x[1] < End(hi)
                    /\ headFile.ok => headFile.end <= End(hi)
                    /\ /\ pc \in Appending
                       /\ headFile.ok /\ headFile.seq = active.seq => headFile.end <= active.start + durable
                       => \A x \in Visible : x[1] < active.start + durable
                    /\ pc \in Appending =>
                         /\ active.seq = hi /\ active.start = base[hi] /\ head = End(hi)
                         /\ pc \in {"seal", "sealsync"} => durable = Len(recs[hi])
  BY Zenon DEF EndBounds
<1>1. Typed /\ AdvertisedTyped /\ Kept
  BY Zenon DEF IInv
<1>2. (\A x \in advertised : x[1] < End(hi)) /\ (headFile.ok => headFile.end <= End(hi))
  BY <1>1, BelowEnd, Zenon
<1>3. /\ pc \in Appending
      /\ headFile.ok /\ headFile.seq = active.seq => headFile.end <= active.start + durable
      => \A x \in Visible : x[1] < active.start + durable
  BY <1>1, VisibleShown, Zenon
<1>4. pc \in Appending =>
        /\ active.seq = hi /\ active.start = base[hi] /\ head = End(hi)
        /\ pc \in {"seal", "sealsync"} => durable = Len(recs[hi])
  BY <1>1, RunningFacts, Zenon DEF Populated, Writer, Running, End
<1> QED BY <1>2, <1>3, <1>4, Zenon

\* The same of the state after a step.
LEMMA NewEndBounds == (IInv => EndBounds)'
BY EndBoundsHold, PTL

\* Every step keeps it.
LEMMA ShownStep ==
  ASSUME CleanFaults, IInv, IInv', Shown, Next PROVE Shown'
<1> SUFFICES ASSUME pc' \in Appending
             PROVE  /\ \A x \in advertised' : x[1] < active'.start + durable'
                    /\ headFile'.ok /\ headFile'.seq = active'.seq => headFile'.end <= active'.start + durable'
                    /\ pc' # "publish" => headFile' = HeadNow'
  BY Zenon DEF Shown
<1>1. advertised' = advertised \cup Visible'
  BY Zenon DEF Next, Advertised
<1>2. PICK lo \in Seqs, hi \in Seqs, nlo \in Seqs, nhi \in Seqs \cup {-1} : Populated(lo, hi, nlo, nhi)'
  BY Zenon DEF IInv, Core, Empty, Appending
<1>3. /\ \A x \in advertised' : x[1] < End(hi)'
      /\ headFile'.ok => headFile'.end <= End(hi)'
      /\ (headFile'.ok /\ headFile'.seq = active'.seq => headFile'.end <= active'.start + durable')
           => \A x \in Visible' : x[1] < active'.start + durable'
      /\ active'.seq = hi /\ active'.start = base'[hi] /\ head' = End(hi)'
      /\ pc' \in {"seal", "sealsync"} => durable' = Len(recs'[hi])
  BY <1>2, NewEndBounds, Zenon DEF EndBounds
<1>4. base'[hi] \in Nat /\ Len(recs'[hi]) \in Nat /\ durable' \in Nat /\ End(hi)' = base'[hi] + Len(recs'[hi])
  BY DEF IInv, Typed, FilesTyped, MemTyped, End
\* Where all of the newest file is durable there is nothing else to show.
<1>5. ASSUME durable' = Len(recs'[hi]), pc' # "publish" => headFile' = HeadNow'
      PROVE  /\ \A x \in advertised' : x[1] < active'.start + durable'
             /\ headFile'.ok /\ headFile'.seq = active'.seq => headFile'.end <= active'.start + durable'
             /\ pc' # "publish" => headFile' = HeadNow'
  BY <1>3, <1>4, <1>5, Zenon
\* Where neither the active file nor its durable extent changes, the same is shown.
<1>6. ASSUME UNCHANGED <<active, durable>>, pc \in Appending,
             \/ headFile' = headFile /\ (pc' # "publish" => pc # "publish")
             \/ headFile' = HeadNow
      PROVE  /\ \A x \in advertised' : x[1] < active'.start + durable'
             /\ headFile'.ok /\ headFile'.seq = active'.seq => headFile'.end <= active'.start + durable'
             /\ pc' # "publish" => headFile' = HeadNow'
  <2>1. HeadNow' = HeadNow /\ HeadNow.end = active.start + durable
    BY <1>6, Zenon DEF HeadNow, Segment
  <2>2. pc' # "publish" => headFile' = HeadNow'
    BY <1>6, <2>1, Zenon DEF Shown
  <2>3. active.start + durable <= active.start + durable
    BY <1>3, <1>4, <1>6
  <2>4. headFile'.ok /\ headFile'.seq = active'.seq => headFile'.end <= active'.start + durable'
    BY <1>6, <2>1, <2>3, Zenon DEF Shown
  <2>5. \A x \in advertised : x[1] < active'.start + durable'
    BY <1>6, Zenon DEF Shown
  <2> QED BY <1>1, <1>3, <2>2, <2>4, <2>5, Zenon
<1>7. Step
  BY Zenon DEF Next
<1>8. Core
  BY Zenon DEF IInv
<1>9. CASE WritePacket \/ Tick \/ ReapBegin \/ ReapEnd \/ ReapOne \/ ReaderFlock
  BY <1>6, <1>9, Zenon
  DEF WritePacket, Tick, ReapBegin, ReapEnd, ReapOne, ReaderFlock, Appending, meta, procVars
<1>10. CASE Close
  BY <1>6, <1>10, Zenon DEF Close, CloseWriter, Exit, Appending, meta
<1>11. CASE publishHead
  BY <1>6, <1>11, Zenon DEF publishHead, Exit, Appending
<1>12. CASE SealWrite
  <2>1. durable' = Len(recs'[hi])
    BY <1>3, <1>12, Zenon DEF SealWrite
  <2>2. headFile' = HeadNow'
    BY <1>12, Zenon DEF SealWrite, Shown, HeadNow, Segment, Appending
  <2> QED BY <1>5, <2>1, <2>2, Zenon
<1>13. CASE Fdatasync
  <2>1. pc' = "publish" /\ durable' = head' - active'.start
    BY <1>13, Zenon DEF Fdatasync
  <2>2. durable' = Len(recs'[hi])
    BY <1>3, <1>4, <2>1
  <2> QED BY <1>5, <2>1, <2>2, Zenon
<1>14. CASE SwitchActive
  <2>1. pc = "dirsync" /\ pc' = "publish" /\ active'.seq = nextSeq - 1 /\ durable' = 0 /\ recs' = recs
    BY <1>14, Zenon DEF SwitchActive, contents
  <2>2. PICK h \in Seqs : nextSeq = h + 1 /\ recs[h] = <<>>
    BY <1>8, <2>1, Zenon DEF Core, Empty, Populated, Writer, Creating
  <2>3. durable' = Len(recs'[hi])
    BY <1>3, <2>1, <2>2 DEF Seqs
  <2> QED BY <1>5, <2>1, <2>3, Zenon
<1>15. CASE OpenManifest
  <2>1. pc = "open" /\ pc' = AfterReseal(reseal) /\ UNCHANGED <<active, durable, recs>>
    BY <1>15, Zenon DEF OpenManifest, contents
  <2>2. reseal = <<>>
    BY <1>8, Zenon DEF Core, Empty, Populated, Writer
  <2>3. pc' = "publish" /\ active # NoSegment
    BY <2>1, <2>2 DEF AfterReseal, Appending
  <2>4. PICK h \in Seqs : active = [seq |-> h, start |-> base[h]] /\ durable = Len(recs[h])
    BY <1>8, <2>1, <2>3, Zenon DEF Core, Empty, Populated, Writer, Recovering
  <2>5. h = hi
    BY <1>3, <2>1, <2>4, Zenon
  <2> QED BY <1>5, <2>1, <2>3, <2>4, <2>5, Zenon
<1>16. ~SealSync
  <2>1. ASSUME SealSync PROVE pc = "sealsync" /\ (caller # "start" => pc' = "create")
    BY <2>1, Zenon DEF SealSync
  <2>2. pc = "sealsync" => caller # "start"
    BY <1>8, Zenon DEF Core, Empty, Populated, Writer, Running, Appending
  <2> QED BY <2>1, <2>2, Zenon DEF Appending
<1>17. ~(RecoverBegin \/ RecoverSealed \/ RecoverActive \/ RecoverRefuse \/ CreateFile \/ WriteHeader)
  BY DEF RecoverBegin, RecoverSealed, RecoverActive, RecoverRefuse, CreateFile, WriteHeader, Appending
<1>18. ~RecoverUnlisted
  BY Zenon DEF RecoverUnlisted, RecoverUnsealed, Appending
<1>19. ~(Kill \/ PowerCut) /\ ~(FailCall \/ FailWrite)
  BY Zenon DEF Kill, PowerCut, Exit, Appending, FailCall, FailWrite, CleanFaults
<1> QED
  BY <1>7, <1>9, <1>10, <1>11, <1>12, <1>13, <1>14, <1>15, <1>16, <1>17, <1>18, <1>19, Zenon
  DEF Step, Recover, Flush, Rotate, Reap, Fault

\* The line of a file below the newest, or the head for the newest, is in the view.
LEMMA ShownCovers == IInv /\ Shown => NothingVanishes
<1> SUFFICES ASSUME IInv, Shown, pc = "idle", NEW x \in advertised
             PROVE  \/ \A s \in onDisk : x[1] < base[s]
                    \/ \E seg \in View : seg.start <= x[1] /\ x[1] < seg.end
  BY Zenon DEF NothingVanishes
<1>0. Typed /\ AdvertisedTyped
  BY Zenon DEF IInv
<1>1. PICK lo \in Seqs, hi \in Seqs, nlo \in Seqs, nhi \in Seqs \cup {-1} : Populated(lo, hi, nlo, nhi)
  BY Zenon DEF IInv, Core, Empty
<1>2. active.seq = hi /\ active.start = base[hi] /\ Chain(hi) /\ Lines(hi)
  BY <1>0, <1>1, RunningFacts, Zenon DEF Appending, Populated, Disk
<1>3. /\ x[1] < base[hi] + durable
      /\ headFile.ok /\ headFile.seq = hi /\ headFile.start = base[hi] /\ headFile.end = base[hi] + durable
  <2>1. headFile = HeadNow /\ x[1] < base[hi] + durable
    BY <1>2, Zenon DEF Shown, Appending
  <2> QED BY <1>2, <2>1 DEF HeadNow, Segment
<1>4. PICK s \in Seqs : At(x, s)
  BY Zenon DEF IInv, Kept
<1>5. x[1] \in Nat /\ base[s] <= x[1] /\ x[1] < base[s] + Stable(s)
  BY <1>0, <1>4, Zenon DEF At, AdvertisedTyped
<1>6. /\ base[s] \in Nat /\ Len(recs[s]) \in Nat
      /\ Stable(s) \in Nat /\ Stable(s) <= Len(recs[s])
  BY <1>0, <1>2, StableBounded, SMTT(20) DEF Typed, FilesTyped
<1>7. x[1] < End(s) /\ Len(recs[s]) # 0
  BY <1>5, <1>6 DEF End
<1>8. s <= hi
  <2>1. s > hi => recs[s] = <<>>
    BY <1>2, Zenon DEF Chain
  <2> QED BY <1>7, <2>1 DEF Seqs
<1>9. lo \in onDisk /\ hi \in onDisk /\ \A t : t \in onDisk <=> t \in Seqs /\ lo <= t /\ t <= hi
  BY <1>1, SpanEnds, Zenon DEF Populated, Disk
<1>10. CASE s < lo
  <2> SUFFICES ASSUME NEW t \in onDisk PROVE x[1] < base[t]
    BY Zenon
  <2>1. t \in Seqs /\ t <= hi /\ s < t
    BY <1>9, <1>10 DEF Seqs
  <2>2. End(s) <= base[t]
    BY <1>2, <2>1, Zenon DEF Chain
  <2>3. base[t] \in Nat
    BY <1>0, <2>1, Zenon DEF Typed, FilesTyped
  <2> QED BY <1>5, <1>6, <1>7, <2>2, <2>3 DEF End
<1>11. CASE lo <= s /\ s < hi
  <2>1. ~Unsealed(s)
    BY <1>0, <1>2, <1>11, LineOf, Zenon
  <2>2. PICK seg \in loadManifest : seg.seq = s
    BY <1>0, <1>2, <2>1, LineOf, Zenon
  <2>3. True(seg)
    BY <1>0, <1>2, <2>2, LineOf, Zenon
  <2>4. s \in onDisk /\ s # hi
    BY <1>8, <1>9, <1>11 DEF Seqs
  <2>5. seg \in View
    BY <1>3, <2>2, <2>4, Zenon DEF View
  <2> QED BY <1>5, <1>7, <2>2, <2>3, <2>5, Zenon DEF True
<1>12. CASE s = hi
  BY <1>3, <1>5, <1>9, <1>12, Zenon DEF View
<1> QED BY <1>8, <1>10, <1>11, <1>12 DEF Seqs

\* While the writer runs, the view covers all that was ever advertised from the
\* oldest file on: neither a crash, a rotation nor the janitor takes a packet back
\* that a reader was shown, except by unlinking its file (publishHead, rotate, Reap).
THEOREM NothingVanishesHolds == CleanFaults => (Spec /\ []OldestAnchored => []NothingVanishes)
<1> SUFFICES ASSUME CleanFaults PROVE Spec /\ []OldestAnchored => []NothingVanishes
  OBVIOUS
<1>1. IInv /\ OldestAnchored /\ [Next]_vars => IInv'
  BY IInvStep, Zenon
<1>2. Init => Shown
  BY DEF Init, Shown, Appending
<1>3. IInv /\ Shown /\ IInv' /\ [Next]_vars => Shown'
  <2> SUFFICES ASSUME IInv, Shown, IInv', [Next]_vars PROVE Shown'
    OBVIOUS
  <2>1. CASE Next
    BY <2>1, ShownStep, Zenon
  <2>2. CASE UNCHANGED vars
    BY <2>2, Zenon DEF vars, procVars, meta, Shown, HeadNow, Segment
  <2> QED BY <2>1, <2>2, Zenon
<1> QED BY <1>1, <1>2, <1>3, IInvInit, ShownCovers, PTL DEF Spec

-----------------------------------------------------------------------------
(* The retention edge.                                                     *)

\* Once the scan has looked at a file, the writer's oldest gpidx is the first of the
\* oldest file, or 0 before there is one.
Edge ==
  \/ pc = "down"
  \/ pc = "scan" /\ nextSeq = 0
  \/ /\ onDisk = {} => oldest = 0
     /\ \A s \in onDisk : (\A t \in onDisk : s <= t) => oldest = base[s]

LEMMA EdgeStep ==
  ASSUME CleanFaults, IInv, IInv', OldestAnchored, Edge, Step PROVE Edge'
<1>0. Typed /\ Core
  BY Zenon DEF IInv
<1>1. ASSUME UNCHANGED <<onDisk, base, oldest>>, pc \notin {"down", "scan"} PROVE Edge'
  BY <1>1, Zenon DEF Edge
<1>2. CASE Kill \/ PowerCut
  BY <1>2, Zenon DEF Kill, PowerCut, Exit, Edge
<1>3. CASE WritePacket \/ Tick \/ Fdatasync \/ SealWrite \/ SealSync \/ WriteHeader \/ SwitchActive \/ OpenManifest
           \/ ReapBegin \/ ReapEnd
  BY <1>1, <1>3, Zenon
  DEF WritePacket, Tick, Fdatasync, SealWrite, SealSync, WriteHeader, SwitchActive, OpenManifest, ReapBegin,
      ReapEnd, contents
<1>4. CASE Close
  <2>1. CASE pc' = "down"
    BY <2>1, Zenon DEF Edge
  <2>2. CASE pc' # "down"
    BY <1>1, <1>4, <2>2, Zenon DEF Close, CloseWriter, Exit, contents
  <2> QED BY <2>1, <2>2, Zenon
<1>5. CASE publishHead
  <2>1. CASE pc' = "down"
    BY <2>1, Zenon DEF Edge
  <2>2. CASE pc' # "down"
    BY <1>1, <1>5, <2>2, Zenon DEF publishHead, Exit, contents
  <2> QED BY <2>1, <2>2, Zenon
<1>6. CASE ReaderFlock
  BY <1>6, Zenon DEF ReaderFlock, Edge, contents, procVars
<1>7. CASE Empty /\ RecoverBegin
  <2>1. loadManifest = {}
    BY <1>7 DEF Empty, loadManifest, ParsedLines
  <2>2. onDisk' = {} /\ oldest' = 0
    BY <1>7, <2>1, Zenon DEF Empty, RecoverBegin, contents
  <2> QED BY <2>2, Zenon DEF Edge
<1>8. CASE Empty /\ CreateFile
  <2>1. pc = "create" /\ nextSeq = 1 /\ head = 0 /\ oldest = 0 /\ onDisk = {}
    BY <1>8, Zenon DEF Empty, CreateFile, Edge
  <2>2. 0 \in Seqs /\ onDisk' = {0} /\ base' = [base EXCEPT ![0] = 0] /\ oldest' = 0
    BY <1>8, <2>1, BoundsAssumption DEF CreateFile, Seqs
  <2>3. base'[0] = 0
    BY <1>0, <2>2, Zenon DEF Typed, FilesTyped
  <2> QED BY <2>2, <2>3, Zenon DEF Edge
<1>9. ASSUME Empty PROVE ~(RecoverSealed \/ RecoverActive \/ RecoverUnlisted \/ RecoverRefuse \/ ReapOne)
  BY <1>9, Zenon
  DEF Empty, RecoverSealed, RecoverActive, RecoverUnlisted, RecoverUnsealed, RecoverRefuse, ReapOne
<1>10. ASSUME NEW lo \in Seqs, NEW hi \in Seqs, NEW nlo \in Seqs, NEW nhi \in Seqs \cup {-1},
              Populated(lo, hi, nlo, nhi),
              RecoverBegin \/ RecoverSealed \/ RecoverActive \/ RecoverUnlisted \/ RecoverRefuse
                \/ CreateFile \/ ReapOne
       PROVE  Edge'
  <2>0. /\ lo \in onDisk /\ lo <= hi
        /\ \A t : t \in onDisk <=> t \in Seqs /\ lo <= t /\ t <= hi
    BY <1>10, SpanEnds, Zenon DEF Populated, Disk
  <2>1. \A s \in onDisk : (\A t \in onDisk : s <= t) <=> s = lo
    BY <2>0 DEF Seqs
  <2>2. pc \notin {"down", "scan"} \/ (pc = "scan" /\ nextSeq # 0) => oldest = base[lo]
    BY <2>0, <2>1, Zenon DEF Edge
  <2>3. CASE RecoverBegin
    BY <1>10, <2>0, <2>3, Zenon DEF RecoverBegin, Populated, Writer, Recovering, Edge
  <2>4. CASE RecoverSealed
    <3>1. PICK seg \in loadManifest :
            /\ pc = "scan" /\ seg.seq \in onDisk /\ ScanNext(seg.seq)
            /\ oldest' = IF ScanFirst THEN seg.start ELSE oldest
      BY <2>4, Zenon DEF RecoverSealed
    <3>2. (ScanFirst => seg.seq = lo) /\ (~ScanFirst => seg.seq = nextSeq /\ lo < nextSeq)
      BY <1>0, <1>10, <3>1, ScanAt, Zenon
    <3>3. seg.start = base[seg.seq]
      BY <1>0, <1>10, <3>1, LineOf, Zenon DEF Populated, Disk, True
    <3>4. ~ScanFirst => nextSeq # 0
      BY <3>2 DEF Seqs
    <3>5. oldest' = base[lo]
      BY <2>2, <3>1, <3>2, <3>3, <3>4, Zenon
    <3> QED BY <2>0, <2>1, <2>4, <3>5, Zenon DEF RecoverSealed, Edge, contents
  <2>5. CASE RecoverActive
    <3>1. PICK s \in onDisk : RecoverUnsealed(s)
      BY <2>5, Zenon DEF RecoverActive
    <3>2. /\ pc = "scan" /\ ScanNext(s) /\ \A seg \in loadManifest : seg.seq # s
          /\ oldest' = IF ScanFirst THEN 0 ELSE oldest
          /\ UNCHANGED <<onDisk, base>>
      BY <3>1, Zenon DEF RecoverUnsealed
    <3>3. (ScanFirst => s = lo) /\ (~ScanFirst => s = nextSeq /\ lo < nextSeq)
      BY <1>0, <1>10, <3>2, ScanAt, Zenon
    <3>4. ScanFirst => base[lo] = 0
      BY <2>0, <2>1, <3>2, <3>3, Zenon DEF OldestAnchored
    <3>5. ~ScanFirst => nextSeq # 0
      BY <3>3 DEF Seqs
    <3>6. oldest' = base[lo]
      BY <2>2, <3>2, <3>4, <3>5, Zenon
    <3> QED BY <2>0, <2>1, <3>2, <3>6, Zenon DEF Edge
  <2>6. ~(RecoverUnlisted \/ RecoverRefuse)
    BY <1>0, <1>10, ScanClean, Zenon
  <2>7. CASE CreateFile
    <3>1. pc = "create" /\ nextSeq = hi + 2 /\ nextSeq - 1 \in Seqs
      BY <1>10, <2>7, Zenon DEF CreateFile, Populated, Writer, Creating
    <3>2. /\ onDisk' = onDisk \cup {nextSeq - 1} /\ oldest' = oldest
          /\ base' = [base EXCEPT ![nextSeq - 1] = head]
      BY <2>7, Zenon DEF CreateFile
    <3>3. nextSeq - 1 > hi /\ nextSeq - 1 # lo
      BY <2>0, <3>1 DEF Seqs
    <3>4. base'[lo] = base[lo]
      BY <1>0, <2>0, <3>2, <3>3, Zenon DEF Typed, FilesTyped
    <3>5. \A s \in onDisk' : (\A t \in onDisk' : s <= t) => s = lo
      BY <2>0, <3>1, <3>2 DEF Seqs
    <3> QED BY <2>0, <2>2, <3>1, <3>2, <3>4, <3>5, Zenon DEF Edge
  <2>8. CASE ReapOne
    <3>1. PICK seg \in Candidates : /\ onDisk' = onDisk \ {seg.seq}
                                    /\ oldest' = IF seg.end > oldest THEN seg.end ELSE oldest
      BY <2>8, Zenon DEF ReapOne
    <3>2. pc = "reap" /\ base' = base
      BY <2>8, Zenon DEF ReapOne
    <3>3. lo + 1 \in Seqs /\ Populated(lo + 1, hi, nlo, nhi)'
      BY <1>0, <1>10, <2>8, ReapOneStep, Zenon
    <3>4. onDisk' = (lo + 1)..hi /\ lo + 1 <= hi
      BY <3>3, Zenon DEF Populated, Disk, Span
    <3>5. seg.seq = lo
      BY <2>0, <3>1, <3>4 DEF Seqs
    <3>6. seg.start = base[lo] /\ seg.end = End(lo) /\ seg.start < seg.end
      BY <1>10, <3>1, <3>5, Zenon DEF Candidates, Populated, SealedTrue, True
    <3>7. base[lo + 1] = End(lo)
      <4>1. lo < hi
        BY <3>4 DEF Seqs
      <4> QED BY <1>10, <3>3, <4>1, Zenon DEF Populated, Disk, Chain
    <3>8. oldest' = base[lo + 1]
      BY <2>2, <3>1, <3>2, <3>6, <3>7, Zenon
    <3>9. \A s \in onDisk' : (\A t \in onDisk' : s <= t) => s = lo + 1
      BY <3>4 DEF Seqs
    <3>10. onDisk' # {}
      BY <3>4, SMTT(20) DEF Seqs
    <3> QED BY <3>2, <3>8, <3>9, <3>10, Zenon DEF Edge
  <2> QED BY <1>10, <2>3, <2>4, <2>5, <2>6, <2>7, <2>8, Zenon
<1>11. ~(FailCall \/ FailWrite)
  BY Zenon DEF FailCall, FailWrite, CleanFaults
<1>12. CASE RecoverBegin \/ RecoverSealed \/ RecoverActive \/ RecoverUnlisted \/ RecoverRefuse \/ CreateFile \/ ReapOne
  BY <1>0, <1>7, <1>8, <1>9, <1>10, <1>12, Zenon DEF Core
<1> QED
  BY <1>2, <1>3, <1>4, <1>5, <1>6, <1>11, <1>12, Zenon DEF Step, Recover, Flush, Rotate, Reap, Fault

\* The edge the agent reports is the first gpidx of the oldest file whenever the
\* writer is at rest (recoverSpool, Reap, OldestGpidx).
THEOREM OldestIsTrueHolds == CleanFaults => (Spec /\ []OldestAnchored => []OldestIsTrue)
<1> SUFFICES ASSUME CleanFaults PROVE Spec /\ []OldestAnchored => []OldestIsTrue
  OBVIOUS
<1>1. IInv /\ OldestAnchored /\ [Next]_vars => IInv'
  BY IInvStep, Zenon
<1>2. Init => Edge
  BY Zenon DEF Init, Edge
<1>3. IInv /\ OldestAnchored /\ Edge /\ IInv' /\ [Next]_vars => Edge'
  <2> SUFFICES ASSUME IInv, OldestAnchored, Edge, IInv', [Next]_vars PROVE Edge'
    OBVIOUS
  <2>1. CASE Next
    BY <2>1, EdgeStep, Zenon DEF Next
  <2>2. CASE UNCHANGED vars
    BY <2>2, Zenon DEF vars, procVars, contents, Edge
  <2> QED BY <2>1, <2>2, Zenon
<1>4. IInv /\ Edge => OldestIsTrue
  <2> SUFFICES ASSUME IInv, Edge, pc = "idle" PROVE oldest = Min({base[s] : s \in onDisk})
    BY Zenon DEF OldestIsTrue
  <2> DEFINE B == {base[s] : s \in onDisk}
  <2>1. Typed
    BY Zenon DEF IInv
  <2>2. PICK lo \in Seqs, hi \in Seqs, nlo \in Seqs, nhi \in Seqs \cup {-1} : Populated(lo, hi, nlo, nhi)
    BY Zenon DEF IInv, Core, Empty
  <2>3. lo \in onDisk /\ lo <= hi /\ \A t : t \in onDisk <=> t \in Seqs /\ lo <= t /\ t <= hi
    BY <2>2, SpanEnds, Zenon DEF Populated, Disk
  <2>4. \A t \in onDisk : base[t] \in Nat /\ base[lo] <= base[t]
    <3> SUFFICES ASSUME NEW t \in onDisk PROVE base[t] \in Nat /\ base[lo] <= base[t]
      OBVIOUS
    <3>1. t \in Seqs /\ lo <= t /\ t <= hi
      BY <2>3, Zenon
    <3>2. base[t] \in Nat /\ base[lo] \in Nat /\ Len(recs[lo]) \in Nat
      BY <2>1, <3>1 DEF Typed, FilesTyped
    <3>3. lo < t => base[lo] + Len(recs[lo]) <= base[t]
      BY <2>2, <3>1, Zenon DEF Populated, Disk, Chain, End
    <3> QED BY <3>1, <3>2, <3>3 DEF Seqs
  <2>5. oldest = base[lo]
    BY <2>3, Zenon DEF Edge
  <2>6. base[lo] \in B /\ \A y \in B : y \in Nat /\ base[lo] <= y
    BY <2>3, <2>4, Zenon
  <2>7. \A z \in B : (\A y \in B : z <= y) => z = base[lo]
    BY <2>6
  <2>8. Min(B) = CHOOSE z \in B : \A y \in B : z <= y
    BY Zenon DEF Min
  <2>9. Min(B) = base[lo]
    BY <2>6, <2>7, <2>8, Zenon
  <2> QED BY <2>5, <2>9, Zenon
<1> QED BY <1>1, <1>2, <1>3, <1>4, IInvInit, PTL DEF Spec

-----------------------------------------------------------------------------
(* Retention leaves room: the oldest file always has an anchor.            *)

\* Retention has room for two full files, and for one more record for every outage:
\* a restart can take a full file for its active one, and WritePacket rotates only
\* after it has written.
RoomForTwo == RotateRecs + RotateRecs + MaxOutages <= RetentionRecs + 1

\* After out outages a file of n records, the one before it having p, has room for
\* k more.
Room(p, n, k, out) ==
  n + k <= RotateRecs + out /\ p + n + k <= RotateRecs + RotateRecs + out
Before(s)  == IF s = 0 THEN 0 ELSE Len(recs[s - 1])
Fits(s, k) == Room(Before(s), Len(recs[s]), k, outages)

\* Where the next packet can go before the writer has rotated.
Settled(s) ==
  \/ pc \in {"down", "scan", "open"} \/ goal = "close"
  \/ s = active.seq /\ pc \in {"idle", "sync", "publish", "reap"} /\ goal # "rotate"

Sized == \A s \in Seqs : Fits(s, IF Settled(s) THEN 1 ELSE 0)

\* A file that is alone starts at 0 or has a line that no fault takes.
Anchored ==
  \A s \in onDisk : onDisk = {s} => base[s] = 0 \/ \E i \in 1..StableLines : manifest[i].seq = s

\* The janitor's sum over two files.
LEMMA PairSum ==
  ASSUME NEW a, NEW b, a # b, onDisk = {a, b}, Len(recs[a]) \in Nat, Len(recs[b]) \in Nat
  PROVE  SpoolRecs = Len(recs[a]) + Len(recs[b])
<1> DEFINE n(x) == Len(recs[x])
           c(s) == CHOOSE x \in s : TRUE
           F(g) == [s \in SUBSET onDisk |-> IF s = {} THEN 0 ELSE n(c(s)) + g[s \ {c(s)}]]
           iter == CHOOSE g : g = F(g)
           G == [s \in SUBSET onDisk |-> (IF a \in s THEN n(a) ELSE 0) + (IF b \in s THEN n(b) ELSE 0)]
<1>1. SpoolRecs = iter[{a, b}]
  BY Zenon DEF SpoolRecs, MapThenSumSet, MapThenFoldSet
<1>2. n(a) \in Nat /\ n(b) \in Nat /\ \A s : s # {} => c(s) \in s
  BY Zenon
<1>3. \A s \in SUBSET onDisk : G[s] = (IF a \in s THEN n(a) ELSE 0) + (IF b \in s THEN n(b) ELSE 0)
  BY Zenon
<1> HIDE DEF n, c
<1>4. ASSUME NEW s \in SUBSET onDisk, NEW d \in s PROVE G[s] = n(d) + G[s \ {d}]
  <2> DEFINE r == s \ {d}
  <2>1. r \in SUBSET onDisk /\ (d = a \/ d = b) /\ d \notin r /\ \A e : e # d => (e \in r <=> e \in s)
    BY Zenon
  <2> SUFFICES G[s] = n(d) + G[r]
    BY Zenon
  <2> HIDE DEF G, r
  <2>2. CASE d = a
    <3>1. G[s] = n(a) + (IF b \in s THEN n(b) ELSE 0) /\ G[r] = 0 + (IF b \in s THEN n(b) ELSE 0)
      BY <1>3, <2>1, <2>2, Zenon
    <3> QED BY <1>2, <2>2, <3>1
  <2>3. CASE d = b
    <3>1. G[s] = (IF a \in s THEN n(a) ELSE 0) + n(b) /\ G[r] = (IF a \in s THEN n(a) ELSE 0) + 0
      BY <1>3, <2>1, <2>3, Zenon
    <3> QED BY <1>2, <2>3, <3>1
  <2> QED BY <2>1, <2>2, <2>3, Zenon
<1>5. G = F(G)
  <2>1. G[{}] = 0
    BY <1>3
  <2>2. \A s \in SUBSET onDisk : G[s] = F(G)[s]
    <3> HIDE DEF G
    <3> QED BY <1>2, <1>4, <2>1, Zenon
  <2> QED BY <2>2, Zenon
<1>6. iter = F(iter)
  <2> HIDE DEF F, G
  <2> QED BY <1>5, Zenon
<1> HIDE DEF G, iter
<1>7. \A s \in SUBSET onDisk : s # {} => iter[s] = n(c(s)) + iter[s \ {c(s)}]
  BY <1>6, Zenon
<1>8. iter[{}] = 0
  BY <1>6, Zenon
<1> HIDE DEF F
<1>9. ASSUME NEW d \in {a, b} PROVE iter[{d}] = n(d) + 0
  <2>1. {d} \in SUBSET onDisk /\ {d} # {} /\ {d} \ {d} = {}
    BY Zenon
  <2>2. c({d}) = d
    BY <1>2, <2>1, Zenon
  <2> QED BY <1>7, <1>8, <2>1, <2>2, Zenon
<1>10. c({a, b}) \in {a, b} /\ {a, b} \ {a} = {b} /\ {a, b} \ {b} = {a} /\ {a, b} # {}
  BY <1>2, Zenon
<1>11. iter[{a, b}] = n(a) + iter[{b}] \/ iter[{a, b}] = n(b) + iter[{a}]
  BY <1>7, <1>10, Zenon
<1>12. iter[{a}] = n(a) + 0 /\ iter[{b}] = n(b) + 0
  BY <1>9, Zenon
<1>13. iter[{a, b}] = n(a) + n(b)
  BY <1>2, <1>11, <1>12
<1> QED BY <1>1, <1>13, Zenon DEF n

\* What has room has it when the files are no longer, and an outage makes room for
\* one more.
LEMMA RoomLess ==
  ASSUME NEW p \in Nat, NEW n \in Nat, NEW k \in Nat, NEW out \in Nat,
         NEW q \in Nat, NEW m \in Nat, NEW j \in Nat, NEW outs \in Nat,
         Room(p, n, k, out), q <= p, m <= n, j + out <= k + outs, out <= outs
  PROVE  Room(q, m, j, outs)
<1>1. RotateRecs \in Nat
  BY BoundsAssumption, Zenon
<1> QED BY <1>1 DEF Room

\* Every step keeps the sizes.
LEMMA SizedStep ==
  ASSUME CleanFaults, IInv, IInv', Sized, Step PROVE Sized'
<1>0. Typed /\ Typed' /\ Core
  BY Zenon DEF IInv
<1>1. \A s \in Seqs : Len(recs[s]) \in Nat /\ Len(recs'[s]) \in Nat
  BY <1>0 DEF Typed, FilesTyped
<1>2. outages \in Nat /\ outages + 1 \in Nat /\ RotateRecs \in Nat /\ RotateRecs > 0
  BY <1>0, BoundsAssumption DEF Typed, Control
<1>3. \A s \in Seqs : s # 0 => s - 1 \in Seqs
  BY BoundsAssumption DEF Seqs
<1>4. 0 \in Nat /\ 1 \in Nat
  OBVIOUS
<1>5. \A s \in Seqs : Before(s) \in Nat /\ Before(s)' \in Nat
  BY <1>1, <1>3, <1>4, Zenon DEF Before
<1>6. ASSUME \A s \in Seqs : Len(recs'[s]) <= Len(recs[s]), NEW s \in Seqs
      PROVE  Before(s)' <= Before(s)
  <2>1. CASE s = 0
    BY <2>1 DEF Before
  <2>2. CASE s # 0
    BY <1>3, <1>6, <2>2, Zenon DEF Before
  <2> QED BY <2>1, <2>2, Zenon
<1>7. ASSUME NEW s \in Seqs PROVE Fits(s, 0)
  <2>1. CASE Settled(s)
    <3>1. Room(Before(s), Len(recs[s]), 1, outages)
      BY <2>1, Zenon DEF Sized, Fits
    <3>2. Before(s) <= Before(s) /\ Len(recs[s]) <= Len(recs[s]) /\ 0 + outages <= 1 + outages /\ outages <= outages
      BY <1>1, <1>2, <1>5
    <3> QED BY <1>1, <1>2, <1>4, <1>5, <3>1, <3>2, RoomLess, Zenon DEF Fits
  <2>2. CASE ~Settled(s)
    BY <2>2, Zenon DEF Sized
  <2> QED BY <2>1, <2>2, Zenon
\* No file grows, and no other file becomes the one to append to.
<1>8. ASSUME UNCHANGED outages, \A s \in Seqs : Len(recs'[s]) <= Len(recs[s]),
             \A s \in Seqs : Settled(s)' => Settled(s)
      PROVE  Sized'
  <2> SUFFICES ASSUME NEW s \in Seqs PROVE Fits(s, IF Settled(s) THEN 1 ELSE 0)'
    BY Zenon DEF Sized
  <2>1. ASSUME NEW k \in {0, 1}, Fits(s, k) PROVE Fits(s, k)'
    <3>1. k \in Nat /\ k + outages <= k + outages /\ outages <= outages
      BY <1>2
    <3>2. Room(Before(s)', Len(recs'[s]), k, outages)
      BY <1>1, <1>2, <1>8, <1>5, <1>6, <2>1, <3>1, RoomLess, Zenon DEF Fits
    <3> QED BY <1>8, <3>2, Zenon DEF Fits
  <2>2. CASE Settled(s)'
    <3>1. Fits(s, 1)
      BY <1>8, <2>2, Zenon DEF Sized
    <3> QED BY <2>1, <2>2, <3>1, Zenon
  <2>3. CASE ~Settled(s)'
    BY <1>7, <2>1, <2>3, Zenon
  <2> QED BY <2>2, <2>3, Zenon
\* An outage makes room in every file.
<1>9. ASSUME outages' = outages + 1, \A s \in Seqs : Len(recs'[s]) <= Len(recs[s])
      PROVE  Sized'
  <2> SUFFICES ASSUME NEW s \in Seqs, NEW k \in {0, 1} PROVE Fits(s, k)'
    BY Zenon DEF Sized
  <2>1. k \in Nat /\ k + outages <= 0 + (outages + 1) /\ outages <= outages + 1
    BY <1>2
  <2>2. Room(Before(s), Len(recs[s]), 0, outages)
    BY <1>7, Zenon DEF Fits
  <2>3. Room(Before(s)', Len(recs'[s]), k, outages + 1)
    BY <1>1, <1>2, <1>9, <1>4, <1>5, <1>6, <2>1, <2>2, RoomLess, Zenon
  <2> QED BY <1>9, <2>3, Zenon DEF Fits
<1>10. ASSUME recs' = recs PROVE \A s \in Seqs : Len(recs'[s]) <= Len(recs[s])
  BY <1>1, <1>10
<1>11. CASE RecoverBegin \/ RecoverSealed \/ RecoverActive \/ OpenManifest \/ Tick \/ Fdatasync \/ SealWrite
           \/ WriteHeader \/ ReapBegin \/ ReapEnd \/ ReapOne \/ ReaderFlock
  <2>1. recs' = recs /\ outages' = outages
    BY <1>11, Zenon
    DEF RecoverBegin, RecoverSealed, RecoverActive, RecoverUnsealed, OpenManifest, Tick, Fdatasync, SealWrite,
        WriteHeader, ReapBegin, ReapEnd, ReapOne, ReaderFlock, contents, counters
  <2>2. CASE RecoverBegin \/ RecoverSealed \/ RecoverActive \/ OpenManifest
    <3>1. \A s \in Seqs : Settled(s)
      BY <2>2, Zenon DEF RecoverBegin, RecoverSealed, RecoverActive, RecoverUnsealed, OpenManifest, Settled
    <3> QED BY <1>8, <1>10, <2>1, <3>1, Zenon
  <2>3. CASE Tick \/ Fdatasync \/ SealWrite \/ WriteHeader \/ ReapBegin \/ ReapEnd \/ ReapOne \/ ReaderFlock
    <3>0. active' = active
      BY <2>3, Zenon
      DEF Tick, Fdatasync, SealWrite, WriteHeader, ReapBegin, ReapEnd, ReapOne, ReaderFlock, procVars
    <3>1. CASE Tick
      BY <1>0, <1>8, <1>10, <2>1, <3>0, <3>1 DEF Tick, Settled, Typed, Control
    <3>2. CASE Fdatasync
      BY <1>8, <1>10, <2>1, <3>0, <3>2, Zenon DEF Fdatasync, Settled
    <3>3. CASE SealWrite \/ WriteHeader
      BY <1>8, <1>10, <2>1, <3>0, <3>3, SMTT(20) DEF SealWrite, WriteHeader, Settled
    <3>4. CASE ReapBegin \/ ReapEnd \/ ReapOne \/ ReaderFlock
      BY <1>8, <1>10, <2>1, <3>0, <3>4 DEF ReapBegin, ReapEnd, ReapOne, ReaderFlock, Settled, procVars
    <3> QED BY <2>3, <3>1, <3>2, <3>3, <3>4, Zenon
  <2> QED BY <1>11, <2>2, <2>3, Zenon
<1>12. CASE publishHead
  <2>1. recs' = recs /\ outages' = outages
    BY <1>12, Zenon DEF publishHead, contents, counters
  <2>2. CASE goal = "close"
    BY <1>8, <1>10, <2>1, <2>2, Zenon DEF Settled
  <2>3. CASE goal # "close"
    BY <1>8, <1>10, <1>12, <2>1, <2>3 DEF publishHead, Settled
  <2> QED BY <2>2, <2>3, Zenon
<1>13. CASE Close \/ Kill
  <2>1. recs' = recs /\ outages' = outages + 1
    BY <1>13, Zenon DEF Close, Kill, contents
  <2> QED BY <1>9, <1>10, <2>1, Zenon
<1>14. CASE PowerCut
  <2>1. outages' = outages + 1
    BY <1>14, Zenon DEF PowerCut
  <2>2. PICK keep \in [{s \in onDisk : synced[s] < Len(recs[s])} -> 0..MaxPackets] :
          /\ \A s \in DOMAIN keep : keep[s] \in synced[s]..Len(recs[s])
          /\ recs' = [s \in Seqs |-> IF s \in DOMAIN keep THEN SubSeq(recs[s], 1, keep[s]) ELSE recs[s]]
    BY <1>14, Zenon DEF PowerCut
  <2>3. ASSUME NEW s \in Seqs PROVE Len(recs'[s]) <= Len(recs[s])
    <3>1. CASE s \in DOMAIN keep
      <4>1. recs'[s] = SubSeq(recs[s], 1, keep[s])
        BY <2>2, <3>1, Zenon
      <4>2. keep[s] \in Nat /\ keep[s] <= Len(recs[s])
        <5>1. keep[s] \in 0..MaxPackets /\ keep[s] \in synced[s]..Len(recs[s]) /\ synced[s] \in Nat
          BY <1>0, <2>2, <3>1, Zenon DEF Typed, FilesTyped
        <5> QED BY <1>1, <5>1
      <4>3. recs[s] \in Seq(Packets)
        BY <1>0, Zenon DEF Typed, FilesTyped
      <4> QED BY <4>1, <4>2, <4>3
    <3>2. CASE s \notin DOMAIN keep
      <4>1. recs'[s] = recs[s]
        BY <2>2, <3>2, Zenon
      <4> QED BY <1>1, <4>1
    <3> QED BY <3>1, <3>2, Zenon
  <2> QED BY <1>9, <2>1, <2>3, Zenon
<1>15. CASE CreateFile
  <2>1. outages' = outages /\ pc' = "header" /\ goal' = goal /\ recs' = [recs EXCEPT ![nextSeq - 1] = <<>>]
    BY <1>15, Zenon DEF CreateFile, counters
  <2>2. \A s \in Seqs : recs'[s] = recs[s] \/ recs'[s] = <<>>
    BY <1>0, <2>1, Zenon DEF Typed, FilesTyped
  <2>3. \A s \in Seqs : Len(recs'[s]) <= Len(recs[s])
    BY <1>1, <2>2
  <2>4. \A s \in Seqs : Settled(s)' => Settled(s)
    BY <2>1 DEF Settled
  <2> QED BY <1>8, <2>1, <2>3, <2>4, Zenon
<1>16. CASE SealSync
  <2>1. pc = "sealsync" /\ caller # "start"
    BY <1>0, <1>16, Zenon DEF SealSync, Core, Empty, Populated, Writer, Running, Appending
  <2>2. pc' = "create" /\ UNCHANGED <<recs, outages, goal>>
    BY <1>16, <2>1, Zenon DEF SealSync, contents, counters
  <2>3. \A s \in Seqs : Settled(s)' => Settled(s)
    BY <2>2 DEF Settled
  <2> QED BY <1>8, <1>10, <2>2, <2>3, Zenon
<1>17. CASE SwitchActive
  <2>1. /\ pc = "dirsync" /\ pc' = "publish" /\ goal' = "none" /\ active'.seq = nextSeq - 1
        /\ UNCHANGED <<recs, outages>>
    BY <1>17, Zenon DEF SwitchActive, contents, counters
  <2>2. PICK hi \in Seqs : nextSeq = hi + 1 /\ recs[hi] = <<>>
    BY <1>0, <2>1, Zenon DEF Core, Empty, Populated, Writer, Creating
  <2>3. Len(recs[hi]) = 0 /\ active'.seq = hi
    BY <2>1, <2>2 DEF Seqs
  <2>4. Before(hi) <= RotateRecs + outages
    <3>1. CASE hi = 0
      BY <1>2, <3>1 DEF Before
    <3>2. CASE hi # 0
      <4>1. Room(Before(hi - 1), Len(recs[hi - 1]), 0, outages)
        BY <1>3, <1>7, <3>2, Zenon DEF Fits
      <4>2. Len(recs[hi - 1]) + 0 <= RotateRecs + outages
        BY <4>1, Zenon DEF Room
      <4> QED BY <1>1, <1>2, <1>3, <3>2, <4>2 DEF Before
    <3> QED BY <3>1, <3>2, Zenon
  <2>5. Fits(hi, 1)
    BY <1>2, <1>5, <2>3, <2>4 DEF Fits, Room
  <2>6. \A s \in Seqs : Settled(s)' => s = hi
    BY <2>1, <2>3 DEF Settled
  <2>7. \A s \in Seqs : Fits(s, IF Settled(s)' THEN 1 ELSE 0)
    BY <1>7, <2>5, <2>6, Zenon
  <2> QED BY <2>1, <2>7, Zenon DEF Sized, Fits, Before
<1>18. CASE WritePacket
  <2>1. PICK lo \in Seqs, hi \in Seqs, nlo \in Seqs, nhi \in Seqs \cup {-1} : Populated(lo, hi, nlo, nhi)
    BY <1>0, <1>18, Zenon DEF WritePacket, Core, Empty
  <2>2. /\ pc = "idle" /\ outages' = outages /\ recs' = [recs EXCEPT ![active.seq] = Append(@, captured')]
        /\ head' = head + 1 /\ active' = active /\ goal' # "close" /\ pc' \in {"idle", "sync"}
        /\ head' - active.start < RotateRecs \/ goal' = "rotate"
    BY <1>18 DEF WritePacket
  <2>3. active.seq = hi /\ active.start = base[hi] /\ head = base[hi] + Len(recs[hi]) /\ base[hi] \in Nat
    BY <1>0, <2>1, <2>2, RunningFacts, Zenon DEF Appending
  <2>4. /\ Len(recs'[hi]) = Len(recs[hi]) + 1
        /\ \A s \in Seqs : s # hi => recs'[s] = recs[s]
    BY <1>0, <2>2, <2>3, SMTT(20) DEF Typed, FilesTyped
  <2>5. Settled(hi)
    BY <1>0, <2>2, <2>3 DEF Settled, Typed, Control
  <2>6. Fits(hi, 1)
    BY <2>5, Zenon DEF Sized
  <2>7. \A s \in Seqs : Settled(s)' => s = hi
    BY <2>2, <2>3 DEF Settled
  <2>8. Len(recs[hi]) + 1 <= RotateRecs + outages
    BY <2>6, Zenon DEF Fits, Room
  <2>9. Fits(hi, IF Settled(hi) THEN 1 ELSE 0)'
    <3>1. Before(hi)' = Before(hi) /\ Before(hi) <= RotateRecs + outages
      <4>1. CASE hi = 0
        BY <1>2, <4>1 DEF Before
      <4>2. CASE hi # 0
        <5>1. hi - 1 \in Seqs /\ hi - 1 # hi
          BY <1>3, <4>2 DEF Seqs
        <5>2. Room(Before(hi - 1), Len(recs[hi - 1]), 0, outages)
          BY <1>7, <5>1, Zenon DEF Fits
        <5>3. Len(recs[hi - 1]) + 0 <= RotateRecs + outages
          BY <5>2, Zenon DEF Room
        <5>4. Len(recs[hi - 1]) <= RotateRecs + outages
          BY <1>1, <1>2, <5>1, <5>3
        <5> QED BY <2>4, <4>2, <5>1, <5>4, Zenon DEF Before
      <4> QED BY <4>1, <4>2, Zenon
    <3>2. CASE goal' = "rotate"
      <4>1. Before(hi) + Len(recs[hi]) + 1 <= RotateRecs + RotateRecs + outages
        BY <2>6, Zenon DEF Fits, Room
      <4>2. Room(Before(hi), Len(recs[hi]) + 1, 0, outages)
        BY <1>1, <1>2, <1>5, <2>8, <4>1 DEF Room
      <4>3. ~Settled(hi)'
        BY <2>2, <3>2 DEF Settled
      <4> QED BY <2>2, <2>4, <3>1, <4>2, <4>3, Zenon DEF Fits
    <3>3. CASE goal' # "rotate"
      <4>1. Len(recs[hi]) + 1 < RotateRecs
        BY <1>1, <1>2, <2>2, <2>3, <3>3
      <4>2. Room(Before(hi), Len(recs[hi]) + 1, 0, outages) /\ Room(Before(hi), Len(recs[hi]) + 1, 1, outages)
        BY <1>1, <1>2, <1>5, <3>1, <4>1, SMTT(20) DEF Room
      <4> QED BY <2>2, <2>4, <3>1, <4>2, Zenon DEF Fits
    <3> QED BY <3>2, <3>3, Zenon
  <2>10. ASSUME NEW s \in Seqs, s # hi PROVE Fits(s, IF Settled(s) THEN 1 ELSE 0)'
    <3>1. ~Settled(s)'
      BY <2>7, <2>10, Zenon
    <3>2. recs'[s] = recs[s]
      BY <2>4, <2>10, Zenon
    <3>3. Fits(s, 0)'
      <4>1. CASE s - 1 = hi
        <5>1. s > hi /\ s # 0
          BY <4>1 DEF Seqs
        <5>2. recs[s] = <<>>
          BY <2>1, <5>1, Zenon DEF Populated, Disk, Chain
        <5>3. Len(recs[s]) = 0 /\ Before(s)' = Len(recs[hi]) + 1
          BY <2>4, <4>1, <5>1, <5>2 DEF Before
        <5>4. Room(Len(recs[hi]) + 1, 0, 0, outages)
          BY <1>1, <1>2, <2>8 DEF Room
        <5> QED BY <2>2, <3>2, <5>3, <5>4, Zenon DEF Fits
      <4>2. CASE s - 1 # hi
        <5>1. Before(s)' = Before(s)
          BY <1>3, <2>4, <4>2, Zenon DEF Before
        <5> QED BY <1>7, <2>2, <3>2, <5>1, Zenon DEF Fits
      <4> QED BY <4>1, <4>2, Zenon
    <3> QED BY <3>1, <3>3, Zenon
  <2> QED BY <2>9, <2>10, Zenon DEF Sized
<1>19. CASE RecoverUnlisted \/ RecoverRefuse
  <2>1. UNCHANGED <<recs, outages>> /\ \A s \in Seqs : Settled(s)
    BY <1>19, Zenon DEF RecoverUnlisted, RecoverUnsealed, RecoverRefuse, Settled, contents, counters
  <2> QED BY <1>8, <1>10, <2>1, Zenon
<1>20. ~(FailCall \/ FailWrite)
  BY Zenon DEF FailCall, FailWrite, CleanFaults
<1> QED
  BY <1>11, <1>12, <1>13, <1>14, <1>15, <1>16, <1>17, <1>18, <1>19, <1>20, Zenon
  DEF Step, Recover, Flush, Rotate, Reap, Fault

\* Every step keeps the anchor.
LEMMA AnchoredStep ==
  ASSUME CleanFaults, RoomForTwo, IInv, IInv', Sized, Anchored, Step PROVE Anchored'
<1>0. Typed /\ Typed' /\ Core
  BY Zenon DEF IInv
<1>1. /\ Len(manifest) \in Nat /\ manSynced \in Nat /\ StableLines \in Nat
      /\ StableLines <= Len(manifest)
  <2>1. Len(manifest) \in Nat /\ manSynced \in Nat
    BY <1>0 DEF Typed, MetaTyped
  <2>2. CASE Empty
    <3>1. manSynced = 0
      BY <2>2, Zenon DEF Empty
    <3> QED BY <2>1, <3>1 DEF StableLines
  <2>3. ASSUME NEW lo, NEW hi, NEW nlo, NEW nhi, Populated(lo, hi, nlo, nhi)
        PROVE  StableLines \in Nat /\ StableLines <= Len(manifest)
    <3>1. manSynced <= Len(manifest)
      BY <2>3, Zenon DEF Populated, Disk, Lines
    <3> QED BY <2>1, <3>1 DEF StableLines
  <2> QED BY <1>0, <2>1, <2>2, <2>3, Zenon DEF Core
\* The same files, and the stable lines still there.
<1>2. ASSUME UNCHANGED <<onDisk, base>>, StableLines <= StableLines', StableLines' \in Nat,
             \A i \in 1..StableLines : manifest'[i] = manifest[i]
      PROVE  Anchored'
  <2>1. 1..StableLines \subseteq 1..(StableLines')
    BY <1>1, <1>2
  <2> QED BY <1>2, <2>1, Zenon DEF Anchored
<1>3. ASSUME UNCHANGED <<onDisk, base, manifest, manSynced>> PROVE Anchored'
  BY <1>3, Zenon DEF Anchored, StableLines
<1>4. CASE RecoverBegin \/ RecoverSealed \/ RecoverActive \/ RecoverUnlisted \/ RecoverRefuse \/ OpenManifest
  BY <1>3, <1>4, Zenon
  DEF RecoverBegin, RecoverSealed, RecoverActive, RecoverUnlisted, RecoverUnsealed, RecoverRefuse, OpenManifest,
      contents, meta
<1>5. CASE WritePacket \/ Tick \/ Fdatasync \/ publishHead \/ WriteHeader \/ SwitchActive \/ Close
  BY <1>3, <1>5, Zenon
  DEF WritePacket, Tick, Fdatasync, publishHead, WriteHeader, SwitchActive, Close, contents, meta
<1>6. CASE ReapBegin \/ ReapEnd \/ ReaderFlock
  BY <1>3, <1>6, Zenon DEF ReapBegin, ReapEnd, ReaderFlock, contents, meta
<1>7. CASE Kill
  BY <1>3, <1>7, Zenon DEF Kill, HalfDone, CleanFaults
<1>8. CASE SealWrite
  <2>1. UNCHANGED <<onDisk, base, manSynced>> /\ manifest' = Append(manifest, Sealing)
    BY <1>8, Zenon DEF SealWrite, contents
  <2>2. StableLines <= Len(manifest)
    BY <1>1, Zenon
  <2>3. Len(manifest') = Len(manifest) + 1 /\ \A i \in 1..Len(manifest) : manifest'[i] = manifest[i]
    BY <1>0, <2>1 DEF Typed, MetaTyped
  <2>4. StableLines' \in Nat /\ StableLines <= StableLines'
    BY <1>0, <2>1, <2>3 DEF StableLines, Typed, MetaTyped
  <2>5. \A i \in 1..StableLines : manifest'[i] = manifest[i]
    BY <1>1, <2>2, <2>3
  <2> QED BY <1>2, <2>1, <2>4, <2>5, Zenon
<1>9. CASE SealSync
  <2>1. UNCHANGED <<onDisk, base, manifest>> /\ manSynced' = Len(manifest)
    BY <1>9, Zenon DEF SealSync, contents
  <2>2. StableLines <= Len(manifest)
    BY <1>1, Zenon
  <2>3. StableLines' = Len(manifest)
    BY <2>1, Zenon DEF StableLines
  <2> QED BY <1>1, <1>2, <2>1, <2>2, <2>3, Zenon
<1>10. CASE CreateFile
  <2>1. /\ pc = "create" /\ nextSeq - 1 \in Seqs /\ onDisk' = onDisk \cup {nextSeq - 1}
        /\ base' = [base EXCEPT ![nextSeq - 1] = head]
    BY <1>10, Zenon DEF CreateFile
  <2>2. CASE Empty
    <3>1. onDisk' = {nextSeq - 1} /\ head = 0
      BY <2>1, <2>2, Zenon DEF Empty
    <3>2. base'[nextSeq - 1] = 0
      BY <1>0, <2>1, <3>1, Zenon DEF Typed, FilesTyped
    <3> QED BY <3>1, <3>2, Zenon DEF Anchored
  <2>3. ASSUME NEW lo \in Seqs, NEW hi \in Seqs, NEW nlo \in Seqs, NEW nhi \in Seqs \cup {-1},
               Populated(lo, hi, nlo, nhi)
        PROVE  Anchored'
    <3>1. hi \in onDisk /\ nextSeq = hi + 2
      BY <2>1, <2>3, SpanEnds, Zenon DEF Populated, Disk, Writer, Creating
    <3>2. nextSeq - 1 # hi
      BY <3>1 DEF Seqs
    <3>3. hi \in onDisk' /\ nextSeq - 1 \in onDisk'
      BY <2>1, <3>1, Zenon
    <3>4. \A s : onDisk' # {s}
      BY <3>2, <3>3
    <3> QED BY <3>4, Zenon DEF Anchored
  <2> QED BY <1>0, <2>2, <2>3, Zenon DEF Core
<1>11. CASE ReapOne
  <2>1. pc = "reap" /\ SpoolRecs > RetentionRecs /\ UNCHANGED <<base, meta>>
    BY <1>11, Zenon DEF ReapOne
  <2>2. PICK lo \in Seqs, hi \in Seqs, nlo \in Seqs, nhi \in Seqs \cup {-1} : Populated(lo, hi, nlo, nhi)
    BY <1>0, <2>1, Zenon DEF Core, Empty
  <2>3. lo + 1 \in Seqs /\ Populated(lo + 1, hi, nlo, nhi)'
    BY <1>0, <1>11, <2>2, ReapOneStep, Zenon
  <2>4. onDisk = lo..hi /\ onDisk' = (lo + 1)..hi /\ lo + 1 <= hi
    BY <2>2, <2>3, Zenon DEF Populated, Disk, Span
  <2>5. active.seq = hi /\ Settled(hi)
    <3>1. active.seq = hi
      BY <1>0, <2>1, <2>2, RunningFacts, Zenon DEF Appending
    <3>2. goal # "rotate"
      BY <1>0, <2>1 DEF Typed, Control
    <3> QED BY <2>1, <3>1, <3>2, Zenon DEF Settled
  <2>6. Fits(hi, 1)
    BY <2>5, Zenon DEF Sized
  <2>7. lo + 1 # hi
    <3> SUFFICES ASSUME lo + 1 = hi PROVE FALSE
      OBVIOUS
    <3>1. onDisk = {lo, hi} /\ lo # hi /\ hi # 0 /\ hi - 1 = lo
      BY <2>4 DEF Seqs
    <3>2. Len(recs[lo]) \in Nat /\ Len(recs[hi]) \in Nat
      <4>1. \A s \in Seqs : Len(recs[s]) \in Nat
        BY <1>0 DEF Typed, FilesTyped
      <4> QED BY <4>1, Zenon
    <3>3. SpoolRecs = Len(recs[lo]) + Len(recs[hi])
      BY <3>1, <3>2, PairSum, Zenon
    <3>4. Before(hi) = Len(recs[lo])
      BY <3>1, Zenon DEF Before
    <3>5. Len(recs[lo]) + Len(recs[hi]) + 1 <= RotateRecs + RotateRecs + outages
      BY <2>6, <3>4, Zenon DEF Fits, Room
    <3>6. outages \in 0..MaxOutages /\ SpoolRecs > RetentionRecs
      BY <1>0, <2>1, Zenon DEF Typed, Control
    <3>7. /\ MaxOutages \in Nat /\ RotateRecs \in Nat /\ RetentionRecs \in Nat
          /\ RotateRecs + RotateRecs + MaxOutages <= RetentionRecs + 1
      BY BoundsAssumption, Zenon DEF RoomForTwo
    <3>8. SpoolRecs + 1 <= RotateRecs + RotateRecs + outages
      BY <3>3, <3>5, Zenon
    <3>9. SpoolRecs \in Nat
      <4>1. \A a, b \in Nat : a + b \in Nat
        OBVIOUS
      <4> QED BY <3>2, <3>3, <4>1, Zenon
    <3> QED BY <3>6, <3>7, <3>8, <3>9
  <2>8. lo + 1 \in onDisk' /\ hi \in onDisk'
    BY <2>4 DEF Seqs
  <2>9. \A s : onDisk' # {s}
    BY <2>7, <2>8
  <2> QED BY <2>9, Zenon DEF Anchored
<1>12. CASE PowerCut
  <2>1. "kill" \notin Faults /\ StableLines = manSynced
    BY <1>12, Zenon DEF PowerCut, CleanFaults, StableLines, OnlySynced
  <2>2. CASE Empty
    <3>1. onDisk' = {}
      BY <1>12, <2>2, Zenon DEF PowerCut, Empty
    <3> QED BY <3>1, Zenon DEF Anchored
  <2>3. ASSUME NEW lo \in Seqs, NEW hi \in Seqs, NEW nlo \in Seqs, NEW nhi \in Seqs \cup {-1},
               Populated(lo, hi, nlo, nhi)
        PROVE  Anchored'
    <3>0. Span(lo, hi, nlo, nhi) /\ Lines(hi)
      BY <2>3, Zenon DEF Populated, Disk
    <3>1. PICK m \in manSynced..Len(manifest) : manifest' = SubSeq(manifest, 1, m)
      BY <1>12, Zenon DEF PowerCut, CleanFaults
    <3>2. manSynced <= m /\ m \in Nat /\ m <= Len(manifest)
      BY <1>1, <3>1
    <3>3. Len(manifest') = m /\ \A i \in 1..m : manifest'[i] = manifest[i]
      BY <1>0, <3>1, <3>2 DEF Typed, MetaTyped
    <3>4. StableLines' = m /\ UNCHANGED base
      BY <1>12, <2>1, <3>3, Zenon DEF PowerCut, StableLines, OnlySynced
    <3>5. \A s : (\E i \in 1..StableLines : manifest[i].seq = s) => \E i \in 1..StableLines' : manifest'[i].seq = s
      <4>1. 1..StableLines \subseteq 1..m
        BY <2>1, <3>2, <1>1
      <4> QED BY <3>3, <3>4, <4>1, Zenon
    <3> SUFFICES ASSUME NEW s \in onDisk', onDisk' = {s}
                 PROVE  base'[s] = 0 \/ \E i \in 1..StableLines' : manifest'[i].seq = s
      BY Zenon DEF Anchored
    <3>6. PICK lost \in SUBSET (onDisk \ named), k \in 0..(MaxSeq + 1) :
            onDisk' = (onDisk \ lost) \cup {f \in named \ onDisk : f >= k}
      BY <1>12, Zenon DEF PowerCut
    <3>7. s \in Seqs /\ s <= hi
      <4>1. s \in onDisk \/ s \in named
        BY <3>6, Zenon
      <4> QED BY <1>0, <3>0, <4>1 DEF Span, Seqs, Typed, FilesTyped
    <3>8. CASE s < hi
      <4>1. \E i \in 1..StableLines : manifest[i].seq = s
        BY <3>0, <3>7, <3>8, Zenon DEF Lines
      <4> QED BY <3>5, <4>1, Zenon
    <3>9. CASE s = hi
      <4>1. lo \in named \/ lo = hi
        BY <3>0 DEF Span, Seqs
      <4>2. lo \in onDisk
        BY <3>0 DEF Span, Seqs
      <4>3. lo = hi
        <5>1. lo \in named => lo \in onDisk'
          BY <3>6, <4>2, Zenon
        <5> QED BY <3>9, <4>1, <5>1, Zenon
      <4>4. onDisk = {hi}
        BY <3>0, <4>3 DEF Span, Seqs
      <4>5. base[hi] = 0 \/ \E i \in 1..StableLines : manifest[i].seq = hi
        BY <4>2, <4>3, <4>4, Zenon DEF Anchored
      <4> QED BY <3>4, <3>5, <3>9, <4>5, Zenon
    <3> QED BY <3>7, <3>8, <3>9 DEF Seqs
  <2> QED BY <1>0, <2>2, <2>3, Zenon DEF Core
<1>13. ~(FailCall \/ FailWrite)
  BY Zenon DEF FailCall, FailWrite, CleanFaults
<1> QED
  BY <1>4, <1>5, <1>6, <1>7, <1>8, <1>9, <1>10, <1>11, <1>12, <1>13, Zenon
  DEF Step, Recover, Flush, Rotate, Reap, Fault

\* The oldest of several files has its line; one that is alone has an anchor.
LEMMA AnchorFound == IInv /\ Anchored => OldestAnchored
<1> SUFFICES ASSUME IInv, Anchored, NEW s \in onDisk, \A t \in onDisk : s <= t
             PROVE  base[s] = 0 \/ \E seg \in loadManifest : seg.seq = s
  BY Zenon DEF OldestAnchored
<1>0. Typed
  BY Zenon DEF IInv
<1>1. PICK lo \in Seqs, hi \in Seqs, nlo \in Seqs, nhi \in Seqs \cup {-1} : Populated(lo, hi, nlo, nhi)
  BY Zenon DEF IInv, Core, Empty
<1>2. onDisk = lo..hi /\ lo <= hi /\ Lines(hi)
  BY <1>1, Zenon DEF Populated, Disk, Span
<1>3. s \in Seqs /\ (s = hi \/ s < hi)
  BY <1>0, <1>2 DEF Typed, FilesTyped, Seqs
<1>4. CASE s < hi
  BY <1>0, <1>2, <1>3, <1>4, LineOf, Zenon
<1>5. CASE s = hi
  <2>1. onDisk = {s}
    BY <1>2, <1>5 DEF Seqs
  <2>2. base[s] = 0 \/ \E i \in 1..StableLines : manifest[i].seq = s
    BY <2>1, Zenon DEF Anchored
  <2>3. 1..StableLines \subseteq DOMAIN manifest
    BY <1>0, <1>2 DEF Lines, StableLines, Typed, MetaTyped
  <2>4. base[s] = 0 \/ ~Unsealed(s)
    BY <2>2, <2>3, Zenon DEF Unsealed
  <2> QED BY <1>0, <1>2, <2>4, LineOf, Zenon
<1> QED BY <1>3, <1>4, <1>5, Zenon

\* The oldest file always has an anchor, if retention has room for two full files
\* and a record for every outage: the janitor never leaves the active file alone
\* (Reap, WritePacket, recoverSpool).
THEOREM AnchoredHolds == CleanFaults /\ RoomForTwo => (Spec => []OldestAnchored)
<1> SUFFICES ASSUME CleanFaults, RoomForTwo PROVE Spec => []OldestAnchored
  OBVIOUS
<1> DEFINE All == IInv /\ Sized /\ Anchored
<1>1. Init => All
  <2> SUFFICES ASSUME Init PROVE Sized /\ Anchored
    BY IInvInit, Zenon
  <2>1. ASSUME NEW s \in Seqs PROVE Fits(s, 0) /\ Fits(s, 1)
    <3>1. Len(recs[s]) = 0 /\ Before(s) = 0 /\ outages = 0
      BY BoundsAssumption DEF Init, Before, Seqs
    <3> QED BY <3>1, BoundsAssumption DEF Fits, Room
  <2>2. Sized
    BY <2>1, Zenon DEF Sized
  <2> QED BY <2>2, Zenon DEF Init, Anchored
<1>2. All /\ [Next]_vars => All'
  <2> SUFFICES ASSUME All, [Next]_vars PROVE All'
    OBVIOUS
  <2>1. IInv'
    BY IInvStep, AnchorFound, Zenon
  <2>2. CASE Next
    BY <2>1, <2>2, SizedStep, AnchoredStep, Zenon DEF Next
  <2>3. CASE UNCHANGED vars
    BY <2>1, <2>3, Zenon
    DEF vars, contents, meta, procVars, counters, Sized, Fits, Before, Settled, Anchored, StableLines
  <2> QED BY <2>2, <2>3, Zenon
<1>3. All => OldestAnchored
  BY AnchorFound, Zenon
<1> QED BY <1>1, <1>2, <1>3, PTL DEF Spec

\* With that room nothing else is assumed: no gpidx names two packets, no packet a
\* reader was shown vanishes, recovery takes the directory back, and the edge the
\* agent reports is the true one (recoverSpool, rotate, Reap).
THEOREM SpoolSound ==
  CleanFaults /\ RoomForTwo =>
    (Spec => [](OneIdentity /\ NothingVanishes /\ NeverRefuses /\ OldestIsTrue))
<1> SUFFICES ASSUME CleanFaults, RoomForTwo
             PROVE  Spec => [](OneIdentity /\ NothingVanishes /\ NeverRefuses /\ OldestIsTrue)
  OBVIOUS
<1>1. Spec => []OldestAnchored
  BY AnchoredHolds
<1>2. /\ Spec /\ []OldestAnchored => []OneIdentity
      /\ Spec /\ []OldestAnchored => []NothingVanishes
      /\ Spec /\ []OldestAnchored => []NeverRefuses
      /\ Spec /\ []OldestAnchored => []OldestIsTrue
  BY IdentityHolds, NothingVanishesHolds, NeverRefusesHolds, OldestIsTrueHolds
<1> QED BY <1>1, <1>2, PTL
=============================================================================

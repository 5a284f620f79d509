------------------------------- MODULE Mirror -------------------------------
(***************************************************************************)
(* The collector's mirror (internal/collector/mirror.go): one pcap file    *)
(* per session, a session being a gap-free run of gpidx, and resume.json   *)
(* with the commit point.  The steps are the system calls of Append and    *)
(* NewSession and the atomic stores of publish; who calls them is in       *)
(* module Collector.                                                       *)
(*                                                                         *)
(* A packet is a pair of epoch and gpidx, which names it: a spool gives no *)
(* gpidx twice (module Spool).  Lengths are counted in records.            *)
(***************************************************************************)
EXTENDS Integers, Sequences, FiniteSets

CONSTANTS
  MaxSession,   \* bound: highest session number
  MaxOutages,   \* bound: crashes, lost connections and I/O errors in a behaviour
  Faults        \* the faults that may happen

ASSUME MirrorAssumption ==
  MaxSession \in Nat /\ MaxOutages \in Nat /\ Faults \subseteq {"kill", "power", "io", "noid"}

VARIABLES
  \* the mirror directory
  files,      \* files[s]: records in the mirror file of session s
  created,    \* sessions whose file is there
  header,     \* header[s]: the link type its global header declares
  resume,     \* resume.json (ResumeState; epoch 0 is the empty string)
  \* what a power cut keeps
  fsynced,    \* fsynced[s]: records of file s that are fdatasync'd
  named,      \* file names that are durable
  kept,       \* the resume.json that is durable
  \* the collector process
  mpc,
  gh,         \* Mirror.gh: the link type to declare
  st,         \* Mirror.state
  mfile,      \* Mirror.file: its session, or -1 if it is closed
  fileLen,    \* Mirror.fileLen
  todo,       \* the records Append was given
  pub,        \* the atomics: committed, sessionSeq, committedLen
  outages

disk       == <<files, created, header, resume, fsynced, named, kept>>
memory     == <<gh, st, mfile, fileLen, todo, pub>>
mirrorVars == <<disk, mpc, memory, outages>>

Sessions  == 0..MaxSession
Ethernet  == 0                          \* the link type before the first preamble
NoHeader  == -1                         \* records, if any, from the file's first byte on
Garbage   == -2                         \* a header's length of something else
ZeroState == [committed |-> 0, session |-> 0, start |-> 0, epoch |-> 0]
NoPub     == [committed |-> 0, session |-> 0, len |-> 0]

MirrorInit ==
  /\ files = [s \in Sessions |-> <<>>] /\ created = {} /\ named = {}
  /\ header = [s \in Sessions |-> Ethernet] /\ gh = Ethernet
  /\ fsynced = [s \in Sessions |-> 0] /\ resume = ZeroState /\ kept = ZeroState
  /\ mpc = "down" /\ st = ZeroState /\ mfile = -1 /\ fileLen = 0 /\ todo = <<>>
  /\ pub = NoPub /\ outages = 0

Forget ==
  /\ mpc' = "down" /\ gh' = Ethernet /\ st' = ZeroState /\ mfile' = -1 /\ fileLen' = 0
  /\ todo' = <<>> /\ pub' = NoPub

-----------------------------------------------------------------------------
(* openSession: a new or empty file gets its header, one that is there is *)
(* cut to the committed records; if it has fewer, the commit point is      *)
(* lowered.                                                                *)

\* A file shorter than a global header.
Blank(s) == s \notin created \/ (header[s] = NoHeader /\ files[s] = <<>>)

\* recordOffsetForCount: the committed records it finds.  In a file without a header it
\* reads from within a record, and what it finds there may be anything.
Haves(state) ==
  LET want == state.committed - state.start
      have == Len(files[state.session])
      most == IF have < want THEN have ELSE want IN
  IF header[state.session] = NoHeader THEN 0..most ELSE {most}

\* What becomes of the file, of which the first n records are found.
OpenFile(s, n) ==
  /\ created' = created \cup {s}
  /\ header' = [header EXCEPT ![s] = IF Blank(s) THEN gh ELSE IF @ = NoHeader THEN Garbage ELSE @]
  /\ files' = [files EXCEPT ![s] = IF Blank(s) THEN <<>> ELSE SubSeq(@, 1, n)]
  /\ fsynced' = [fsynced EXCEPT ![s] = Len(files'[s])]

OpenSession(state) ==
  LET s == state.session IN
  \E n \in Haves(state) :
    /\ OpenFile(s, n)
    /\ st' = IF Blank(s) THEN state ELSE [state EXCEPT !.committed = state.start + n]
    /\ mfile' = s
    /\ fileLen' = Len(files'[s])

\* Mutant: an unreadable resume.json counts as a missing one.
OpenMirrorZero ==
  /\ mpc = "down"
  /\ OpenSession(ZeroState)
  /\ pub' = [committed |-> st'.committed, session |-> st'.session, len |-> fileLen']
  /\ mpc' = "idle"
  /\ UNCHANGED <<resume, named, kept, gh, todo, outages>>
\* OpenMirror: nobody reads the mirror before it returns.
OpenMirror ==
  /\ mpc = "down"
  /\ OpenSession(resume)
  /\ pub' = [committed |-> st'.committed, session |-> st'.session, len |-> fileLen']
  /\ mpc' = "idle"
  /\ UNCHANGED <<resume, named, kept, gh, todo, outages>>

-----------------------------------------------------------------------------
(* Append: write, fdatasync, persist, publish.                             *)

MirrorWrite ==
  /\ mpc = "write" /\ mfile # -1
  /\ files' = [files EXCEPT ![mfile] = @ \o todo]
  /\ mpc' = "sync"
  /\ UNCHANGED <<created, header, resume, fsynced, named, kept, memory, outages>>

\* Mutant: no fdatasync.
MirrorSyncSkipped ==
  /\ mpc = "sync"
  /\ fileLen' = fileLen + Len(todo)
  /\ st' = [st EXCEPT !.committed = @ + Len(todo)]
  /\ todo' = <<>>
  /\ mpc' = "persist"
  /\ UNCHANGED <<disk, gh, mfile, pub, outages>>
MirrorSync ==
  /\ mpc = "sync"
  /\ fsynced' = [fsynced EXCEPT ![mfile] = Len(files[mfile])]
  /\ fileLen' = fileLen + Len(todo)
  /\ st' = [st EXCEPT !.committed = @ + Len(todo)]
  /\ todo' = <<>>
  /\ mpc' = "persist"
  /\ UNCHANGED <<files, created, header, resume, named, kept, gh, mfile, pub, outages>>

\* persistState: the new resume.json is renamed into place, the directory synced.
persistState ==
  /\ mpc \in {"persist", "adopt"}
  /\ resume' = st /\ kept' = st
  /\ named' = created
  /\ mpc' = IF mpc = "adopt" THEN "reading" ELSE "publish"
  /\ UNCHANGED <<files, created, header, fsynced, memory, outages>>

\* publish stores the fields one by one; a concurrent Snapshot reads the last two.
PublishSession ==
  /\ mpc = "publish"
  /\ pub' = [pub EXCEPT !.committed = st.committed, !.session = st.session]
  /\ mpc' = "publishLen"
  /\ UNCHANGED <<disk, gh, st, mfile, fileLen, todo, outages>>

PublishLen ==
  /\ mpc = "publishLen"
  /\ pub' = [pub EXCEPT !.len = fileLen]
  /\ mpc' = "reading"
  /\ UNCHANGED <<disk, gh, st, mfile, fileLen, todo, outages>>

-----------------------------------------------------------------------------
(* The preamble and the GAP.                                               *)

\* Mutant: the header of the open file is never rewritten.
SetHeaderLater(h) == gh' = h /\ UNCHANGED disk
\* SetHeader: an empty session's file is cut to nothing and takes the new header.  A
\* crash before the sync leaves a file without one, which openSession starts afresh.
Rewrites(h) == gh # h /\ st.committed = st.start
SetHeader(h) ==
  /\ gh' = h
  /\ \/ Rewrites(h) /\ mfile # -1
        /\ header' = [header EXCEPT ![mfile] = h]
        /\ files' = [files EXCEPT ![mfile] = <<>>]
        /\ fsynced' = [fsynced EXCEPT ![mfile] = 0]
     \/ ~Rewrites(h) /\ UNCHANGED <<header, files, fsynced>>
  /\ UNCHANGED <<created, resume, named, kept>>

\* SetHeader fails, having stored gh already: on a closed file, or with an I/O error,
\* which may come after the file was cut.
SetHeaderClosed(h) ==
  /\ Rewrites(h) /\ mfile = -1
  /\ gh' = h /\ mpc' = "idle"
  /\ UNCHANGED <<disk, st, mfile, fileLen, todo, pub, outages>>
SetHeaderFail(h) ==
  /\ "io" \in Faults /\ outages < MaxOutages /\ outages' = outages + 1
  /\ Rewrites(h) /\ mfile # -1
  /\ gh' = h /\ mpc' = "idle"
  /\ \/ UNCHANGED <<files, fsynced, header>>
     \/ /\ files' = [files EXCEPT ![mfile] = <<>>]
        /\ fsynced' = [fsynced EXCEPT ![mfile] = 0]
        /\ header' = [header EXCEPT ![mfile] = NoHeader]
  /\ UNCHANGED <<created, resume, named, kept, st, mfile, fileLen, todo, pub>>

\* NewSession and ResetForEpoch: the old file is closed and the state moved on; the
\* rest is openSession, persist, publish.
StartSession(epoch, from) ==
  /\ st.session < MaxSession
  /\ st' = [committed |-> from, session |-> st.session + 1, start |-> from, epoch |-> epoch]
  /\ mfile' = -1
  /\ mpc' = "open"
  /\ UNCHANGED <<fileLen, todo, pub, outages>>

NewSessionFile ==
  /\ mpc = "open"
  /\ OpenSession(st)
  /\ mpc' = "persist"
  /\ UNCHANGED <<resume, named, kept, gh, todo, pub, outages>>

\* AdoptEpoch
AdoptEpoch(e) ==
  /\ st' = [st EXCEPT !.epoch = e]
  /\ mpc' = "adopt"
  /\ UNCHANGED <<mfile, fileLen, todo, pub, outages>>

-----------------------------------------------------------------------------
(* Faults.                                                                 *)

\* The resume.json of a persist that did not return may have been renamed into place.
HalfPersisted == {resume} \cup {s \in {st} : mpc \in {"persist", "adopt"}}

MirrorKill ==
  /\ "kill" \in Faults /\ outages < MaxOutages /\ mpc # "down"
  /\ outages' = outages + 1
  /\ resume' \in HalfPersisted
  /\ Forget
  /\ UNCHANGED <<files, created, header, fsynced, named, kept>>

\* Of the unsynced records any prefix survives, and the unsynced names all or none: a
\* rename that survives keeps the names that came before it.
MirrorPowerCut ==
  LET dirty == {s \in Sessions : fsynced[s] < Len(files[s])} IN
  /\ "power" \in Faults /\ outages < MaxOutages
  /\ outages' = outages + 1
  /\ \/ resume' \in HalfPersisted /\ created' = created
     \/ resume' = kept /\ created' = named
  /\ kept' = resume' /\ named' = created'
  /\ \E keep \in [dirty -> UNION {fsynced[s]..Len(files[s]) : s \in dirty}] :
       /\ \A s \in dirty : keep[s] \in fsynced[s]..Len(files[s])
       /\ files' = [s \in Sessions |-> CASE s \notin created'         -> <<>>
                                         [] s \in created' \cap dirty -> SubSeq(files[s], 1, keep[s])
                                         [] OTHER -> files[s]]
  /\ fsynced' = [s \in Sessions |-> Len(files'[s])]
  /\ Forget
  /\ UNCHANGED header

\* A call fails: Append or NewSession returns the error, the connection ends, and
\* the supervisor goes on with the same Mirror.
MirrorFail ==
  /\ "io" \in Faults /\ outages < MaxOutages
  /\ \/ /\ mpc = "write" /\ mfile # -1
        /\ \E n \in 0..(Len(todo) - 1) :
             files' = [files EXCEPT ![mfile] = @ \o SubSeq(todo, 1, n)]
        /\ UNCHANGED <<created, header, resume, fsynced>>
     \/ /\ mpc \in {"persist", "adopt"} /\ resume' \in HalfPersisted
        /\ UNCHANGED <<files, created, header, fsynced>>
     \/ /\ mpc = "sync"
        /\ UNCHANGED <<files, created, header, resume, fsynced>>
     \/ /\ mpc = "open"
        /\ \/ UNCHANGED <<files, created, header, fsynced>>
           \/ /\ Blank(st.session) /\ created' = created \cup {st.session}
              /\ header' = [header EXCEPT ![st.session] = NoHeader]
              /\ UNCHANGED <<files, fsynced>>
           \/ OpenFile(st.session, 0)
        /\ UNCHANGED resume
  /\ outages' = outages + 1
  /\ mpc' = "idle" /\ todo' = <<>>
  /\ UNCHANGED <<named, kept, gh, st, mfile, fileLen, pub>>

\* Append to a file that a failed NewSession has closed.
WriteToClosed ==
  /\ mpc = "write" /\ mfile = -1
  /\ mpc' = "idle" /\ todo' = <<>>
  /\ UNCHANGED <<disk, gh, st, mfile, fileLen, pub, outages>>
=============================================================================

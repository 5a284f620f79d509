------------------------------- MODULE FanOut -------------------------------
(***************************************************************************)
(* The PCAP-over-IP fan-out (internal/pcapoverip/server.go): a goroutine   *)
(* per client tails the mirror file from its own cursor, up to what        *)
(* Mirror.Snapshot says is committed.  Snapshot loads its fields one at a  *)
(* time while the demux goroutine stores them one at a time.               *)
(*                                                                         *)
(* Cursor and limit are byte offsets in the code and counted in records    *)
(* here, which is the same as long as they are offsets of the file that is *)
(* read.  The length of another session's file may cover any number of its *)
(* records, and a cursor taken from it may point into the middle of one.   *)
(***************************************************************************)
EXTENDS Collector

VARIABLES
  lenOf,     \* history: the session whose file the published length measures
  fpc,       \* the client's goroutine
  session, file, cursor,   \* serve's locals
  limit,     \* committedLen of the last Snapshot
  torn,      \* history: the cursor was an offset of another file than the client's
  sent       \* what the client received on this connection

clientVars == <<fpc, session, file, cursor, limit, torn, sent>>
fvars      == <<cvars, lenOf, clientVars>>

\* A record made of bytes from the middle of others.
Junk == <<0, 0>>

Gone ==
  /\ fpc' = "off" /\ session' = 0 /\ file' = 0 /\ cursor' = 0 /\ limit' = 0
  /\ torn' = FALSE /\ sent' = <<>>

FanOutInit ==
  /\ CollectorInit /\ lenOf = 0
  /\ fpc = "off" /\ session = 0 /\ file = 0 /\ cursor = 0 /\ limit = 0
  /\ torn = FALSE /\ sent = <<>>

\* The first Snapshot, load by load: the session, the session in the file's name, the
\* committed length.  The header is sent and the file opened.
Accept ==
  /\ fpc = "off" /\ mpc # "down"
  /\ fpc' = "file" /\ session' = pub.session
  /\ UNCHANGED <<cvars, lenOf, file, cursor, limit, torn, sent>>

LoadFile ==
  /\ fpc = "file"
  /\ fpc' = "cursor" /\ file' = pub.session
  /\ UNCHANGED <<cvars, lenOf, session, cursor, limit, torn, sent>>

LoadCursor ==
  /\ fpc = "cursor"
  /\ fpc' = "poll" /\ cursor' = pub.len /\ torn' = (lenOf # file)
  /\ UNCHANGED <<cvars, lenOf, session, file, limit, sent>>

\* The Snapshots of the loop: the session, then the committed length.
\* Mutant: the session is not compared.
PollAnySession ==
  /\ fpc = "poll"
  /\ fpc' = "limit" /\ file' = pub.session
  /\ UNCHANGED <<cvars, lenOf, session, cursor, limit, torn, sent>>
PollSession ==
  /\ fpc = "poll"
  /\ IF pub.session # session THEN Gone
                              ELSE /\ fpc' = "limit"
                                   /\ UNCHANGED <<session, file, cursor, limit, torn, sent>>
  /\ UNCHANGED <<cvars, lenOf>>

\* The records of the client's file that end below the published length.
Covered == IF lenOf = file THEN {pub.len} ELSE 0..Len(files[file])

\* Mutant: the committed length is read once.
PollOnce ==
  /\ fpc = "limit"
  /\ fpc' = "read" /\ limit' \in IF limit = 0 THEN Covered ELSE {limit}
  /\ UNCHANGED <<cvars, lenOf, session, file, cursor, torn, sent>>
\* Mutant: all that is in the file is taken to be committed.
PollFileSize ==
  /\ fpc = "limit"
  /\ fpc' = "read" /\ limit' = Len(files[file])
  /\ UNCHANGED <<cvars, lenOf, session, file, cursor, torn, sent>>
PollLen ==
  /\ fpc = "limit"
  /\ fpc' = "read" /\ limit' \in Covered
  /\ UNCHANGED <<cvars, lenOf, session, file, cursor, torn, sent>>

\* ReadRecordAt, and the write to the client.  From a cursor of another file it may find
\* an implausible length (ErrBadRecord) or none yet, now and on every retry, a record
\* made of bytes from others, or by chance a whole one.
ReadRecordAt ==
  /\ fpc = "read"
  /\ \/ /\ ~torn /\ cursor < limit /\ cursor < Len(files[file])
        /\ sent' = Append(sent, files[file][cursor + 1])
        /\ cursor' = cursor + 1 /\ UNCHANGED fpc
     \/ /\ torn /\ 0 < limit /\ cursor < MaxGpidx
        /\ \E r \in {files[file][i] : i \in 1..limit} \cup {Junk} : sent' = Append(sent, r)
        /\ cursor' = cursor + 1 /\ UNCHANGED fpc
     \/ /\ torn \/ cursor >= limit \/ cursor >= Len(files[file])
        /\ fpc' = "poll" /\ UNCHANGED <<cursor, sent>>
  /\ UNCHANGED <<cvars, lenOf, session, file, limit, torn>>

\* The client goes away.
Leave == fpc # "off" /\ Gone /\ UNCHANGED <<cvars, lenOf>>

ClientStep == LoadFile \/ LoadCursor \/ PollSession \/ PollLen \/ ReadRecordAt

\* A step of the collector; publish and OpenMirror store the length.
CollectorStep ==
  /\ CollectorNext
  /\ \/ mpc' = "down" /\ lenOf' = 0 /\ Gone
     \/ /\ mpc' # "down" /\ UNCHANGED clientVars
        /\ lenOf' = IF mpc' # mpc /\ mpc \in {"publishLen", "down"} THEN mfile' ELSE lenOf

FanOutNext == Accept \/ ClientStep \/ Leave \/ CollectorStep

FanOutSpec == FanOutInit /\ [][FanOutNext]_fvars
\* The goroutine polls every 20 ms.
FairFanOutSpec == FanOutSpec /\ WF_fvars(ClientStep)

-----------------------------------------------------------------------------
\* Types of the client's state.
FanOutTypeOK ==
  /\ fpc \in {"off", "file", "cursor", "poll", "limit", "read"}
  /\ {lenOf, session, file} \subseteq Sessions /\ {cursor, limit} \subseteq 0..MaxGpidx
  /\ torn \in BOOLEAN /\ sent \in Seq(Packets \cup {Junk})

\* A client whose first Snapshot was of one session never sees a silent discontinuity:
\* what one connection delivers is a contiguous run of one spool instance, across GAPs,
\* wipes and reconnects of the collector (the session check of serve), although later
\* Snapshots may bound its reads by the length of another session's file.
ClientContiguous ==
  ~torn => \A i \in 1..Len(sent) : sent[i] = <<sent[1][1], sent[1][2] + i - 1>>

\* A client is given a record only after Append returned: it is synced and below the
\* durable commit point, so no restart of the collector takes it back.
ClientDurable ==
  \A i \in 1..Len(sent) : sent[i] # Junk =>
    /\ Mirrored(sent[i][1], sent[i][2])
    /\ kept.epoch = sent[i][1] => sent[i][2] < kept.committed

\* A client that stays, and whose first Snapshot was of one session, is served all that
\* its session has committed, or let go when the session ends.
ClientCatchesUp == []<>(fpc = "off" \/ torn \/ (lenOf = file /\ cursor >= pub.len))

\* "A 24-byte libpcap global header followed by records" (server.go): a client is sent
\* nothing that is not a record.
OnlyRecords == \A i \in 1..Len(sent) : sent[i] # Junk

\* "A slow consumer simply lags its cursor on disk -- it never drops a packet" (server.go):
\* every client that stays is served all that its session has committed.
EveryClientCatchesUp == []<>(fpc = "off" \/ (lenOf = file /\ cursor >= pub.len))
=============================================================================

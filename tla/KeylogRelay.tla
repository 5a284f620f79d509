----------------------------- MODULE KeylogRelay -----------------------------
(***************************************************************************)
(* The way of a TLS key from the relay file to the collector's             *)
(* SSLKEYLOGFILE: the agent's keylogTailer (internal/agent/keylog.go)      *)
(* sends the lines of the relay file from the start on every connection,   *)
(* and the collector's KeylogSink (internal/collector/keylog.go) appends   *)
(* those it has not seen.  No position is kept anywhere, so a key that a   *)
(* connection loses must come again on the next one.                       *)
(***************************************************************************)
EXTENDS KeylogMerge

VARIABLES
  up,          \* the collector runs
  conn,        \* a connection is up
  tOff, tPart, \* keylogSource: offset in the relay file, partial line
  wire,        \* TLS_KEYLOG frames in flight
  sink,        \* the SSLKEYLOGFILE
  known,       \* KeylogSink.seen
  lossy        \* history: a write has failed or a machine has lost power

linkVars == <<conn, tOff, tPart, wire>>
sinkVars == <<up, sink, known>>
kvars    == <<mergeVars, linkVars, sinkVars, lossy>>

KeylogInit ==
  /\ MergeInit
  /\ up = FALSE /\ conn = FALSE /\ tOff = 0 /\ tPart = <<>> /\ wire = <<>>
  /\ sink = <<>> /\ known = {} /\ lossy = FALSE

-----------------------------------------------------------------------------
\* Mutant: the next connection goes on where this one stood.
HangupResume == conn' = FALSE /\ wire' = <<>> /\ UNCHANGED <<tOff, tPart>>
Hangup == conn' = FALSE /\ tOff' = 0 /\ tPart' = <<>> /\ wire' = <<>>

OpenKeylogSink ==
  /\ ~up /\ up' = TRUE
  /\ known' = loadSeen(sink)
  /\ UNCHANGED <<mergeVars, linkVars, sink, lossy>>

\* runOnce dials; RunServe makes a new tailer, which starts at offset 0.
Connect ==
  /\ up /\ ~conn /\ conn' = TRUE
  /\ UNCHANGED <<mergeVars, tOff, tPart, wire, sinkVars, lossy>>

\* Counted as an outage: keys come from the start again, so a network that never lets
\* a connection live long enough for all of them delivers the same first ones for ever.
Drop ==
  /\ conn /\ Hangup
  /\ outages < MaxOutages /\ outages' = outages + 1
  /\ UNCHANGED <<log, relay, mpc, passVars, off, skipping, seen, sinkVars, lossy>>

\* The valid lines that end in s, in order.
ValidLines(s) ==
  LET at == {i \in Newlines(s) : Valid(LineAt(s, i))} IN
  [n \in 1..Cardinality(at) |->
     s[(CHOOSE i \in at : Cardinality({j \in at : j <= i}) = n) - 1]]

\* At a beat the tailer sends what was appended since the last one, line by line;
\* sendKeylog leaves out what is no key.
emitNew ==
  /\ conn /\ tOff < Len(relay)
  /\ LET data == tPart \o SubSeq(relay, tOff + 1, Len(relay)) IN
     wire' = wire \o ValidLines(data) /\ tPart' = Unterminated(data)
  /\ tOff' = Len(relay)
  /\ UNCHANGED <<mergeVars, conn, sinkVars, lossy>>

\* The demux hands a TLS_KEYLOG frame to KeylogSink.Write.
Write ==
  /\ conn /\ wire # <<>>
  /\ IF wire[1] \in known
       THEN UNCHANGED <<known, sink>>
       ELSE known' = known \cup {wire[1]} /\ sink' = sink \o <<wire[1], NL>>
  /\ wire' = Tail(wire)
  /\ UNCHANGED <<mergeVars, conn, tOff, tPart, up, lossy>>

\* The write fails: the key counts as seen, and the error ends the connection.
WriteFails ==
  /\ "io" \in Faults /\ outages < MaxOutages /\ outages' = outages + 1
  /\ conn /\ wire # <<>> /\ wire[1] \notin known
  /\ known' = known \cup {wire[1]} /\ sink' \in Unfinished(sink, wire[1])
  /\ Hangup /\ lossy' = TRUE
  /\ UNCHANGED <<log, relay, mpc, passVars, off, skipping, seen, up>>

\* A power cut keeps some prefix of a file that is never synced.
Cut(s) ==
  {SubSeq(s, 1, n) : n \in 0..Len(s)} \cup
  {Append(SubSeq(s, 1, n - 1), Junk) : n \in {i \in DOMAIN s : s[i] \in Keys}}

\* The agent's tls process is killed, or the machine loses power and with it the
\* listener and the end of the relay file.
AgentKill ==
  /\ "kill" \in Faults /\ outages < MaxOutages /\ outages' = outages + 1
  /\ mpc # "down" /\ MergeDies /\ UNCHANGED <<relay, linkVars, sinkVars, lossy>>
AgentPowerCut ==
  /\ "power" \in Faults /\ outages < MaxOutages /\ outages' = outages + 1
  /\ MergeDies /\ relay' \in Cut(relay) /\ Hangup /\ lossy' = TRUE
  /\ UNCHANGED sinkVars

CollectorKill ==
  /\ "kill" \in Faults /\ outages < MaxOutages /\ outages' = outages + 1
  /\ up /\ up' = FALSE /\ known' = {} /\ Hangup
  /\ UNCHANGED <<log, relay, mpc, passVars, off, skipping, seen, sink, lossy>>
CollectorPowerCut ==
  /\ "power" \in Faults /\ outages < MaxOutages /\ outages' = outages + 1
  /\ up' = FALSE /\ known' = {} /\ sink' \in Cut(sink) /\ Hangup /\ lossy' = TRUE
  /\ UNCHANGED <<log, relay, mpc, passVars, off, skipping, seen>>

-----------------------------------------------------------------------------
Merge     == MergeStep /\ UNCHANGED <<linkVars, sinkVars, lossy>>
Receiver  == OpenKeylogSink \/ Connect \/ Write
KeylogNext ==
  \/ Merge
  \/ (\E t \in Targets : HookWrite(t)) /\ UNCHANGED <<linkVars, sinkVars, lossy>>
  \/ ChunkLineFails /\ lossy' = TRUE /\ UNCHANGED <<linkVars, sinkVars>>
  \/ Receiver \/ emitNew \/ Drop \/ WriteFails
  \/ AgentKill \/ AgentPowerCut \/ CollectorKill \/ CollectorPowerCut

KeylogSpec == KeylogInit /\ [][KeylogNext]_kvars

\* mergeLoop's ticker, the supervisor's loop and the beats go on, and both processes are
\* restarted; hooks and faults may come or not.
FairKeylogSpec ==
  /\ KeylogSpec
  /\ WF_kvars(Merge) /\ WF_kvars(Receiver) /\ WF_kvars(emitNew)

-----------------------------------------------------------------------------
\* Types of the merge's, the tailer's and the sink's state.
KeylogTypeOK ==
  /\ log \in [Targets -> Seq(Tokens)] /\ {relay, sink, chunk, partial, tPart} \subseteq Seq(Tokens)
  /\ mpc \in {"down", "wait", "tail"} /\ todo \subseteq Targets /\ cur \in Targets
  /\ skipping \subseteq Targets /\ {up, conn, eof, lossy} \subseteq BOOLEAN
  /\ \A t \in Targets : off[t] \in 0..Len(log[t])
  /\ tOff \in 0..Len(relay) /\ Len(partial) <= MaxLineLen
  /\ wire \in Seq(Keys) /\ seen \cup known \subseteq Keys /\ outages \in 0..MaxOutages

\* Between two ticks mergeTail stands at the start of a line, "an unterminated trailing
\* line is left for the next tick", or inside one that is too long to be a key.
Resumable ==
  mpc = "wait" => \A t \in Targets :
    LET line == Unterminated(SubSeq(log[t], 1, off[t])) IN
    IF t \in skipping THEN Len(line) > MaxLineLen ELSE line = <<>>

\* The relay file and the SSLKEYLOGFILE hold every key at most once, whatever hooks,
\* reconnects, restarts, torn and failed writes repeated (mergeTail, Write, loadSeen).
KeysOnce ==
  \A s \in {relay, sink} : \A i, j \in Newlines(s) :
    Valid(LineAt(s, i)) /\ LineAt(s, i) = LineAt(s, j) => i = j

\* A key is passed on only if a hook wrote it as a line of its own: the end of a
\* garbage line is never taken for one, wherever the reads were cut.
OnlyHooked ==
  KeysIn(relay) \cup KeysIn(sink) \subseteq UNION {KeysIn(log[t]) : t \in Targets}

\* Every key a hook has written reaches the SSLKEYLOGFILE, through kills of both
\* processes and lost connections: "it re-sends from the start on every connection, so
\* no separate resume state is needed".  A failed write or a power cut may cost keys.
KeysArrive ==
  []<>(lossy \/ \A t \in Targets : KeysIn(log[t]) \subseteq KeysIn(sink))
=============================================================================

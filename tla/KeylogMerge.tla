----------------------------- MODULE KeylogMerge -----------------------------
(***************************************************************************)
(* The keylog merge of the TLS reconciler (internal/tls/reconcile.go):     *)
(* every eCapture hook appends NSS keylog lines, or garbage, to a file of  *)
(* its own, and mergeLoop copies the keys it has not seen yet to the relay *)
(* file.  It reads while the hooks write, in chunks that end anywhere, and *)
(* must neither take the tail of a garbage line for a key nor lose a key   *)
(* that one read or one tick only sees half of.                            *)
(*                                                                         *)
(* A file is a sequence of tokens: a key, a newline, or a piece of junk.   *)
(* A line is the tokens before a newline; lengths are counted in tokens.   *)
(***************************************************************************)
EXTENDS Naturals, Sequences, FiniteSetsExt

CONSTANTS
  Targets,      \* the hooked targets, one log file each
  Keys,         \* NSS keylog entries
  MaxLog,       \* bound: tokens the hooks write
  ChunkLen,     \* mergeTail's buffer (64 KiB)
  MaxLineLen,   \* keylog.MaxLineLen: a key fits, two tokens of junk do not
  MaxOutages,   \* bound: faults
  Faults        \* subset of {"kill", "power", "io"}

ASSUME KeylogAssumption ==
  /\ {MaxLog, MaxOutages} \subseteq Nat /\ {ChunkLen, MaxLineLen} \subseteq Nat \ {0}
  /\ Faults \subseteq {"kill", "power", "io"} /\ Keys \cap {"nl", "junk"} = {}

VARIABLES
  log,              \* per target: the hook's file
  relay,            \* the relay file
  mpc,              \* "down", "wait" (for the tick), "tail" (inside mergeTail)
  todo, cur,        \* mergeOnce: files left in this pass, the file being read
  off, skipping,    \* mergeState, per target
  chunk, eof,       \* mergeTail: rest of the chunk, and whether the read came short
  partial,          \* mergeTail: the line so far
  seen,             \* keys known to be in the relay file
  outages

passVars  == <<todo, cur, chunk, eof, partial>>
mergeVars == <<log, relay, mpc, passVars, off, skipping, seen, outages>>

-----------------------------------------------------------------------------
NL     == "nl"
Junk   == "junk"
Tokens == Keys \cup {NL, Junk}

\* keylog.Valid: a known label and two short hex fields, or not.
Valid(line) == Len(line) <= MaxLineLen /\ \E k \in Keys : line = <<k>>

Newlines(s)  == {i \in DOMAIN s : s[i] = NL}
LineAt(s, i) == SubSeq(s, Max({0} \cup {j \in Newlines(s) : j < i}) + 1, i - 1)
Unterminated(s) == SubSeq(s, Max({0} \cup Newlines(s)) + 1, Len(s))
KeysIn(s)    == {k \in Keys : \E i \in Newlines(s) : LineAt(s, i) = <<k>>}

loadSeenNothing(s) == {}                                 \* mutant: not primed
\* The keys of a file that exists; ReadSlice returns an unterminated tail as well.
loadSeen(s) == KeysIn(s) \cup {k \in Keys : Unterminated(s) = <<k>>}

MergeInit ==
  /\ log = [t \in Targets |-> <<>>] /\ relay = <<>>
  /\ mpc = "down" /\ todo = {} /\ cur \in Targets
  /\ off = [t \in Targets |-> 0] /\ skipping = {}
  /\ chunk = <<>> /\ eof = FALSE /\ partial = <<>> /\ seen = {} /\ outages = 0

-----------------------------------------------------------------------------
\* A hook's process writes: keys, garbage, and newlines anywhere.
HookWrite(t) ==
  /\ MapThenSumSet(LAMBDA u : Len(log[u]), Targets) < MaxLog
  /\ \E x \in Tokens : log' = [log EXCEPT ![t] = Append(@, x)]
  /\ UNCHANGED <<relay, mpc, passVars, off, skipping, seen, outages>>

\* mergeLoop starts: what the relay file has is seen, every log is read from its start.
mergeLoop ==
  /\ mpc = "down" /\ mpc' = "wait"
  /\ seen' = loadSeen(relay)
  /\ off' = [t \in Targets |-> 0] /\ skipping' = {}
  /\ UNCHANGED <<log, relay, passVars, outages>>

\* mergeOnce opens the next of the files it has listed, or is done until the tick.
OpenNext(files) ==
  \/ files = {} /\ mpc' = "wait" /\ todo' = {} /\ UNCHANGED cur
  \/ \E t \in files : mpc' = "tail" /\ todo' = files \ {t} /\ cur' = t

mergeOnce ==
  /\ mpc = "wait" /\ OpenNext(Targets)
  /\ UNCHANGED <<log, relay, off, skipping, chunk, eof, partial, seen, outages>>

\* ReadAt fills the buffer or comes short at the end of the file.
ReadChunk ==
  /\ mpc = "tail" /\ chunk = <<>> /\ ~eof
  /\ chunk' = SubSeq(log[cur], off[cur] + 1, Min({off[cur] + ChunkLen, Len(log[cur])}))
  /\ eof' = (Len(chunk') < ChunkLen)
  /\ UNCHANGED <<log, relay, mpc, todo, cur, off, skipping, partial, seen, outages>>

TooLongNever(line) == FALSE                              \* mutant: no cap
TooLong(line) == Len(line) > MaxLineLen
SkipNothing == skipping                                  \* mutant: dropped, not skipped
SkipLine    == skipping \cup {cur}

\* No newline in the rest of the chunk: it belongs to a line that goes on, which is
\* given up once it is too long for a key.
ChunkWithoutNewline ==
  /\ mpc = "tail" /\ chunk # <<>> /\ Newlines(chunk) = {}
  /\ off' = [off EXCEPT ![cur] = @ + Len(chunk)]
  /\ LET line == partial \o chunk IN
     \/ cur \in skipping /\ UNCHANGED <<partial, skipping>>
     \/ cur \notin skipping /\ ~TooLong(line) /\ partial' = line /\ UNCHANGED skipping
     \/ cur \notin skipping /\ TooLong(line) /\ partial' = <<>> /\ skipping' = SkipLine
  /\ chunk' = <<>>
  /\ UNCHANGED <<log, relay, mpc, todo, cur, eof, seen, outages>>

\* The line that ends at the chunk's first newline.
Newline == Min(Newlines(chunk))
Line    == partial \o SubSeq(chunk, 1, Newline - 1)
IsNew   == cur \notin skipping /\ Valid(Line) /\ Line[1] \notin seen

EndLine ==
  /\ mpc = "tail" /\ Newlines(chunk) # {}
  /\ off' = [off EXCEPT ![cur] = @ + Newline]
  /\ UNCHANGED log

\* A line is over: the end of a skipped one, or copied if it is a new key.
ChunkLine ==
  /\ EndLine
  /\ chunk' = SubSeq(chunk, Newline + 1, Len(chunk))
  /\ IF IsNew THEN seen' = seen \cup {Line[1]} /\ relay' = relay \o <<Line[1], NL>>
              ELSE UNCHANGED <<seen, relay>>
  /\ skipping' = skipping \ {cur} /\ partial' = <<>>
  /\ UNCHANGED <<mpc, todo, cur, eof, outages>>

\* What a write that did not finish leaves: nothing, a piece, all but the newline.
Unfinished(s, k) == {s, s \o <<Junk>>, s \o <<k>>}

\* The write fails: mergeTail returns with the key seen and the line behind it.
ChunkLineFails ==
  /\ "io" \in Faults /\ outages < MaxOutages /\ outages' = outages + 1
  /\ EndLine /\ IsNew
  /\ seen' = seen \cup {Line[1]} /\ relay' \in Unfinished(relay, Line[1])
  /\ OpenNext(todo) /\ chunk' = <<>> /\ eof' = FALSE /\ partial' = <<>> /\ UNCHANGED skipping

\* Mutant: the unterminated tail is not read again.
TailDoneForward ==
  /\ mpc = "tail" /\ chunk = <<>> /\ eof
  /\ OpenNext(todo) /\ eof' = FALSE /\ partial' = <<>>
  /\ UNCHANGED <<log, relay, chunk, off, skipping, seen, outages>>
\* The end of the file: the offset goes back to the start of the unterminated line.
TailDone ==
  /\ mpc = "tail" /\ chunk = <<>> /\ eof
  /\ off' = [off EXCEPT ![cur] = @ - Len(partial)]
  /\ OpenNext(todo) /\ eof' = FALSE /\ partial' = <<>>
  /\ UNCHANGED <<log, relay, chunk, skipping, seen, outages>>

\* The tls process dies.  What the hooks had written stays: a key lost there is
\* one that was never hooked.
MergeDies ==
  /\ mpc' = "down" /\ todo' = {} /\ chunk' = <<>> /\ eof' = FALSE /\ partial' = <<>>
  /\ seen' = {} /\ off' = [t \in Targets |-> 0] /\ skipping' = {}
  /\ UNCHANGED <<log, cur>>

mergeTail == ReadChunk \/ ChunkWithoutNewline \/ ChunkLine \/ TailDone
MergeStep == mergeLoop \/ mergeOnce \/ mergeTail
=============================================================================

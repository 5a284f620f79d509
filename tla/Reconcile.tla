------------------------------ MODULE Reconcile ------------------------------
(***************************************************************************)
(* The TLS reconciler's hooks (internal/tls/reconcile.go, config.go): every *)
(* tick reconcileOnce reads the operator's override file and the running   *)
(* containers, and starts and cancels one goroutine (runHook) per target.  *)
(* A goroutine runs eCapture, retries it when it exits, and ends some time *)
(* after it was cancelled: a target that goes and comes back may have the  *)
(* old goroutine and the new one side by side.                             *)
(*                                                                         *)
(* A container uses one TLS library, so a target's key is the name it has: *)
(* the container's id if it was discovered, and what the operator wrote if *)
(* it is an override.  It is hooked through a process, or as the override  *)
(* says.                                                                   *)
(***************************************************************************)
EXTENDS Naturals, Sequences, FiniteSets, TLC

CONSTANTS
  Containers,
  MaxPid,       \* bound: container starts
  MaxEdits,     \* bound: edits of the override file
  MaxOutages    \* bound: exits of eCapture, failed discoveries, stops of the process

ASSUME ReconcileAssumption ==
  IsFiniteSet(Containers) /\ {MaxPid, MaxEdits, MaxOutages} \subseteq Nat

\* Target.Container: a container's id, or the label the operator has for it.
Id(c)    == <<c, "id">>
Label(c) == <<c, "label">>
Names    == {Id(c) : c \in Containers} \cup {Label(c) : c \in Containers}

Bad      == [error |-> TRUE]
Override == 0
\* LoadConfig: the default of a missing file (auto), a parsed file, or an error.  An
\* entry of exclude stands for the name it is a part of.
Configs  == [auto : BOOLEAN, exclude : SUBSET Names, targets : SUBSET Names] \cup {Bad}

VARIABLES
  config,     \* the override file
  pid,        \* per container: its process, 0 if it does not run
  alive,      \* Run is running
  running,    \* reconcileOnce's map: key -> goroutine
  hooks,      \* the runHook goroutines: <<key, n>> -> its target and where it is
  cancelled,  \* goroutines whose context is cancelled
  pids, edits, outages

world == <<config, pid, pids, edits>>
rvars == <<world, alive, running, hooks, cancelled, outages>>

Nothing == [k \in {} |-> 0]

ReconcileInit ==
  /\ config = [auto |-> TRUE, exclude |-> {}, targets |-> {}]
  /\ pid = [k \in Containers |-> 0]
  /\ alive = FALSE /\ running = Nothing /\ hooks = Nothing /\ cancelled = {}
  /\ pids = 0 /\ edits = 0 /\ outages = 0

-----------------------------------------------------------------------------
\* The operator edits the file; containers come and go.
Edit ==
  /\ edits < MaxEdits /\ edits' = edits + 1
  /\ config' \in Configs \ {config}
  /\ UNCHANGED <<pid, pids, alive, running, hooks, cancelled, outages>>
ContainerUp(k) ==
  /\ pid[k] = 0 /\ pids < MaxPid /\ pids' = pids + 1
  /\ pid' = [pid EXCEPT ![k] = pids + 1]
  /\ UNCHANGED <<config, edits, alive, running, hooks, cancelled, outages>>
ContainerDown(k) ==
  /\ pid[k] # 0 /\ pid' = [pid EXCEPT ![k] = 0]
  /\ UNCHANGED <<config, pids, edits, alive, running, hooks, cancelled, outages>>

-----------------------------------------------------------------------------
\* Discover: the running containers, by their ids.
Discover == [k \in {Id(c) : c \in {c \in Containers : pid[c] # 0}} |-> pid[k[1]]]

PlanIncluding(c, auto) ==                                \* mutant: excludes only autos
  [k \in (IF c.auto THEN DOMAIN auto \ c.exclude ELSE {}) \cup c.targets |->
     IF k \in c.targets THEN Override ELSE auto[k]]
\* Plan: auto targets, if enabled, and the operator's, which win on a key that both have;
\* none whose own name is excluded (IsExcluded).
Plan(c, auto) ==
  [k \in ((IF c.auto THEN DOMAIN auto ELSE {}) \cup c.targets) \ c.exclude |->
     IF k \in c.targets THEN Override ELSE auto[k]]

\* The number of a new goroutine of key k.
Fresh(k) == CHOOSE n \in 1..(Cardinality(DOMAIN hooks) + 1) : <<k, n>> \notin DOMAIN hooks

\* go runHook(hctx, t), for each goroutine of new.
Starts(new, desired) ==
  hooks' = [h \in DOMAIN hooks \cup new |->
              IF h \in new THEN [target |-> desired[h[1]], at |-> "start"] ELSE hooks[h]]

CancelsNone(gone) == {}                                  \* mutant: only the map forgets it
Cancels(gone) == {running[k] : k \in gone}

\* Mutant: hooks are started, never stopped.
ApplyNew(desired) ==
  LET new == DOMAIN desired \ DOMAIN running IN
  /\ running' = running @@ [k \in new |-> <<k, Fresh(k)>>]
  /\ Starts({running'[k] : k \in new}, desired)
  /\ UNCHANGED cancelled
\* The hooks that are not desired any more are cancelled, those that are not running
\* yet are started; one that runs is left as it is, with the target it has.
Apply(desired) ==
  LET gone == DOMAIN running \ DOMAIN desired
      new  == DOMAIN desired \ DOMAIN running IN
  /\ cancelled' = cancelled \cup Cancels(gone)
  /\ running' = [k \in DOMAIN desired |-> IF k \in new THEN <<k, Fresh(k)>> ELSE running[k]]
  /\ Starts({running'[k] : k \in new}, desired)

\* An unparsable file keeps everything as it is; a failed discovery counts as one that
\* found nothing.
reconcileOnce ==
  /\ alive
  /\ \/ config = Bad /\ UNCHANGED <<running, hooks, cancelled, outages>>
     \/ config # Bad /\ Apply(Plan(config, Discover)) /\ UNCHANGED outages
     \/ /\ config # Bad /\ config.auto /\ Apply(Plan(config, Nothing))
        /\ outages < MaxOutages /\ outages' = outages + 1
  /\ UNCHANGED <<world, alive>>

\* runHook: eCapture runs if what it is to hook is there, else it exits at once.
Works(h) == hooks[h].target = Override \/ hooks[h].target = pid[h[1][1]]
Goto(h, at) == hooks' = [hooks EXCEPT ![h].at = at]
StartHook(h) ==
  /\ hooks[h].at = "start" /\ h \notin cancelled
  /\ Goto(h, IF Works(h) THEN "running" ELSE "backoff")
  /\ UNCHANGED <<world, alive, running, cancelled, outages>>
HookExits(h) ==
  /\ hooks[h].at = "running" /\ h \notin cancelled
  /\ outages < MaxOutages /\ outages' = outages + 1
  /\ Goto(h, "backoff")
  /\ UNCHANGED <<world, alive, running, cancelled>>
RetryOnce(h) == FALSE /\ UNCHANGED rvars                 \* mutant: an exit is final
Retry(h) ==
  /\ hooks[h].at = "backoff" /\ h \notin cancelled /\ Goto(h, "start")
  /\ UNCHANGED <<world, alive, running, cancelled, outages>>
\* A cancelled goroutine ends, its eCapture killed by the context.
HookEnds(h) ==
  /\ h \in cancelled
  /\ hooks' = [x \in DOMAIN hooks \ {h} |-> hooks[x]] /\ cancelled' = cancelled \ {h}
  /\ UNCHANGED <<world, alive, running, outages>>

\* The process stops, its goroutines with it, and starts again.
Stop ==
  /\ alive /\ outages < MaxOutages /\ outages' = outages + 1
  /\ alive' = FALSE /\ running' = Nothing /\ hooks' = Nothing /\ cancelled' = {}
  /\ UNCHANGED world
Run == ~alive /\ alive' = TRUE /\ UNCHANGED <<world, running, hooks, cancelled, outages>>

runHook(h) == StartHook(h) \/ Retry(h) \/ HookEnds(h)
ReconcileNext ==
  \/ Edit \/ \E k \in Containers : ContainerUp(k) \/ ContainerDown(k)
  \/ Run \/ reconcileOnce \/ Stop
  \/ \E h \in DOMAIN hooks : runHook(h) \/ HookExits(h)

ReconcileSpec == ReconcileInit /\ [][ReconcileNext]_rvars

\* The ticker, the goroutines and a restarted process go on; operator, containers and
\* failures owe nothing.
HookIds == Names \X (1..(MaxPid + MaxEdits + MaxOutages + 1))
FairReconcileSpec ==
  /\ ReconcileSpec
  /\ WF_rvars(Run) /\ WF_rvars(reconcileOnce)
  /\ \A h \in HookIds : WF_rvars(h \in DOMAIN hooks /\ runHook(h))

-----------------------------------------------------------------------------
Desired == Plan(config, Discover)

\* Types of the map, the goroutines and the world.
ReconcileTypeOK ==
  /\ config \in Configs /\ pid \in [Containers -> 0..MaxPid] /\ alive \in BOOLEAN
  /\ DOMAIN running \subseteq Names /\ DOMAIN hooks \subseteq Names \X Nat
  /\ \A h \in DOMAIN hooks : hooks[h] \in [target : 0..MaxPid, at : {"start", "running", "backoff"}]
  /\ cancelled \subseteq DOMAIN hooks
  /\ pids \in 0..MaxPid /\ edits \in 0..MaxEdits /\ outages \in 0..MaxOutages

\* The map and the goroutines agree: a goroutine that nobody has cancelled is the one
\* its key maps to, so no target is hooked twice for long and none is hooked unknown
\* to reconcileOnce, however targets come, go and come back.
HooksTracked ==
  /\ \A k \in DOMAIN running : running[k] \in DOMAIN hooks
  /\ \A h \in DOMAIN hooks :
       h \notin cancelled <=> h[1] \in DOMAIN running /\ running[h[1]] = h

\* The hooks follow the plan: again and again exactly the desired targets have a hook,
\* but while the file is unparsable ("keeps the last good state").
Converges ==
  []<>(config = Bad \/ {h[1] : h \in DOMAIN hooks} = DOMAIN Desired)

\* The valve works for the name a target goes by: no hook under an excluded name lasts,
\* not one the operator lists as a target either, and not one whose container is gone or
\* whose eCapture is being retried (IsExcluded, for a discovered target of the id alone).
ExcludedStops ==
  []<>(config = Bad \/ \A h \in DOMAIN hooks : h[1] \notin config.exclude)

\* "A crashing eCapture is retried" (runHook): a hook whose target is there is again and
\* again running.
HooksRun == []<>(\A h \in DOMAIN hooks : Works(h) => hooks[h].at = "running")

\* "It is reloaded on every reconcile so the infra operator can fix targeting mid-game
\* without a restart" (config.go): hooks get the target the plan has for them.
EditsApplied ==
  []<>(config = Bad \/ \A h \in DOMAIN hooks :
                         h[1] \in DOMAIN Desired /\ hooks[h].target = Desired[h[1]])

\* "Exclude lists container-id prefixes or labels to NEVER hook" (config.go): a container
\* excluded by its id or by its label is not hooked for long.
ExcludedByAnyName ==
  []<>(config = Bad \/ \A h \in DOMAIN hooks : {Id(h[1][1]), Label(h[1][1])} \cap config.exclude = {})
=============================================================================

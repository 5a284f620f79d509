----------------------------- MODULE AgentProofs -----------------------------
(***************************************************************************)
(* Theorems about the agent's two bystanders of the spool.  A durable      *)
(* epoch id stays (module Epoch), for any number of connections, ids and   *)
(* crashes.  The TLS reconciler never loses track of a hook (module        *)
(* Reconcile), for any set of containers and any number of edits, restarts *)
(* and failures.                                                           *)
(***************************************************************************)
EXTENDS Epoch, Reconcile, FiniteSetTheorems, TLAPS

-----------------------------------------------------------------------------
(* The epoch file.                                                         *)

\* The one caller whose O_EXCL create succeeded, until its id is durable.
Writing(c) == cpc[c] \in {"write", "sync"}

\* O_EXCL lets one caller write at a time, into a file that is not durable yet; the
\* file has what that caller has put there, and once it is durable it stays.
OneWriter ==
  /\ \A c, d \in Callers : Writing(c) /\ Writing(d) => c = d
  /\ \A c \in Callers :
       /\ cpc[c] \in {"create", "write", "sync"} => id[c] \in Ids
       /\ cpc[c] = "write" => content = Empty
       /\ cpc[c] = "sync" => content = id[c]
       /\ Writing(c) => synced \notin Ids
  /\ synced \in Ids => content = synced

EpochInv == EpochTypeOK /\ OneWriter

\* Every step keeps the types and the single writer.
LEMMA EpochInvStep == EpochInv /\ [EpochNext]_evars => EpochInv'
<1> SUFFICES ASSUME EpochInv, [EpochNext]_evars PROVE EpochInv'
  OBVIOUS
<1> USE EpochAssumption DEF EpochInv, EpochTypeOK, OneWriter, Writing, NoFile, Empty
<1>1. ASSUME NEW c \in Callers, Call(c) PROVE EpochInv'
  BY <1>1 DEF Call, Returns, Goes, readEpoch, Undrawn
<1>2. ASSUME NEW c \in Callers, Create(c) PROVE EpochInv'
  BY <1>2 DEF Create, Goes
<1>3. ASSUME NEW c \in Callers, Reread(c) PROVE EpochInv'
  BY <1>3 DEF Reread, Returns, Goes, readEpoch
<1>4. ASSUME NEW c \in Callers, WriteString(c) PROVE EpochInv'
  BY <1>4 DEF WriteString, Goes
<1>5. ASSUME NEW c \in Callers, Sync(c) PROVE EpochInv'
  BY <1>5 DEF Sync, Returns, Goes
<1>6. CASE Kill
  BY <1>6 DEF Kill, Die
<1>7. CASE PowerCut
  BY <1>7 DEF PowerCut, Die
<1>8. CASE UNCHANGED evars
  BY <1>8 DEF evars
<1> QED
  BY <1>1, <1>2, <1>3, <1>4, <1>5, <1>6, <1>7, <1>8 DEF EpochNext, CallStep

\* A step from a state with a durable id keeps that id and returns no other.
LEMMA StaysStep ==
  ASSUME EpochInv, EpochNext, synced \in Ids
  PROVE  synced' = synced /\ returned' \subseteq returned \cup {synced}
<1> USE EpochAssumption DEF EpochInv, EpochTypeOK, OneWriter, Writing, NoFile, Empty
<1>1. ASSUME NEW c \in Callers, Call(c) \/ CallStep(c)
      PROVE  synced' = synced /\ returned' \subseteq returned \cup {synced}
  BY <1>1 DEF Call, CallStep, Create, Reread, WriteString, Sync, Returns, Goes, readEpoch
<1>2. CASE Kill \/ PowerCut
  BY <1>2 DEF Kill, PowerCut, Die
<1> QED BY <1>1, <1>2 DEF EpochNext

\* An id that has been fdatasync'd with its name is never replaced, and every later
\* call of Epoch returns it, whatever connections race and whenever the process or the
\* machine dies.
THEOREM EpochStaysHolds == EpochSpec => EpochStays
<1>1. EpochInit => EpochInv
  BY EpochAssumption
  DEF EpochInit, EpochInv, EpochTypeOK, OneWriter, Writing, NoFile, Empty
<1>2. EpochInv /\ [EpochNext]_evars
        => [(synced \in Ids) => synced' = synced /\ returned' \subseteq returned \cup {synced}]_evars
  BY StaysStep DEF evars
<1> QED BY <1>1, <1>2, EpochInvStep, PTL DEF EpochSpec, EpochStays

-----------------------------------------------------------------------------
(* The reconciler's hooks.                                                 *)

\* What HooksTracked rests on: goroutines are finitely many, each knows its key, and the
\* map has a key's own goroutine.
Keyed ==
  /\ config \in Configs
  /\ IsFiniteSet(DOMAIN hooks) /\ DOMAIN hooks \subseteq Names \X Nat
  /\ cancelled \subseteq DOMAIN hooks
  /\ DOMAIN running \subseteq Names
  /\ \A k \in DOMAIN running : running[k][1] = k

Tracked == Keyed /\ HooksTracked

\* A new goroutine's number is one that no goroutine of its key has: of the
\* Cardinality + 1 candidates the living goroutines cannot have taken all.
LEMMA FreshIsNew ==
  ASSUME IsFiniteSet(DOMAIN hooks), NEW k
  PROVE  Fresh(k) \in Nat /\ <<k, Fresh(k)>> \notin DOMAIN hooks
<1> DEFINE m == Cardinality(DOMAIN hooks)
           S == 1..(m + 1)
<1>1. m \in Nat
  BY FS_CardinalityType
<1>2. \E n \in S : <<k, n>> \notin DOMAIN hooks
  <2> SUFFICES ASSUME \A n \in S : <<k, n>> \in DOMAIN hooks PROVE FALSE
    OBVIOUS
  <2> DEFINE f == [n \in S |-> <<k, n>>]
  <2>1. IsFiniteSet(S) /\ Cardinality(S) = m + 1
    BY <1>1, FS_Interval, SMTT(20)
  <2>2. f \in [S -> DOMAIN hooks]
    OBVIOUS
  <2>3. \E x, y \in S : x # y /\ f[x] = f[y]
    <3>1. m < Cardinality(S)
      BY <1>1, <2>1
    <3> HIDE DEF f
    <3> QED BY <2>1, <2>2, <3>1, FS_PigeonHole, Zenon
  <2> QED BY <2>3
<1>3. Fresh(k) \in S /\ <<k, Fresh(k)>> \notin DOMAIN hooks
  BY <1>2 DEF Fresh
<1> QED BY <1>1, <1>3

\* The image of a finite set of keys under the new map is finite.
LEMMA StartedFinite ==
  ASSUME NEW f, NEW N, IsFiniteSet(N)
  PROVE  IsFiniteSet({f[k] : k \in N})
<1> DEFINE T == {f[k] : k \in N}
           g == [k \in N |-> f[k]]
<1>1. g \in Surjection(N, T)
  BY DEF Surjection
<1> QED BY <1>1, FS_Surjection

\* Containers have finitely many names.
LEMMA NamesFinite == IsFiniteSet(Names)
<1> DEFINE I == {Id(c) : c \in Containers}
           L == {Label(c) : c \in Containers}
<1>1. IsFiniteSet(I)
  <2> DEFINE g == [c \in Containers |-> Id(c)]
  <2>1. g \in Surjection(Containers, I)
    BY DEF Surjection
  <2> QED BY <2>1, ReconcileAssumption, FS_Surjection
<1>2. IsFiniteSet(L)
  <2> DEFINE g == [c \in Containers |-> Label(c)]
  <2>1. g \in Surjection(Containers, L)
    BY DEF Surjection
  <2> QED BY <2>1, ReconcileAssumption, FS_Surjection
<1>3. Names = I \cup L
  BY DEF Names
<1> HIDE DEF I, L
<1> QED BY <1>1, <1>2, <1>3, FS_Union, Zenon

\* Applying a plan keeps the map and the goroutines in step.
LEMMA ApplyKeeps ==
  ASSUME Tracked, NEW desired, DOMAIN desired \subseteq Names, Apply(desired),
         UNCHANGED config
  PROVE  Tracked'
<1> DEFINE gone == DOMAIN running \ DOMAIN desired
           new  == DOMAIN desired \ DOMAIN running
           started == {running'[k] : k \in new}
<1> USE DEF Tracked, Keyed, HooksTracked
<1>1. cancelled' = cancelled \cup {running[k] : k \in gone}
  BY DEF Apply, Cancels
<1>2. /\ DOMAIN running' = DOMAIN desired
      /\ \A k \in new : running'[k] = <<k, Fresh(k)>>
      /\ \A k \in DOMAIN desired \ new : running'[k] = running[k]
  BY DEF Apply
<1>3. DOMAIN hooks' = DOMAIN hooks \cup started
  BY DEF Apply, Starts
<1>4. \A k \in new : /\ running'[k][1] = k /\ running'[k] \notin DOMAIN hooks
                     /\ running'[k] \in Names \X Nat
  BY <1>2, FreshIsNew
<1> HIDE DEF gone
<1>5. IsFiniteSet(DOMAIN hooks') /\ DOMAIN hooks' \subseteq Names \X Nat
  <2>1. IsFiniteSet(new)
    BY NamesFinite, FS_Subset
  <2>2. IsFiniteSet(started)
    BY <2>1, StartedFinite
  <2>3. IsFiniteSet(DOMAIN hooks \cup started)
    <3> HIDE DEF started
    <3> QED BY <2>2, FS_Union, Zenon
  <2> QED BY <1>3, <1>4, <2>3
<1>6. \A k \in DOMAIN running' : running'[k][1] = k
  BY <1>2, <1>4
<1>7. cancelled' \subseteq DOMAIN hooks'
  BY <1>1, <1>3 DEF gone
<1>8. \A k \in DOMAIN running' : running'[k] \in DOMAIN hooks'
  BY <1>2, <1>3
<1>9. ASSUME NEW h \in DOMAIN hooks'
      PROVE  h \notin cancelled' <=> h[1] \in DOMAIN running' /\ running'[h[1]] = h
  <2>1. CASE h \in started
    <3>1. PICK k \in new : h = running'[k]
      BY <2>1
    <3>2. h \notin DOMAIN hooks /\ h[1] = k
      BY <3>1, <1>4
    <3> QED BY <3>1, <3>2, <1>1, <1>2 DEF gone
  <2>2. CASE h \notin started
    <3>1. h \in DOMAIN hooks
      BY <2>2, <1>3
    <3>2. h \in cancelled' <=> h \in cancelled \/ (h[1] \in gone /\ running[h[1]] = h)
      BY <1>1 DEF gone
    <3>3. h[1] \in DOMAIN running' /\ running'[h[1]] = h
            <=> h[1] \in DOMAIN desired \ new /\ running[h[1]] = h
      BY <2>2, <1>2
    <3> QED BY <3>1, <3>2, <3>3 DEF gone
  <2> QED BY <2>1, <2>2
<1> QED BY <1>2, <1>5, <1>6, <1>7, <1>8, <1>9

\* A plan is about names of containers.
LEMMA PlanKeys ==
  ASSUME config \in Configs, config # Bad, NEW auto, DOMAIN auto \subseteq Names
  PROVE  DOMAIN Plan(config, auto) \subseteq Names
BY DEF Configs, Plan

LEMMA TrackedStep == Tracked /\ [ReconcileNext]_rvars => Tracked'
<1> SUFFICES ASSUME Tracked, [ReconcileNext]_rvars PROVE Tracked'
  OBVIOUS
<1> USE DEF Tracked, Keyed, HooksTracked
<1>1. CASE Edit
  BY <1>1 DEF Edit
<1>2. ASSUME NEW k \in Containers, ContainerUp(k) \/ ContainerDown(k) PROVE Tracked'
  BY <1>2 DEF ContainerUp, ContainerDown
<1>3. CASE Run
  BY <1>3 DEF Run, world
<1>4. CASE reconcileOnce
  <2>1. CASE config = Bad
    BY <1>4, <2>1 DEF reconcileOnce, world
  <2>2. CASE config # Bad
    <3>1. DOMAIN Discover \subseteq Names /\ DOMAIN Nothing \subseteq Names
      BY DEF Discover, Nothing, Names
    <3>2. /\ DOMAIN Plan(config, Discover) \subseteq Names
          /\ DOMAIN Plan(config, Nothing) \subseteq Names
      BY <2>2, <3>1, PlanKeys
    <3>3. Apply(Plan(config, Discover)) \/ Apply(Plan(config, Nothing))
      BY <1>4, <2>2 DEF reconcileOnce
    <3>4. UNCHANGED config
      BY <1>4 DEF reconcileOnce, world
    <3> QED BY <3>2, <3>3, <3>4, ApplyKeeps
  <2> QED BY <2>1, <2>2
<1>5. CASE Stop
  BY <1>5, FS_EmptySet DEF Stop, Nothing, world
<1>6. ASSUME NEW h \in DOMAIN hooks, StartHook(h) \/ Retry(h) \/ HookExits(h) PROVE Tracked'
  <2>1. DOMAIN hooks' = DOMAIN hooks /\ UNCHANGED <<config, running, cancelled>>
    BY <1>6 DEF StartHook, Retry, HookExits, Goto, world
  <2> QED BY <2>1
<1>7. ASSUME NEW h \in DOMAIN hooks, HookEnds(h) PROVE Tracked'
  <2>1. /\ DOMAIN hooks' = DOMAIN hooks \ {h} /\ h \in cancelled
        /\ cancelled' = cancelled \ {h} /\ UNCHANGED <<config, running>>
    BY <1>7 DEF HookEnds, world
  <2>2. IsFiniteSet(DOMAIN hooks')
    BY <2>1, FS_RemoveElement
  <2> QED BY <2>1, <2>2
<1>8. CASE UNCHANGED rvars
  BY <1>8 DEF rvars, world
<1> QED BY <1>1, <1>2, <1>3, <1>4, <1>5, <1>6, <1>7, <1>8 DEF ReconcileNext, runHook

\* However the operator edits the file, containers come and go, discoveries fail, hooks
\* exit late and the process restarts: a goroutine that nobody cancelled is the one
\* reconcileOnce's map has for its key.
THEOREM HooksTrackedHolds == ReconcileSpec => []HooksTracked
<1>1. ReconcileInit => Tracked
  BY FS_EmptySet DEF ReconcileInit, Tracked, Keyed, HooksTracked, Nothing, Configs
<1>2. Tracked => HooksTracked
  BY DEF Tracked
<1> QED BY <1>1, <1>2, TrackedStep, PTL DEF ReconcileSpec
=============================================================================

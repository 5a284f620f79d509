-------------------------------- MODULE Epoch --------------------------------
(***************************************************************************)
(* The spool directory's instance id (internal/spool/epoch.go).  Every     *)
(* serve connection calls Epoch as it starts (RunServe), so that several   *)
(* calls run at once in a new directory.                                   *)
(***************************************************************************)
EXTENDS Integers, FiniteSets

CONSTANTS
  Callers,     \* connections
  Ids,         \* the random ids
  MaxCrashes,  \* bound: crashes in a behaviour
  Faults       \* the faults that may happen

NoFile == -1
Empty  == 0                   \* the empty string

ASSUME EpochAssumption ==
  /\ IsFiniteSet(Callers) /\ IsFiniteSet(Ids) /\ Ids \cap {NoFile, Empty} = {}
  /\ MaxCrashes \in Nat /\ Faults \subseteq {"kill", "power"}

VARIABLES
  content,   \* the epoch file: NoFile, Empty, or an id
  synced,    \* what is durable of it
  cpc, id,   \* per caller: its step, the id it drew
  returned,  \* the values returned so far
  crashes

evars == <<content, synced, cpc, id, returned, crashes>>

EpochInit ==
  /\ content = NoFile /\ synced = NoFile
  /\ cpc = [c \in Callers |-> "idle"] /\ id = [c \in Callers |-> Empty]
  /\ returned = {} /\ crashes = 0

\* readEpoch: no file reads as the empty string, like a file with nothing in it.
readEpoch == IF content = NoFile THEN Empty ELSE content

Goes(c, step) == cpc' = [cpc EXCEPT ![c] = step]

Returns(c, value) ==
  /\ Goes(c, "idle")
  /\ id' = [id EXCEPT ![c] = Empty]
  /\ returned' = returned \cup {value}

\* Ids that no call has drawn or returned: 64 random bits do not repeat.
Undrawn == Ids \ ({id[c] : c \in Callers} \cup returned \cup {content, synced})

\* The call, its first readEpoch, and the random id if there is none.
Call(c) ==
  /\ cpc[c] = "idle"
  /\ \/ readEpoch # Empty /\ Returns(c, readEpoch)
     \/ /\ readEpoch = Empty
        /\ \E new \in Undrawn : id' = [id EXCEPT ![c] = new]
        /\ Goes(c, "create")
        /\ UNCHANGED returned
  /\ UNCHANGED <<content, synced, crashes>>

\* Mutant: without O_EXCL.
CreateAnyway(c) ==
  /\ cpc[c] = "create"
  /\ content' = Empty /\ Goes(c, "write")
  /\ UNCHANGED <<synced, id, returned, crashes>>
\* OpenFile with O_CREATE and O_EXCL: the loser of a race reads the file again.
Create(c) ==
  /\ cpc[c] = "create"
  /\ \/ content = NoFile /\ content' = Empty /\ Goes(c, "write")
     \/ content # NoFile /\ Goes(c, "reread") /\ UNCHANGED content
  /\ UNCHANGED <<synced, id, returned, crashes>>

Reread(c) ==
  /\ cpc[c] = "reread"
  /\ Returns(c, readEpoch)
  /\ UNCHANGED <<content, synced, crashes>>

WriteString(c) ==
  /\ cpc[c] = "write" /\ Goes(c, "sync")
  /\ content' = id[c]
  /\ UNCHANGED <<synced, id, returned, crashes>>

\* Fdatasync and SyncDir.
Sync(c) ==
  /\ cpc[c] = "sync"
  /\ synced' = content
  /\ Returns(c, id[c])
  /\ UNCHANGED <<content, crashes>>

\* The process dies; or the machine does, and an unsynced file is whole, empty or gone.
Die(fault) ==
  /\ fault \in Faults /\ crashes < MaxCrashes
  /\ crashes' = crashes + 1
  /\ cpc' = [c \in Callers |-> "idle"] /\ id' = [c \in Callers |-> Empty]
  /\ UNCHANGED returned
Kill     == Die("kill") /\ UNCHANGED <<content, synced>>
PowerCut ==
  /\ Die("power")
  /\ content' \in IF content = synced THEN {content} ELSE {content, Empty, synced}
  /\ synced' = content'

CallStep(c) == Create(c) \/ Reread(c) \/ WriteString(c) \/ Sync(c)

EpochNext == Kill \/ PowerCut \/ \E c \in Callers : Call(c) \/ CallStep(c)

EpochSpec == EpochInit /\ [][EpochNext]_evars
\* The collectors reconnect forever, and a call that has begun goes on.
FairEpochSpec == EpochSpec /\ \A c \in Callers : WF_evars(Call(c) \/ CallStep(c))

-----------------------------------------------------------------------------
\* Types of the file's and the callers' state.
EpochTypeOK ==
  /\ {content, synced} \subseteq Ids \cup {Empty, NoFile}
  /\ cpc \in [Callers -> {"idle", "create", "reread", "write", "sync"}]
  /\ id \in [Callers -> Ids \cup {Empty}]
  /\ returned \subseteq Ids \cup {Empty} /\ crashes \in 0..MaxCrashes

\* A durable id stays, and from then on it is the only one any call returns: no call
\* replaces it and no crash takes it away, so the collector, which takes another id
\* for a wiped spool (reconcileEpoch), never sees one without a wipe.
EpochStays ==
  [][(synced \in Ids) => synced' = synced /\ returned' \subseteq returned \cup {synced}]_evars

\* No two calls return different ids, whichever order they race in and wherever the
\* process dies.
OneEpoch == Cardinality(returned \ {Empty}) <= 1

\* "all readers agree on one epoch per directory instance"
AllAgree == Cardinality(returned) <= 1

\* In the end the directory has its id.
EpochKnown == <>[](content \in Ids)
=============================================================================

-------------------------------- MODULE Relay --------------------------------
(***************************************************************************)
(* What the collector does with the packets it relays, without files,      *)
(* connections and crashes: it takes the packets of a spool instance in    *)
(* order, each one once, and skips only what retention dropped.  When the  *)
(* spool was replaced it goes on with the new one, at the retention edge   *)
(* or before it, or at the position it had in the old one: the packets of  *)
(* the new one below that position are lost then.                          *)
(***************************************************************************)
EXTENDS Integers

CONSTANTS MaxGpidx, MaxEpoch

VARIABLES
  current, captured, oldest,  \* the agent: spool instance; head and edge of each
  inst, next,                 \* the relay: its instance (0: none yet), next gpidx
  log                         \* the packets it holds

relayVars == <<current, captured, oldest, inst, next, log>>
agent     == <<current, captured, oldest>>

RelayInit ==
  /\ current = 1
  /\ captured = [e \in 1..MaxEpoch |-> 0] /\ oldest = [e \in 1..MaxEpoch |-> 0]
  /\ inst = 0 /\ next = 0 /\ log = {}

\* The agent captures, drops old packets, or is redeployed.
Agent ==
  /\ current' \in current..MaxEpoch
  /\ \E e \in 1..MaxEpoch :
       /\ captured' \in {[captured EXCEPT ![e] = n] : n \in captured[e]..MaxGpidx}
       /\ oldest' \in {[oldest EXCEPT ![e] = n] : n \in oldest[e]..captured'[e]}
  /\ UNCHANGED <<inst, next, log>>

\* The next packets, none of them for the second time.
Deliver ==
  /\ inst # 0
  /\ \E end \in (next + 1)..captured[inst] :
       LET new == {<<inst, g>> : g \in next..(end - 1)} IN
       /\ new \cap log = {}
       /\ next' = end /\ log' = log \cup new
  /\ UNCHANGED <<agent, inst>>

\* Packets that retention dropped are given up.
Skip ==
  /\ inst # 0
  /\ next' \in (next + 1)..oldest[inst]
  /\ UNCHANGED <<agent, inst, log>>

\* First contact with a spool instance, or with a newer one.
Realign ==
  /\ inst' \in (inst + 1)..current
  /\ \/ next' = next /\ next <= captured[inst']
     \/ inst # 0 /\ next' \in 0..oldest[inst']
  /\ UNCHANGED <<agent, log>>

RelayNext == Agent \/ Deliver \/ Skip \/ Realign

RelaySpec == RelayInit /\ [][RelayNext]_relayVars
=============================================================================

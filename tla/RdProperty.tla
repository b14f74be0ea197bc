------------------------------- MODULE RdProperty ------------------------------
(***************************************************************************)
(* A reactive property bound at both ends of a wire (RdPropertyBase over   *)
(* Property).  Each end may set it; a set is sent with the version of the  *)
(* end, and the end that is_master counts its sets in the version and      *)
(* rejects what was set without knowledge of its latest.                   *)
(***************************************************************************)
EXTENDS WireEnds

CONSTANTS
  Values,         \* what the property can hold
  Initial,        \* what both ends hold when they are bound
  MaxSets         \* bound: sets that change the property

ASSUME RdPropertyAssumption ==
  /\ Initial \in Values
  /\ MaxSets \in Nat

VARIABLES
  value,           \* [Peers -> Values]
  master_version,  \* [Peers -> Nat]
  wire,            \* [Peers -> messages on the way to the end]
  sets             \* number of sets so far

vars == <<value, master_version, wire, sets>>

Message == [version : Nat, value : Values]

Init ==
  /\ value = [p \in Peers |-> Initial]
  /\ master_version = [p \in Peers |-> 0]
  /\ wire = [p \in Peers |-> <<>>]
  /\ sets = 0

\* The version a local set of p is sent with.
NextVersion(p) == IF is_master(p) THEN master_version[p] + 1 ELSE master_version[p]

\* set: a local change.  An equal value changes nothing and is not sent.
Set(p, v) ==
  /\ sets < MaxSets /\ v # value[p]
  /\ value' = [value EXCEPT ![p] = v]
  /\ master_version' = [master_version EXCEPT ![p] = NextVersion(p)]
  /\ wire' = [wire EXCEPT ![Other(p)] =
                Append(@, [version |-> NextVersion(p), value |-> v])]
  /\ sets' = sets + 1

\* (Broken: a message of the version the master has is rejected, too.)
RejectedEqual(p, message) == is_master(p) /\ message.version <= master_version[p]

\* (Broken: nothing is rejected.)
RejectedNever(p, message) == FALSE

\* on_wire_received: what the master rejects.
Rejected(p, message) == is_master(p) /\ message.version < master_version[p]

\* on_wire_received: the change is not local, so it is not sent back.
Receive(p) ==
  /\ wire[p] # <<>>
  /\ wire' = [wire EXCEPT ![p] = Tail(@)]
  /\ LET message == Head(wire[p]) IN
       IF Rejected(p, message)
       THEN UNCHANGED <<value, master_version>>
       ELSE /\ master_version' = [master_version EXCEPT ![p] = message.version]
            /\ value' = [value EXCEPT ![p] = message.value]
  /\ UNCHANGED sets

Done == sets = MaxSets /\ wire = [p \in Peers |-> <<>>] /\ UNCHANGED vars

Next == Done \/ \E p \in Peers : Receive(p) \/ \E v \in Values : Set(p, v)

Fairness == \A p \in Peers : WF_vars(Receive(p))
Spec == Init /\ [][Next]_vars /\ Fairness
-----------------------------------------------------------------------------
TypeOK ==
  /\ value \in [Peers -> Values]
  /\ master_version \in [Peers -> Nat]
  /\ wire \in [Peers -> Seq(Message)]
  /\ sets \in 0..MaxSets

Quiet == \A p \in Peers : wire[p] = <<>>

\* When nothing is on its way the ends agree, whatever sets of the two ends
\* crossed: a rejected set of the slave is overwritten at the slave, too.
Converged == Quiet => value[Master] = value[Slave]

\* The master never hears of a version it has not given out, and the slave is
\* exactly as many versions behind as messages are on the way to it.
SlaveBehind ==
  /\ master_version[Master] = master_version[Slave] + Len(wire[Slave])
  /\ \A i \in DOMAIN wire[Master] :
       wire[Master][i].version <= master_version[Slave]

\* What the master set last is not undone by a set the slave made before it
\* heard of it: the master takes a value of the slave only when the slave has
\* received everything the master sent.
MasterNotUndone ==
  [][\A p \in {Master} :
       (sets' = sets /\ value'[p] # value[p]) => wire[Slave] = <<>>]_vars

===============================================================================

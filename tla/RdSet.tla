--------------------------------- MODULE RdSet ---------------------------------
(***************************************************************************)
(* A reactive set bound at both ends of a wire (RdSet over ViewableSet).   *)
(* A change is sent as it is: it has no number and there is no master, so  *)
(* that what the ends do with one element at the same time is not noticed. *)
(***************************************************************************)
EXTENDS WireEnds

CONSTANTS
  Members,
  MaxSetChanges  \* bound: local changes at an end

VARIABLES
  set,         \* [Peers -> SUBSET Members]
  setWire,     \* [Peers -> messages on the way to the end]
  setChanges,  \* [Peers -> number of local changes]
  collided     \* members changed with a change of theirs on the way (for the properties)

setVars == <<set, setWire, setChanges, collided>>

SetInit ==
  /\ set = [p \in Peers |-> {}]
  /\ setWire = [p \in Peers |-> <<>>]
  /\ setChanges = [p \in Peers |-> 0]
  /\ collided = {}

\* add of a present member and remove of an absent one are no changes.
IsChange(p, v, adds) == adds = (v \notin set[p])

With(s, v, adds) == IF adds THEN s \cup {v} ELSE s \ {v}

OnTheWay(p, v) == \E i \in DOMAIN setWire[p] : setWire[p][i].member = v

\* add, remove; clear is a removal of every member, one after the other.
SetChange(p, v, adds) ==
  /\ setChanges[p] < MaxSetChanges /\ IsChange(p, v, adds)
  /\ set' = [set EXCEPT ![p] = With(@, v, adds)]
  /\ setWire' = [setWire EXCEPT ![Other(p)] = Append(@, [member |-> v, adds |-> adds])]
  /\ setChanges' = [setChanges EXCEPT ![p] = @ + 1]
  /\ collided' = IF OnTheWay(p, v) THEN collided \cup {v} ELSE collided

\* (Broken: a received removal is forgotten.)
AddsOnly(p, message) == IF message.adds THEN set[p] \cup {message.member} ELSE set[p]

\* What the set becomes with a received change.
Received(p, message) == With(set[p], message.member, message.adds)

\* on_wire_received: not a local change, so it is not sent back.
ReceiveSetChange(p) ==
  /\ setWire[p] # <<>>
  /\ set' = [set EXCEPT ![p] = Received(p, Head(setWire[p]))]
  /\ setWire' = [setWire EXCEPT ![p] = Tail(@)]
  /\ UNCHANGED <<setChanges, collided>>

SetNext ==
  \E p \in Peers :
    \/ \E v \in Members, adds \in BOOLEAN : SetChange(p, v, adds)
    \/ ReceiveSetChange(p)

SetSpec == SetInit /\ [][SetNext]_setVars
-----------------------------------------------------------------------------
\* When nothing is on its way the ends agree about every member, except one
\* that an end changed while a change of the other was on the way to it.
SetConvergedUnlessCollided ==
  (\A p \in Peers : setWire[p] = <<>>) =>
    \A v \in Members \ collided : v \in set[Master] <=> v \in set[Slave]
===============================================================================

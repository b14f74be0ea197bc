--------------------------------- MODULE RdMap ---------------------------------
(***************************************************************************)
(* A reactive map bound at both ends of a wire (RdMap over ViewableMap).   *)
(* The master numbers its changes and keeps the number of a key pending    *)
(* until the slave has acknowledged it; meanwhile it rejects what the      *)
(* slave changes under that key.                                           *)
(*                                                                         *)
(* pendingForAck holds pointers to keys.  Those of an entry that was       *)
(* removed are read after their end: a lookup then finds the entry or not. *)
(***************************************************************************)
EXTENDS WireEnds, FiniteSets

CONSTANTS
  Keys, MapValues,
  Absent,         \* no value under a key
  MaxMapChanges   \* bound: local changes at an end

ASSUME RdMapAssumption == Absent \notin MapValues /\ MaxMapChanges \in Nat

VARIABLES
  map,            \* [Peers -> [Keys -> MapValues or Absent]]
  next_version,   \* number of the master's last change
  pendingForAck,  \* entries of the master: key, version, whether its key lives
  mapWire,        \* [Peers -> messages on the way to the end]
  mapChanges,     \* [Peers -> number of local changes]
  \* for the properties
  unguarded,      \* keys the master changed without a pending entry that stays
  ackErrors       \* keys whose acknowledgement was logged as an error

mapVars == <<map, next_version, pendingForAck, mapWire, mapChanges, unguarded, ackErrors>>

EmptyMap == [k \in Keys |-> Absent]

MapInit ==
  /\ map = [p \in Peers |-> EmptyMap]
  /\ next_version = 0
  /\ pendingForAck = {}
  /\ mapWire = [p \in Peers |-> <<>>]
  /\ mapChanges = [p \in Peers |-> 0]
  /\ unguarded = {} /\ ackErrors = {}

\* What looking a key up in pendingForAck may find.
Lookup(k) ==
  LET entries == {e \in pendingForAck : e.key = k}
  IN  {{e} : e \in entries} \cup
      (IF \E e \in entries : e.live THEN {} ELSE {{}})

\* emplace: an entry that is found stays as it is.
Pending(k, lives, found) ==
  LET removed(e) == [e EXCEPT !.live = @ /\ (lives \/ e.key # k)]
      added == IF found = {}
               THEN {[key |-> k, version |-> next_version + 1, live |-> lives]} ELSE {}
  IN  pendingForAck' = {removed(e) : e \in pendingForAck} \cup added

\* set, remove: a local change, v = Absent for remove.  Neither an equal value
\* nor the removal of an absent key is a change.  clear is a removal of every key, one
\* after the other.
MapChange(p, k, v) ==
  /\ mapChanges[p] < MaxMapChanges /\ v # map[p][k]
  /\ map' = [map EXCEPT ![p][k] = v]
  /\ mapChanges' = [mapChanges EXCEPT ![p] = @ + 1]
  /\ IF is_master(p)
     THEN \E found \in Lookup(k) :
            /\ Pending(k, v # Absent, found)
            /\ unguarded' = IF found # {} \/ v = Absent THEN unguarded \cup {k} ELSE unguarded
            /\ next_version' = next_version + 1
     ELSE UNCHANGED <<pendingForAck, next_version, unguarded>>
  /\ mapWire' = [mapWire EXCEPT ![Other(p)] = Append(@,
       [op |-> "put", key |-> k, value |-> v,
        version |-> IF is_master(p) THEN next_version + 1 ELSE 0])]
  /\ UNCHANGED ackErrors

Acknowledgement(message) ==
  [op |-> "ACK", key |-> message.key, value |-> Absent, version |-> message.version]

\* (Broken: the master takes what the slave changed while its own is pending.)
RejectedMapNever(p, message, found) == FALSE

\* What the master rejects: it has changed the key and was not yet answered.
RejectedMap(p, message, found) ==
  /\ message.version = 0 /\ is_master(p)
  /\ found # {}

\* on_wire_received of a change: it is not sent back, but acknowledged when
\* it has a version.
ReceiveChange(p) ==
  /\ mapWire[p] # <<>> /\ Head(mapWire[p]).op = "put"
  /\ LET message == Head(mapWire[p]) IN
     \E found \in Lookup(message.key) :
       /\ map' = IF RejectedMap(p, message, found) THEN map
                 ELSE [map EXCEPT ![p][message.key] = message.value]
       /\ mapWire' = IF message.version = 0
                     THEN [mapWire EXCEPT ![p] = Tail(@)]
                     ELSE [mapWire EXCEPT ![p] = Tail(@),
                             ![Other(p)] = Append(@, Acknowledgement(message))]
       /\ pendingForAck' =
            IF is_master(p) /\ map'[p][message.key] = Absent
            THEN {[e EXCEPT !.live = @ /\ e.key # message.key] : e \in pendingForAck}
            ELSE pendingForAck
  /\ UNCHANGED <<next_version, mapChanges, unguarded, ackErrors>>

\* What an acknowledgement ends: only the entry of the version it names.
Acknowledges(message, found) == {e \in found : e.version = message.version}

\* on_wire_received of an acknowledgement, which only the master gets.  None
\* pending, or an older one, is logged as an error; a newer one is not.
ReceiveAck ==
  /\ mapWire[Master] # <<>> /\ Head(mapWire[Master]).op = "ACK"
  /\ mapWire' = [mapWire EXCEPT ![Master] = Tail(@)]
  /\ LET message == Head(mapWire[Master]) IN
     \E found \in Lookup(message.key) :
       /\ pendingForAck' = pendingForAck \ Acknowledges(message, found)
       /\ ackErrors' = IF \E e \in found : e.version >= message.version THEN ackErrors
                       ELSE ackErrors \cup {message.key}
  /\ UNCHANGED <<map, next_version, mapChanges, unguarded>>

MapNext ==
  \/ \E p \in Peers, k \in Keys, v \in MapValues \cup {Absent} : MapChange(p, k, v)
  \/ \E p \in Peers : ReceiveChange(p)
  \/ ReceiveAck

MapSpec == MapInit /\ [][MapNext]_mapVars
-----------------------------------------------------------------------------
\* When nothing is on its way the ends agree under every key the master changed
\* only after its former change was acknowledged, whatever changes of the slave
\* crossed; such a change is no longer pending, and no acknowledgement of it
\* was taken for an error.
MapConvergedUnlessUnguarded ==
  \A k \in Keys \ unguarded :
    /\ k \notin ackErrors
    /\ (\A p \in Peers : mapWire[p] = <<>>) =>
         /\ map[Master][k] = map[Slave][k]
         /\ \A e \in pendingForAck : e.key # k

===============================================================================

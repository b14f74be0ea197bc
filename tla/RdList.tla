-------------------------------- MODULE RdList ---------------------------------
(***************************************************************************)
(* A reactive list bound at both ends of a wire (RdList over ViewableList).*)
(* Both ends count the changes they made and received in next_version; a   *)
(* change that arrives with another number than the next was made without  *)
(* knowledge of a change of this end, and is reported as a conflict.       *)
(***************************************************************************)
EXTENDS WireEnds, SequencesExt

CONSTANTS
  Elements,
  MaxListChanges  \* bound: local changes at an end

VARIABLES
  list,          \* [Peers -> Seq(Elements)]
  list_version,  \* [Peers -> number of the next change] (next_version)
  listWire,      \* [Peers -> messages on the way to the end]
  listChanges,   \* [Peers -> number of local changes]
  \* for the properties
  conflicts,     \* ends that reported a conflict
  crossed        \* an end changed the list with a change of the other on the way

listVars == <<list, list_version, listWire, listChanges, conflicts, crossed>>

ListInit ==
  /\ list = [p \in Peers |-> <<>>]
  /\ list_version = [p \in Peers |-> 1]
  /\ listWire = [p \in Peers |-> <<>>]
  /\ listChanges = [p \in Peers |-> 0]
  /\ conflicts = {} /\ crossed = FALSE

\* The changes of a list of n elements; an index counts from 1.
ListChanges(n) ==
  [op : {"ADD"}, index : 1..(n + 1), element : Elements] \cup
  [op : {"UPDATE", "REMOVE"}, index : 1..n, element : Elements]

Changed(s, change) ==
  CASE change.op = "ADD" -> InsertAt(s, change.index, change.element)
    [] change.op = "UPDATE" -> ReplaceAt(s, change.index, change.element)
    [] change.op = "REMOVE" -> RemoveAt(s, change.index)

\* add, set, removeAt: a local change, sent with its number.  remove, addAll,
\* removeAll and clear are several of them, one after the other.
ListChange(p) ==
  /\ listChanges[p] < MaxListChanges
  /\ \E change \in ListChanges(Len(list[p])) :
       /\ list' = [list EXCEPT ![p] = Changed(@, change)]
       /\ listWire' = [listWire EXCEPT ![Other(p)] =
                         Append(@, [version |-> list_version[p], change |-> change])]
  /\ list_version' = [list_version EXCEPT ![p] = @ + 1]
  /\ listChanges' = [listChanges EXCEPT ![p] = @ + 1]
  /\ crossed' = (crossed \/ listWire[p] # <<>>)
  /\ UNCHANGED conflicts

\* (Broken: what is received is not counted.)
CountsOwnOnly(p) == list_version[p]

\* What next_version of p becomes when it receives a change.
Counted(p) == list_version[p] + 1

\* on_wire_received.  The report of a conflict stops nothing in a build without
\* assertions: the change is made where its index exists, and what an index
\* that does not exist does is undefined: the list is any list of its length.
ReceiveListChange(p) ==
  /\ listWire[p] # <<>>
  /\ LET message == Head(listWire[p]) IN
       /\ conflicts' = IF message.version = list_version[p] THEN conflicts
                       ELSE conflicts \cup {p}
       /\ IF message.change \in ListChanges(Len(list[p]))
          THEN list' = [list EXCEPT ![p] = Changed(@, message.change)]
          ELSE \E s \in [1..Len(list[p]) -> Elements] : list' = [list EXCEPT ![p] = s]
  /\ listWire' = [listWire EXCEPT ![p] = Tail(@)]
  /\ list_version' = [list_version EXCEPT ![p] = Counted(p)]
  /\ UNCHANGED <<listChanges, crossed>>

ListNext == \E p \in Peers : ListChange(p) \/ ReceiveListChange(p)

ListSpec == ListInit /\ [][ListNext]_listVars
-----------------------------------------------------------------------------
\* The numbers notice every crossing and nothing else: a conflict is reported
\* only after the ends changed the list without knowledge of one another, and
\* when nothing is on its way and none was reported, the lists are equal.
ConflictIffCrossed ==
  /\ conflicts # {} => crossed
  /\ (\A p \in Peers : listWire[p] = <<>>) =>
       (conflicts = {} => ~crossed /\ list[Master] = list[Slave])
===============================================================================

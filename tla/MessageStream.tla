----------------------------- MODULE MessageStream -----------------------------
(***************************************************************************)
(* How messages are cut into packages by the sender and put together again *)
(* by the receiver: SocketWire::Base::send, put's splitting, read_package, *)
(* PkgInputStream and read_and_dispatch_message.                           *)
(*                                                                         *)
(* Lengths are counted in units.  The size field and the id of a message   *)
(* take one unit each (4 and 8 bytes in the code), `true' returned for a   *)
(* length makes one unit of a package readable (1 byte in the code).  The  *)
(* size field of a message counts its id and its body.                     *)
(*                                                                         *)
(* The link is what SocketWireLink shows of it as long as no package       *)
(* overtakes a retransmission: on every connection the packages come in    *)
(* order, beginning with the first one that is not acknowledged, which is  *)
(* somewhere between the start of the last connection and what came on it. *)
(***************************************************************************)
EXTENDS Integers, SequencesExt

CONSTANTS
  BodyUnits,            \* BodyUnits[m]: the length of the body of message m
  ChunkUnits,           \* the processor's chunk_size
  MaxStreamConnections  \* bound: connections in one behaviour

ASSUME StreamAssumption ==
  /\ BodyUnits \in Seq(Nat)
  /\ ChunkUnits \in Nat /\ ChunkUnits >= 2
  /\ MaxStreamConnections \in Nat

VARIABLES
  written,            \* how many messages were sent
  packages,           \* what put has made of them, numbered from 1
  streamConnections,  \* connections made so far
  streamConnected,
  first,              \* number the current connection began with
  next,               \* number of the next package on it
  max_received_seqn,
  units,    \* what is left of the current package
  reading,  \* "header", or "body" inside the last receive_pkg.read
  sz, id_,            \* kept across calls; -1 when not read
  got,                \* what the read of the body has collected
  dispatched,         \* messages given to the broker, with the size announced
  announced,          \* history: the size field of the message being read
  stray,              \* history: a dropped package left a unit behind
  interrupted,        \* history: a connection ended inside a message body
  threw               \* history: the handler of a message threw

linkState == <<written, packages, streamConnections, streamConnected, first, next>>
flags == <<stray, interrupted, threw>>
streamVars == <<linkState, max_received_seqn, units, reading, sz, id_, got, dispatched,
          announced, flags>>

MessageNumbers == DOMAIN BodyUnits

\* send: size, id, body.
MessageUnits(m) == [k \in 1 .. BodyUnits[m] + 2 |-> <<m, k>>]
IsSize(unit) == unit[2] = 1
IsId(unit)   == unit[2] = 2
SizeOf(m)    == BodyUnits[m] + 1
Body(m)      == SubSeq(MessageUnits(m), 3, BodyUnits[m] + 2)

\* put: pieces of chunk_size, the last one shorter.
Chunks(s) ==
  [j \in 1 .. (Len(s) + ChunkUnits - 1) \div ChunkUnits |->
     SubSeq(s, (j - 1) * ChunkUnits + 1,
            IF j * ChunkUnits < Len(s) THEN j * ChunkUnits ELSE Len(s))]

\* A size or an id read from the wrong place can be anything.
SizesRead(unit) == IF IsSize(unit) THEN {SizeOf(unit[1])} ELSE {1, 2}
IdRead(unit)    == IF IsId(unit) THEN unit[1] ELSE 0

StreamInit ==
  /\ written = 0 /\ packages = <<>>
  /\ streamConnections = 0 /\ streamConnected = FALSE /\ first = 1 /\ next = 1
  /\ max_received_seqn = 0
  /\ units = <<>> /\ reading = "header" /\ sz = -1 /\ id_ = -1 /\ got = <<>>
  /\ dispatched = <<>> /\ announced = -1
  /\ stray = FALSE /\ interrupted = FALSE /\ threw = FALSE

\* send and put: the next message waits in pieces, connection or not.
Send ==
  /\ written < Len(BodyUnits)
  /\ written' = written + 1
  /\ packages' = packages \o Chunks(MessageUnits(written + 1))
  /\ UNCHANGED <<streamConnections, streamConnected, first, next, max_received_seqn, units, reading,
                 sz, id_, got, dispatched, announced, flags>>

\* A new socket: the sender's window starts at an unacknowledged package.
Connect ==
  /\ ~streamConnected /\ streamConnections < MaxStreamConnections
  /\ \E seqn \in first .. next : first' = seqn /\ next' = seqn
  /\ streamConnected' = TRUE /\ streamConnections' = streamConnections + 1
  /\ UNCHANGED <<written, packages, max_received_seqn, units, reading, sz, id_, got, dispatched,
                 announced, flags>>

\* The read of the body goes on.
Wanting == Len(got) < sz

\* The reader needs another package: try_read with nothing left.  Between the id
\* and the body there is nothing to wait for.
Starved ==
  /\ streamConnected /\ units = <<>>
  /\ IF reading = "body" THEN Wanting ELSE -1 \in {sz, id_}

\* read_package; a number seen before, except 1, is dropped by `return true'.
ReadPackage ==
  /\ Starved /\ next <= Len(packages)
  /\ next' = next + 1
  /\ IF next <= max_received_seqn /\ next # 1
       THEN /\ units' = <<Head(packages[next])>>
            /\ stray' = TRUE
            /\ UNCHANGED max_received_seqn
       ELSE /\ units' = packages[next]
            /\ max_received_seqn' = next
            /\ UNCHANGED stray
  /\ UNCHANGED <<written, packages, streamConnections, streamConnected, first, reading, sz, id_, got,
                 dispatched, announced, interrupted, threw>>

\* read_package fails, and so does the read that needed it.  sz and id_ stay.
Disconnect ==
  /\ Starved
  /\ streamConnected' = FALSE
  /\ reading' = "header" /\ got' = <<>>
  /\ interrupted' = (interrupted \/ reading = "body")
  /\ UNCHANGED <<written, packages, streamConnections, first, next, max_received_seqn, units, sz, id_,
                 dispatched, announced, stray, threw>>

ReadSize ==
  /\ reading = "header" /\ sz = -1 /\ units # <<>>
  /\ \E size \in SizesRead(Head(units)) : sz' = size /\ announced' = size
  /\ units' = Tail(units)
  /\ UNCHANGED <<linkState, max_received_seqn, reading, id_, got, dispatched, flags>>

ReadId ==
  /\ reading = "header" /\ sz # -1 /\ id_ = -1 /\ units # <<>>
  /\ id_' = IdRead(Head(units))
  /\ units' = Tail(units)
  /\ UNCHANGED <<linkState, max_received_seqn, reading, sz, got, dispatched, announced,
                 flags>>

\* sz -= 8, and the read of the body begins at the start of the message buffer.  Below
\* zero, which it can get when it is applied twice to one size, require_available
\* is asked for a huge unsigned length and throws: receiverProc gives up the socket.
BeginBody ==
  /\ streamConnected /\ reading = "header" /\ sz # -1 /\ id_ # -1
  /\ sz' = sz - 1 /\ got' = <<>>
  /\ IF sz >= 1
       THEN reading' = "body" /\ UNCHANGED streamConnected
       ELSE streamConnected' = FALSE /\ UNCHANGED reading
  /\ UNCHANGED <<written, packages, streamConnections, first, next, max_received_seqn, units, id_,
                 dispatched, announced, flags>>

\* One round of PkgInputStream::read: as much as is wanted and there.
ReadBody ==
  /\ reading = "body" /\ Wanting /\ units # <<>>
  /\ LET wanted == sz - Len(got)
         n == IF wanted < Len(units) THEN wanted ELSE Len(units)
     IN /\ got' = got \o SubSeq(units, 1, n)
        /\ units' = SubSeq(units, n + 1, Len(units))
  /\ UNCHANGED <<linkState, max_received_seqn, reading, sz, id_, dispatched, announced,
                 flags>>

\* (Broken: the id is not reset.)
DispatchKeepsId ==
  /\ reading = "body" /\ ~Wanting
  /\ dispatched' = Append(dispatched, [id |-> id_, body |-> got, size |-> announced])
  /\ sz' = -1 /\ announced' = -1
  /\ reading' = "header" /\ got' = <<>>
  /\ UNCHANGED <<linkState, max_received_seqn, units, id_, flags>>

\* The message goes to the broker, and the next one begins.
Dispatch ==
  /\ reading = "body" /\ ~Wanting
  /\ dispatched' = Append(dispatched, [id |-> id_, body |-> got, size |-> announced])
  /\ sz' = -1 /\ id_' = -1 /\ announced' = -1
  /\ reading' = "header" /\ got' = <<>>
  /\ UNCHANGED <<linkState, max_received_seqn, units, flags>>

\* The broker runs the handler of a synchronous message on this thread, and it throws:
\* receiverProc gives up the socket.  sz stays as it is, eight bytes short, and id_ too.
DispatchThrows ==
  /\ reading = "body" /\ ~Wanting
  /\ dispatched' = Append(dispatched, [id |-> id_, body |-> got, size |-> announced])
  /\ threw' = TRUE /\ streamConnected' = FALSE
  /\ reading' = "header" /\ got' = <<>>
  /\ UNCHANGED <<written, packages, streamConnections, first, next, max_received_seqn, units, sz, id_,
                 announced, stray, interrupted>>

StreamNext == Send \/ Connect \/ ReadPackage \/ Disconnect \/ ReadSize \/ ReadId \/ BeginBody
        \/ ReadBody \/ Dispatch \/ DispatchThrows

StreamSpec == StreamInit /\ [][StreamNext]_streamVars

-------------------------------------------------------------------------------
\* d is message m as it was sent.
Is(d, m) == d.id = m /\ d.body = Body(m)

\* As long as no package is dropped as a duplicate, no connection ends inside a
\* message and no handler throws, every message comes out as it went in, to its
\* recipient, and after its predecessor; only package 1 sent again makes the sequence
\* start over.
IntactUnlessDisturbed ==
  stray \/ interrupted \/ threw \/
    \A i \in DOMAIN dispatched :
      \E m \in MessageNumbers :
        /\ Is(dispatched[i], m)
        /\ m = 1 \/ (i > 1 /\ Is(dispatched[i - 1], m - 1))

\* IWire::send's comment: a data block is sent to the recipient with the given id.
\* What a recipient gets is the block sent to it, unless a read was interrupted or a
\* handler threw.
RecipientGetsItsBlock ==
  interrupted \/ threw \/ \A i \in DOMAIN dispatched :
                            \E m \in MessageNumbers : Is(dispatched[i], m)
===============================================================================

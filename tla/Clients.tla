------------------------------ MODULE Clients ------------------------------
(***************************************************************************)
(* The clients of a server and the TCP connections between them, as the    *)
(* three servers in src/src/server and src/src/net use them, and the       *)
(* framing both sides share (src/src/protocol/codec.cpp, TryParseFrame).   *)
(*                                                                         *)
(* A frame travels in two pieces, its header and its payload, because a    *)
(* read may end between them.  At most one frame of a connection is        *)
(* malformed.  A response is one unit, and the network holds OutCapacity   *)
(* responses that the client has not read.                                 *)
(***************************************************************************)
EXTENDS Integers, FiniteSets

CONSTANTS
  Conn,                    \* client connections
  MaxRequests,             \* requests on each connection
  OutCapacity,             \* responses a socket buffers for a slow client
  Pipelining,              \* connections whose client does not wait for answers
  Flaws,                   \* frames each may garble, and the part garbled
  Leave                    \* how each may leave: "half", "finish", "abandon"

ASSUME ClientsAssumption ==
  /\ IsFiniteSet(Conn)
  /\ MaxRequests \in [Conn -> Nat \ {0}]
  /\ OutCapacity \in Nat \ {0}
  /\ Pipelining \subseteq Conn
  /\ Flaws \in [Conn -> SUBSET [frame : Nat \ {0}, part : {"header", "payload"}]]
  /\ Leave \in [Conn -> SUBSET {"half", "finish", "abandon"}]

VARIABLES
  flaw,                    \* which frame of each connection is malformed
  client,                  \* "none", "open", "half", "closed"
  units,                   \* pieces of frames the client has sent
  read,                    \* pieces the server has read
  executed,                \* requests the handler has carried out
  replied,                 \* responses written to the socket
  received                 \* responses the client has read

clientVars == <<flaw, client, units, received>>
serverSide == <<read, executed, replied>>

NoFlaw == [frame |-> 0, part |-> "none"]

Flawed ==
  LET of(c) == {NoFlaw} \cup Flaws[c]
  IN  {f \in [Conn -> UNION {of(c) : c \in Conn}] : \A c \in Conn : f[c] \in of(c)}

ClientsInit ==
  /\ flaw \in Flawed
  /\ client = [c \in Conn |-> "none"]
  /\ units = [c \in Conn |-> 0]
  /\ read = [c \in Conn |-> 0]
  /\ executed = [c \in Conn |-> 0]
  /\ replied = [c \in Conn |-> 0]
  /\ received = [c \in Conn |-> 0]

\* Mutant of TryParseFrame.
HeaderIsEnough(c, taken, pieces) ==
  IF pieces > 2 * taken THEN "complete" ELSE "need_more"

\* Mutant of TryParseFrame: waits for a byte behind the frame.
WaitsPastTheFrame(c, taken, pieces) ==
  IF pieces > 2 * taken + 2 THEN "complete" ELSE "need_more"

\* TryParseFrame on the pieces read behind the last frame taken.
TryParseFrame(c, taken, pieces) ==
  LET left == pieces - 2 * taken
      bad(part) == flaw[c] = [frame |-> taken + 1, part |-> part]
  IN  CASE left = 0 -> "need_more"
        [] left > 0 /\ bad("header") -> "error"
        [] left = 1 /\ ~bad("header") -> "need_more"
        [] left > 1 /\ bad("payload") -> "error"
        [] OTHER -> "complete"

AtEof(c) == client[c] \in {"half", "closed"} /\ read[c] = units[c]

\* The client has read a response to all it sent.
Satisfied(c) == 2 * received[c] = units[c]

\* nkv-client begins a request once it has the answer to the one before.
SendPiece(c) ==
  /\ client[c] = "open"
  /\ units[c] < 2 * MaxRequests[c]
  /\ c \in Pipelining \/ units[c] % 2 = 1 \/ Satisfied(c)
  /\ units' = [units EXCEPT ![c] = @ + 1]
  /\ UNCHANGED <<flaw, client, received, serverSide>>

ReceiveResponse(c) ==
  /\ client[c] \in {"open", "half"}
  /\ received[c] < replied[c]
  /\ received' = [received EXCEPT ![c] = @ + 1]
  /\ UNCHANGED <<flaw, client, units, serverSide>>

\* shutdown(SHUT_WR): no more requests, responses still wanted.
HalfClose(c) ==
  /\ "half" \in Leave[c]
  /\ client[c] = "open"
  /\ client' = [client EXCEPT ![c] = "half"]
  /\ UNCHANGED <<flaw, units, received, serverSide>>

Leaves(c) ==
  /\ client[c] \in {"open", "half"}
  /\ client' = [client EXCEPT ![c] = "closed"]
  /\ UNCHANGED <<flaw, units, received, serverSide>>

Finish(c) == "finish" \in Leave[c] /\ Satisfied(c) /\ Leaves(c)

Abandon(c) == "abandon" \in Leave[c] /\ Leaves(c)

ClientStep(c) == SendPiece(c) \/ ReceiveResponse(c) \/ HalfClose(c) \/ Finish(c) \/ Abandon(c)

Room(c) == replied[c] - received[c] < OutCapacity

ClientsTypeOK ==
  /\ flaw \in Flawed
  /\ client \in [Conn -> {"none", "open", "half", "closed"}]
  /\ \A c \in Conn :
       /\ units[c] \in 0..(2 * MaxRequests[c])
       /\ read[c] \in 0..units[c]
       /\ executed[c] \in 0..(read[c] \div 2)
       /\ replied[c] \in 0..executed[c]
       /\ received[c] \in 0..replied[c]
=============================================================================

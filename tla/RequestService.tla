-------------------------- MODULE RequestService --------------------------
(***************************************************************************)
(* What a client may rely on whichever I/O model serves it: "Swapping I/O  *)
(* models never changes behavior, only concurrency" (architecture.md:31).  *)
(* The requests of a connection are carried out in order, each at most     *)
(* once, each before its response; and the server gives a connection up    *)
(* only when the client has gone, or when every request it carried out has *)
(* had its response sent.                                                  *)
(***************************************************************************)
EXTENDS Integers

CONSTANTS Conn, MaxRequests

VARIABLES
  client,     \* "none", "open", "half" (no more requests), "closed"
  sent,       \* complete requests the client has sent
  executed,   \* requests the handler has carried out
  replied,    \* responses handed to the network
  received,   \* responses the client has read
  server      \* "open", "closed"

vars == <<client, sent, executed, replied, received, server>>

Init ==
  /\ client = [c \in Conn |-> "none"]
  /\ sent = [c \in Conn |-> 0]
  /\ executed = [c \in Conn |-> 0]
  /\ replied = [c \in Conn |-> 0]
  /\ received = [c \in Conn |-> 0]
  /\ server = [c \in Conn |-> "open"]

ClientMoves(c) ==
  /\ \/ client[c] = "none" /\ client' = [client EXCEPT ![c] = "open"]
     \/ client[c] = "open" /\ client' = [client EXCEPT ![c] = "half"]
     \/ client[c] \in {"open", "half"} /\ client' = [client EXCEPT ![c] = "closed"]
  /\ UNCHANGED <<sent, executed, replied, received, server>>

Send(c) ==
  /\ client[c] = "open"
  /\ sent[c] < MaxRequests[c]
  /\ sent' = [sent EXCEPT ![c] = @ + 1]
  /\ UNCHANGED <<client, executed, replied, received, server>>

\* One request, or several that were waiting in a buffer; one response, or
\* several; and the end of the connection once nothing is owed to the client.
Serve(c) ==
  /\ server[c] = "open"
  /\ \E e \in executed[c]..sent[c] : \E r \in replied[c]..e :
       /\ executed' = [executed EXCEPT ![c] = e]
       /\ replied' = [replied EXCEPT ![c] = r]
       /\ \/ UNCHANGED server
          \/ /\ client[c] = "closed" \/ r = e
             /\ server' = [server EXCEPT ![c] = "closed"]
  /\ UNCHANGED <<client, sent, received>>

Receive(c) ==
  /\ client[c] \in {"open", "half"}
  /\ received[c] < replied[c]
  /\ received' = [received EXCEPT ![c] = @ + 1]
  /\ UNCHANGED <<client, sent, executed, replied, server>>

\* A stopping server may give several up at once.
GiveUp ==
  \E gone \in SUBSET {c \in Conn : client[c] = "closed" \/ replied[c] = executed[c]} :
    /\ server' = [c \in Conn |-> IF c \in gone THEN "closed" ELSE server[c]]
    /\ UNCHANGED <<client, sent, executed, replied, received>>

Next ==
  \/ \E c \in Conn : ClientMoves(c) \/ Send(c) \/ Serve(c) \/ Receive(c)
  \/ GiveUp

Spec == Init /\ [][Next]_vars
=============================================================================

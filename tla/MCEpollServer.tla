--------------------------- MODULE MCEpollServer ---------------------------
(* EpollServer for TLC: constants that are functions of the connection. *)
EXTENDS EpollServer

CONSTANTS c1, c2

Two == [c \in Conn |-> 2]
Three == [c \in Conn |-> 3]

NoFlaws == [c \in Conn |-> {}]
AnyFlaw == [c \in Conn |-> [frame : 1..3, part : {"header", "payload"}]]

\* The server may answer c2 once and then has to close its connection.
SecondOfC2 ==
  [c \in Conn |-> IF c = c2 THEN [frame : {2}, part : {"header", "payload"}] ELSE {}]

AnyWay == [c \in Conn |-> {"half", "finish", "abandon"}]
AllHalf == [c \in Conn |-> {"half"}]

\* c1 waits for its answers; c2 is gone at any point.
FinishAndAbandon == [c \in Conn |-> IF c = c1 THEN {"finish"} ELSE {"finish", "abandon"}]
=============================================================================

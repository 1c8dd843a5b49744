-------------------------- MODULE MCSessionServer --------------------------
(* SessionServer for TLC: constants that are functions of the connection. *)
EXTENDS SessionServer, TLC

CONSTANTS c1, c2

One == [c \in Conn |-> 1]
TwoAndOne == [c \in Conn |-> IF c = c1 THEN 2 ELSE 1]

NoFlaws == [c \in Conn |-> {}]

\* The server may answer c1 once and then has to close its connection.
SecondPayload == [c \in Conn |-> IF c = c1 THEN [frame : {2}, part : {"payload"}] ELSE {}]

AllFinish == [c \in Conn |-> {"finish"}]
AllAbandon == [c \in Conn |-> {"abandon"}]

\* c1 waits for its answers; c2 stops sending, or is gone, at any point.
PatientAndNot ==
  [c \in Conn |-> IF c = c1 THEN {"finish"} ELSE {"half", "finish", "abandon"}]

WorkerSymmetry == Permutations(Worker)
=============================================================================

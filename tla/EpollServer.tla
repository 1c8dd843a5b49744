---------------------------- MODULE EpollServer ----------------------------
(***************************************************************************)
(* EpollServer's event loop (src/src/net/epoll_server.cpp) and the         *)
(* Connection state machine it drives (src/src/net/connection.cpp).        *)
(*                                                                         *)
(* epoll is external.  A connection is on the `ready` list after an edge   *)
(* (new data, a hang-up, new room in the socket's buffer) in an event it   *)
(* is registered for, and after EPOLL_CTL_ADD or EPOLL_CTL_MOD when one of *)
(* those events already holds; epoll_wait takes it off the list and        *)
(* reports what holds at that moment.  The events of one epoll_wait are    *)
(* handled one by one, while clients go on.                                *)
(*                                                                         *)
(* write_buffer_ holds the responses executed and not yet written.         *)
(***************************************************************************)
EXTENDS Clients, FiniteSetsExt

CONSTANTS
  BackpressureThreshold,   \* kBackpressureThreshold, in responses
  MaxAcceptFailures        \* bound on failed accept() and EPOLL_CTL_ADD calls

ASSUME EpollAssumption ==
  /\ BackpressureThreshold \in Nat \ {0}
  /\ MaxAcceptFailures \in Nat

VARIABLES
  backlog,                 \* connections the kernel holds for accept()
  failures,                \* calls that failed while accepting
  server,                  \* "new", "open" (in connections_), "closed", "refused"
  interest,                \* events each connection is registered for
  ready,                   \* epoll's ready list
  batch,                   \* events epoll_wait returned, still to handle
  signals,                 \* "listen" and "wake" among them
  stop,                    \* stop_
  woken,                   \* the eventfd: "no", "yes", "done" (written, read)
  phase                    \* "test", "wait", "handle", "returned", "died"

acceptVars == <<backlog, failures>>
epollVars == <<interest, ready, batch, signals>>
stopVars == <<stop, woken>>
vars == <<clientVars, serverSide, acceptVars, server, epollVars, stopVars, phase>>

-----------------------------------------------------------------------------
(* epoll (external). *)

HungUp(c) == client[c] \in {"half", "closed"}

\* The events that hold for a connection registered for `wanted`, given what
\* has been read and written.  EPOLLRDHUP is always registered.
Holding(c, wanted, pieces, written) ==
  {e \in {"in"} \cap wanted : pieces < units[c] \/ HungUp(c)}
    \cup {e \in {"out"} \cap wanted : written - received[c] < OutCapacity \/ client[c] = "closed"}
    \cup {e \in {"rdhup"} : HungUp(c)}

Edge(c, event) ==
  ready' = ready \cup {d \in {c} : server[c] = "open" /\ event \in interest[c]}

-----------------------------------------------------------------------------
(* Clients. *)

Alive == phase \in {"test", "wait", "handle"}

Connect(c) ==
  /\ Alive
  /\ client[c] = "none"
  /\ client' = [client EXCEPT ![c] = "open"]
  /\ backlog' = backlog \cup {c}
  /\ UNCHANGED <<flaw, units, received, serverSide, failures, server, epollVars, stopVars, phase>>

ClientSends(c) ==
  /\ Alive /\ SendPiece(c)
  /\ Edge(c, "in")
  /\ UNCHANGED <<acceptVars, server, interest, batch, signals, stopVars, phase>>

ClientReceives(c) ==
  /\ Alive /\ ReceiveResponse(c)
  /\ Edge(c, "out")
  /\ UNCHANGED <<acceptVars, server, interest, batch, signals, stopVars, phase>>

ClientHangsUp(c) ==
  /\ Alive
  /\ HalfClose(c) \/ Finish(c) \/ Abandon(c)
  /\ ready' = ready \cup {d \in {c} : server[c] = "open"}
  /\ UNCHANGED <<acceptVars, server, interest, batch, signals, stopVars, phase>>

-----------------------------------------------------------------------------
(* Stop and Run. *)

StopStores ==
  /\ Alive /\ ~stop
  /\ stop' = TRUE
  /\ UNCHANGED <<clientVars, serverSide, acceptVars, server, epollVars, woken, phase>>

\* Mutant of WakeUp.
SilentStop == "done"

WakeUp == "yes"

\* The write to the eventfd that makes a blocked epoll_wait return.
StopWakes ==
  /\ Alive /\ stop /\ woken = "no"
  /\ woken' = WakeUp
  /\ UNCHANGED <<clientVars, serverSide, acceptVars, server, epollVars, stop, phase>>

TestsStop ==
  /\ phase = "test"
  /\ phase' = IF stop THEN "returned" ELSE "wait"
  /\ UNCHANGED <<clientVars, serverSide, acceptVars, server, epollVars, stopVars>>

\* epoll_wait returns the ready connections (fewer than kMaxEvents), each with
\* the events that hold now, the listening socket while connections are
\* pending, and the eventfd while it is readable.  EPOLLERR or EPOLLHUP may
\* come with a client that has closed.
EpollWait ==
  /\ phase = "wait"
  /\ signals' = {e \in {"listen"} : backlog # {}} \cup {e \in {"wake"} : woken = "yes"}
  /\ ready # {} \/ signals' # {}
  /\ \E errs \in SUBSET {c \in ready : client[c] = "closed"} :
       batch' = [c \in Conn |->
                   CASE c \in errs -> {"err"}
                     [] c \in ready \ errs -> Holding(c, interest[c], read[c], replied[c])
                     [] OTHER -> {}]
  /\ ready' = {}
  /\ phase' = "handle"
  /\ UNCHANGED <<clientVars, serverSide, acceptVars, server, interest, stopVars>>

DrainWake ==
  /\ phase = "handle" /\ "wake" \in signals
  /\ signals' = signals \ {"wake"}
  /\ woken' = "done"
  /\ UNCHANGED <<clientVars, serverSide, acceptVars, server, interest, ready, batch, stop, phase>>

BatchDone ==
  /\ phase = "handle"
  /\ signals = {} /\ \A c \in Conn : batch[c] = {}
  /\ phase' = "test"
  /\ UNCHANGED <<clientVars, serverSide, acceptVars, server, epollVars, stopVars>>

-----------------------------------------------------------------------------
(* AcceptNewConnections, HandleEvent and the Connection's reads and writes. *)

\* Mutant of WantedEvents.
ReadsOnly(executed_, written) == {e \in {"in"} : executed_ - written < BackpressureThreshold}

\* Mutant of WantedEvents.
AlwaysReads(executed_, written) ==
  {"in"} \cup {e \in {"out"} : written < executed_}

\* Reading pauses while the write buffer is at the threshold.
WantedEvents(executed_, written) ==
  {e \in {"in"} : executed_ - written < BackpressureThreshold}
    \cup {e \in {"out"} : written < executed_}

\* accept() until nothing is pending, or until it fails: the rest stays pending,
\* and the level-triggered listening socket is reported again.  A connection that
\* EPOLL_CTL_ADD fails for is closed unserved.
AcceptNewConnections ==
  /\ phase = "handle" /\ "listen" \in signals
  /\ signals' = signals \ {"listen"}
  /\ \E taken \in SUBSET backlog : \E added \in SUBSET taken :
       /\ failures' = failures + Cardinality(taken \ added) + (IF taken = backlog THEN 0 ELSE 1)
       /\ failures' <= MaxAcceptFailures
       /\ backlog' = backlog \ taken
       /\ server' = [c \in Conn |-> CASE c \in added -> "open"
                                      [] c \in taken \ added -> "refused"
                                      [] OTHER -> server[c]]
       /\ interest' = [c \in Conn |-> IF c \in added THEN WantedEvents(0, 0) ELSE interest[c]]
       /\ ready' = ready \cup {c \in added : Holding(c, WantedEvents(0, 0), 0, 0) # {}}
  /\ UNCHANGED <<clientVars, serverSide, batch, stopVars, phase>>

\* Mutant of ProcessFrames.
HeadersTaken(c, pieces) == (pieces + 1) \div 2

\* ProcessFrames: the frames complete in the pieces read, up to an error.
ProcessFrames(c, pieces) ==
  Max({n \in executed[c]..(pieces \div 2) :
         \A k \in executed[c]..(n - 1) : TryParseFrame(c, k, pieces) = "complete"})

\* OnWritable: until the write buffer is empty or the socket's buffer is full.
OnWritable(c, done) == Max({replied[c], Min({done, received[c] + OutCapacity})})

\* Mutant of Rearms.
RearmsNever(c, events) == {}

\* EPOLL_CTL_MOD puts a connection back on the ready list if an event holds.
Rearms(c, events) == {d \in {c} : events # {}}

\* epoll_wait reports a descriptor once, and only its own event removes a
\* connection.  So find() succeeds for every event of a batch, and a descriptor
\* that an accept() later in the batch uses again has no event left in it: a
\* connection can stand for its descriptor.
RemoveConnection(c) ==
  /\ server' = [server EXCEPT ![c] = "closed"]
  /\ ready' = ready \ {c}
  /\ interest' = [interest EXCEPT ![c] = {}]

\* OnReadable drains the socket and runs every complete frame, also after end
\* of file; a connection closed by end of file or by a malformed frame goes,
\* with the responses still in its write buffer.
HandleEvent(c) ==
  LET events == batch[c]
      readable == "in" \in events
      pieces == IF readable THEN units[c] ELSE read[c]
      done == IF readable THEN ProcessFrames(c, pieces) ELSE executed[c]
      closed == readable /\ (HungUp(c) \/ TryParseFrame(c, done, pieces) = "error")
      written == IF ~closed /\ "out" \in events THEN OnWritable(c, done) ELSE replied[c]
      wanted == WantedEvents(done, written)
  IN  /\ phase = "handle"
      /\ events # {} /\ "err" \notin events
      /\ batch' = [batch EXCEPT ![c] = {}]
      /\ read' = [read EXCEPT ![c] = pieces]
      /\ executed' = [executed EXCEPT ![c] = done]
      /\ replied' = [replied EXCEPT ![c] = written]
      /\ IF closed
         THEN RemoveConnection(c)
         ELSE /\ interest' = [interest EXCEPT ![c] = wanted]
              /\ ready' = (ready \ {c}) \cup Rearms(c, Holding(c, wanted, pieces, written))
              /\ UNCHANGED server
      /\ UNCHANGED <<clientVars, acceptVars, signals, stopVars, phase>>

\* EPOLLERR, a read() that fails, or a write() that fails.
HandleError(c) ==
  /\ phase = "handle"
  /\ batch[c] # {}
  /\ "err" \in batch[c] \/ (client[c] = "closed" /\ batch[c] \cap {"in", "out"} # {})
  /\ batch' = [batch EXCEPT ![c] = {}]
  /\ RemoveConnection(c)
  /\ UNCHANGED <<clientVars, serverSide, acceptVars, signals, stopVars, phase>>

\* A write() to a connection the client has reset: SIGPIPE has its default
\* action.
SigPipe(c) ==
  /\ phase = "handle"
  /\ "out" \in batch[c] /\ "in" \notin batch[c]
  /\ client[c] = "closed" /\ replied[c] < executed[c]
  /\ phase' = "died"
  /\ UNCHANGED <<clientVars, serverSide, acceptVars, server, epollVars, stopVars>>

-----------------------------------------------------------------------------

Init ==
  /\ ClientsInit
  /\ backlog = {}
  /\ failures = 0
  /\ server = [c \in Conn |-> "new"]
  /\ interest = [c \in Conn |-> {}]
  /\ ready = {}
  /\ batch = [c \in Conn |-> {}]
  /\ signals = {}
  /\ stop = FALSE
  /\ woken = "no"
  /\ phase = "test"

LoopStep ==
  \/ TestsStop
  \/ EpollWait
  \/ DrainWake
  \/ BatchDone
  \/ AcceptNewConnections
  \/ \E c \in Conn : HandleEvent(c) \/ HandleError(c)

Next ==
  \/ \E c \in Conn : Connect(c) \/ ClientSends(c) \/ ClientReceives(c) \/ ClientHangsUp(c)
  \/ StopStores
  \/ StopWakes
  \/ LoopStep
  \/ \E c \in Conn : SigPipe(c)

Spec == Init /\ [][Next]_vars

\* The event loop's thread is scheduled, and Stop() runs to its end.
ServerFairness == WF_vars(LoopStep) /\ WF_vars(StopWakes)

\* A client that waits for a response reads it.
ClientFairness == \A c \in Conn : WF_vars(ClientReceives(c))

FairSpec == Spec /\ ServerFairness /\ ClientFairness

-----------------------------------------------------------------------------
(* Properties. *)

\* Types of the event loop's state; a connection is registered for input, or
\* for output, or both, exactly while it is in connections_.
TypeOK ==
  /\ ClientsTypeOK
  /\ backlog \subseteq Conn /\ ready \subseteq Conn
  /\ failures \in 0..MaxAcceptFailures
  /\ server \in [Conn -> {"new", "open", "closed", "refused"}]
  /\ \A c \in Conn : interest[c] \subseteq {"in", "out"}
                       /\ (interest[c] # {} <=> server[c] = "open")
  /\ \A c \in Conn : batch[c] \subseteq {"in", "out", "rdhup", "err"}
  /\ signals \subseteq {"listen", "wake"}
  /\ stop \in BOOLEAN
  /\ woken \in {"no", "yes", "done"}
  /\ phase \in {"test", "wait", "handle", "returned", "died"}

\* No edge is lost: whatever holds for a connection in an event it waits for is
\* on epoll's ready list or in the batch being handled, through every
\* interleaving of the loop with its clients.
NothingForgotten ==
  \A c \in Conn :
    server[c] = "open" /\ Holding(c, interest[c], read[c], replied[c]) # {} =>
      c \in ready \/ batch[c] # {}

\* Requests are carried out only for a connection whose write buffer is below
\* the threshold when its event is handled, however slowly the client reads.
PausedWhileFull ==
  [][\A c \in Conn :
       executed'[c] # executed[c] => executed[c] - replied[c] < BackpressureThreshold]_vars

Service ==
  INSTANCE RequestService
  WITH sent <- [c \in Conn |-> units[c] \div 2],
       server <- [c \in Conn |-> IF server[c] \in {"closed", "refused"} THEN "closed" ELSE "open"]

\* "Swapping I/O models never changes behavior, only concurrency"
\* (architecture.md:31): the event loop, too, answers every request it carries
\* out, in order, before it closes the connection, unless the client has gone.
\* It holds for clients that wait for an answer before they end the stream or
\* send a malformed frame, and fails for one that does not (epoll_half_close).
ImplementsRequestService == Service!Spec

\* Every complete request of a client that stays is answered, also after its
\* reading was paused for a full write buffer and after an accept() that failed,
\* but for a connection that EPOLL_CTL_ADD failed for.  A malformed frame costs a
\* client that did not wait for them the answers to its earlier requests.
EveryRequestAnswered ==
  \A c \in Conn : \A n \in 1..MaxRequests[c] :
    (units[c] = 2 * n /\ (flaw[c] = NoFlaw \/ (c \notin Pipelining /\ flaw[c].frame \notin 1..n)))
      ~> (received[c] >= n \/ client[c] # "open" \/ server[c] = "refused" \/ ~Alive \/ stop)

\* Stop() ends Run() also while the loop is blocked in epoll_wait and while
\* clients stay connected.
StopEndsRun == stop ~> ~Alive
=============================================================================

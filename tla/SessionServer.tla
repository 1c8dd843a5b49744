--------------------------- MODULE SessionServer ---------------------------
(***************************************************************************)
(* BlockingServer and ThreadPoolServer (src/src/server), the session loop  *)
(* they share (connection_session.cpp), and the ThreadPool that runs the   *)
(* sessions of the second (src/src/concurrency/thread_pool.cpp).  Without  *)
(* a pool, its workers exited from the start, the accept thread serves     *)
(* each connection itself, which is BlockingServer.                        *)
(*                                                                         *)
(* The accept thread's place is "loop", "accept", "notify", "returned" or  *)
(* "joined"; a worker's is "check" (about to test the pool's wait          *)
(* predicate), "asleep" or "exited"; while a thread runs a session,        *)
(* `serving` names the connection.  The handler's own blocking is left     *)
(* out: a request is carried out in one step.                              *)
(***************************************************************************)
EXTENDS Clients, Sequences, SequencesExt

CONSTANTS
  Worker,                  \* ThreadPool::workers_
  Acceptor,                \* the thread inside Run()
  NoConn,                  \* the thread runs no session
  Failures                 \* calls that may fail: "accept", Stop()'s "connect"

ASSUME WorkersAssumption ==
  /\ IsFiniteSet(Worker)
  /\ Acceptor \notin Worker
  /\ NoConn \notin Conn
  /\ Failures \subseteq {"accept", "connect"}

VARIABLES
  backlog,                 \* connections the kernel holds for accept()
  wake,                    \* Stop()'s own connection: "no" (not yet), "yes", "failed"
  stop,                    \* the server's stop_
  tasks,                   \* ThreadPool::tasks_
  pool_stop,               \* ThreadPool::stop_
  place,                   \* where each thread is
  serving,                 \* connection of each thread's session
  owed,                    \* a response the session has yet to write
  server,                  \* "new", "open", "closed", or closed unserved: "refused"
  died                     \* SIGPIPE ended the process

netVars == <<backlog, wake>>
poolVars == <<tasks, pool_stop>>
threadVars == <<place, serving, owed>>
vars == <<clientVars, serverSide, netVars, stop, poolVars, threadVars, server, died>>

Thread == Worker \cup {Acceptor}

Running(t, p) == ~died /\ place[t] = p /\ serving[t] = NoConn

\* ThreadPoolServer: workers leave only after Run() has returned.
Pooled == \E w \in Worker : place[w] # "exited"

RunOver == place[Acceptor] \in {"returned", "joined"}

-----------------------------------------------------------------------------
(* Clients. *)

\* Stop() closes the listening socket; an accept() that waits on it keeps it open.
Listening == ~died /\ ~RunOver /\ (wake = "no" \/ Running(Acceptor, "accept"))

Connect(c) ==
  /\ client[c] = "none" /\ Listening
  /\ client' = [client EXCEPT ![c] = "open"]
  /\ backlog' = Append(backlog, c)
  /\ UNCHANGED <<flaw, units, received, serverSide, wake, stop, poolVars, threadVars, server, died>>

ClientActs(c) ==
  /\ ~died
  /\ ClientStep(c)
  /\ UNCHANGED <<netVars, stop, poolVars, threadVars, server, died>>

-----------------------------------------------------------------------------
(* Run and Stop. *)

\* stop_.store(true)
StopStores ==
  /\ ~stop /\ ~died
  /\ stop' = TRUE
  /\ UNCHANGED <<clientVars, serverSide, netVars, poolVars, threadVars, server, died>>

\* A connection to the own port makes a blocked accept() return.  TcpConnect may
\* fail, and on Linux the close that follows wakes nobody.
WakeUp == {"yes"} \cup {"failed" : f \in Failures \cap {"connect"}}

StopConnects ==
  /\ stop /\ wake = "no" /\ ~died /\ ~RunOver
  /\ wake' \in WakeUp
  /\ UNCHANGED <<clientVars, serverSide, backlog, stop, poolVars, threadVars, server, died>>

\* The test and the entry into accept() are one step: when Stop() closes the
\* descriptor between them accept() fails, and Run ends as it does on the test.
TestsStop ==
  /\ Running(Acceptor, "loop")
  /\ ~stop
  /\ place' = [place EXCEPT ![Acceptor] = "accept"]
  /\ UNCHANGED <<clientVars, serverSide, netVars, stop, poolVars, serving, owed, server, died>>

\* ThreadPool::Submit up to the unlock, or the session on this thread.
Dispatch(c) ==
  IF ~Pooled
  THEN /\ serving' = [serving EXCEPT ![Acceptor] = c]
       /\ place' = [place EXCEPT ![Acceptor] = "loop"]
       /\ UNCHANGED tasks
  ELSE /\ tasks' = Append(tasks, c)
       /\ place' = [place EXCEPT ![Acceptor] = "notify"]
       /\ UNCHANGED serving

AcceptClient ==
  /\ Running(Acceptor, "accept")
  /\ ~stop /\ backlog # <<>>
  /\ backlog' = Tail(backlog)
  /\ server' = [server EXCEPT ![Head(backlog)] = "open"]
  /\ Dispatch(Head(backlog))
  /\ UNCHANGED <<clientVars, serverSide, wake, stop, pool_stop, owed, died>>

\* Run returns, and the server object with its listening socket is destroyed.
LeaveRun ==
  /\ backlog' = <<>>
  /\ server' = [c \in Conn |-> IF c \in ToSet(backlog) THEN "refused" ELSE server[c]]
  /\ place' = [place EXCEPT ![Acceptor] = "returned"]
  /\ UNCHANGED <<clientVars, serverSide, wake, stop, poolVars, serving, owed, died>>

\* The loop ends on stop_: tested before accept(), or after accept() returned
\* the wake-up connection, or a client that is then closed unserved.
RunReturns ==
  /\ \/ Running(Acceptor, "loop")
     \/ Running(Acceptor, "accept") /\ (wake = "yes" \/ backlog # <<>>)
  /\ stop
  /\ LeaveRun

\* accept() fails, for want of descriptors or memory: Run returns the error.
AcceptFails ==
  /\ "accept" \in Failures
  /\ Running(Acceptor, "accept")
  /\ LeaveRun

\* Mutant of WakesOne.
WakesNone == {{}}

\* cv_.notify_one() wakes one of the threads waiting, if there is any.
WakesOne ==
  LET asleep == {w \in Worker : place[w] = "asleep"}
  IN  IF asleep = {} THEN {{}} ELSE {{w} : w \in asleep}

SubmitNotifies ==
  /\ Running(Acceptor, "notify")
  /\ \E woken \in WakesOne :
       place' = [t \in Thread |-> CASE t = Acceptor -> "loop"
                                   [] t \in woken -> "check"
                                   [] OTHER -> place[t]]
  /\ UNCHANGED <<clientVars, serverSide, netVars, stop, poolVars, serving, owed, server, died>>

\* ~ThreadPool: stop_ under the lock and notify_all, then join.
DestroyPool ==
  /\ Running(Acceptor, "returned")
  /\ ~pool_stop
  /\ pool_stop' = TRUE
  /\ place' = [t \in Thread |-> IF place[t] = "asleep" THEN "check" ELSE place[t]]
  /\ UNCHANGED <<clientVars, serverSide, netVars, stop, tasks, serving, owed, server, died>>

JoinWorkers ==
  /\ Running(Acceptor, "returned")
  /\ pool_stop
  /\ \A w \in Worker : place[w] = "exited"
  /\ place' = [place EXCEPT ![Acceptor] = "joined"]
  /\ UNCHANGED <<clientVars, serverSide, netVars, stop, poolVars, serving, owed, server, died>>

-----------------------------------------------------------------------------
(* ThreadPool::WorkerLoop. *)

\* Mutant of LeavesWhenDrained.
LeavesAtOnce == pool_stop

LeavesWhenDrained == pool_stop /\ tasks = <<>>

WorkerSleeps(w) ==
  /\ Running(w, "check")
  /\ ~pool_stop /\ tasks = <<>>
  /\ place' = [place EXCEPT ![w] = "asleep"]
  /\ UNCHANGED <<clientVars, serverSide, netVars, stop, poolVars, serving, owed, server, died>>

\* Mutant of WorkerTakesTask.
WorkerPeeksTask(w) ==
  /\ Running(w, "check")
  /\ tasks # <<>> /\ ~LeavesWhenDrained
  /\ serving' = [serving EXCEPT ![w] = Head(tasks)]
  /\ UNCHANGED <<clientVars, serverSide, netVars, stop, poolVars, place, owed, server, died>>

WorkerTakesTask(w) ==
  /\ Running(w, "check")
  /\ tasks # <<>> /\ ~LeavesWhenDrained
  /\ tasks' = Tail(tasks)
  /\ serving' = [serving EXCEPT ![w] = Head(tasks)]
  /\ UNCHANGED <<clientVars, serverSide, netVars, stop, pool_stop, place, owed, server, died>>

WorkerExits(w) ==
  /\ Running(w, "check")
  /\ LeavesWhenDrained
  /\ place' = [place EXCEPT ![w] = "exited"]
  /\ UNCHANGED <<clientVars, serverSide, netVars, stop, poolVars, serving, owed, server, died>>

-----------------------------------------------------------------------------
(* ServeClientSession. *)

InSession(t, c) == ~died /\ serving[t] = c

Parsed(c) == TryParseFrame(c, executed[c], read[c])

\* A complete frame: the handler carries it out, and its response is due.
SessionExecutes(t, c) ==
  /\ InSession(t, c) /\ ~owed[t]
  /\ Parsed(c) = "complete"
  /\ executed' = [executed EXCEPT ![c] = @ + 1]
  /\ owed' = [owed EXCEPT ![t] = TRUE]
  /\ UNCHANGED <<clientVars, read, replied, netVars, stop, poolVars, place, serving, server, died>>

\* WriteFull blocks while the socket's buffer is full.
SessionWrites(t, c) ==
  /\ InSession(t, c) /\ owed[t]
  /\ Room(c) \/ client[c] = "closed"
  /\ replied' = [replied EXCEPT ![c] = @ + 1]
  /\ owed' = [owed EXCEPT ![t] = FALSE]
  /\ UNCHANGED <<clientVars, read, executed, netVars, stop, poolVars, place, serving, server, died>>

\* read() returns some of what has arrived.
SessionReads(t, c) ==
  /\ InSession(t, c) /\ ~owed[t]
  /\ Parsed(c) = "need_more"
  /\ \E n \in (read[c] + 1)..units[c] : read' = [read EXCEPT ![c] = n]
  /\ UNCHANGED <<clientVars, executed, replied, netVars, stop, poolVars, threadVars, server, died>>

\* A malformed frame, end of file, a failed read or a failed write; then CloseQuietly.
SessionEnds(t, c) ==
  /\ InSession(t, c)
  /\ \/ ~owed[t] /\ Parsed(c) = "error"
     \/ ~owed[t] /\ Parsed(c) = "need_more" /\ (AtEof(c) \/ client[c] = "closed")
     \/ owed[t] /\ client[c] = "closed"
  /\ serving' = [serving EXCEPT ![t] = NoConn]
  /\ owed' = [owed EXCEPT ![t] = FALSE]
  /\ server' = [server EXCEPT ![c] = "closed"]
  /\ UNCHANGED <<clientVars, serverSide, netVars, stop, poolVars, place, died>>

\* write() to a connection the client has reset: SIGPIPE has its default
\* action, no code changes it.
SigPipe(t, c) ==
  /\ InSession(t, c) /\ owed[t]
  /\ client[c] = "closed"
  /\ died' = TRUE
  /\ UNCHANGED <<clientVars, serverSide, netVars, stop, poolVars, threadVars, server>>

-----------------------------------------------------------------------------

Init ==
  /\ ClientsInit
  /\ backlog = <<>>
  /\ wake = "no"
  /\ stop = FALSE
  /\ tasks = <<>>
  /\ pool_stop = FALSE
  /\ \E start \in {"check", "exited"} :
       place = [t \in Thread |-> IF t = Acceptor THEN "loop" ELSE start]
  /\ serving = [t \in Thread |-> NoConn]
  /\ owed = [t \in Thread |-> FALSE]
  /\ server = [c \in Conn |-> "new"]
  /\ died = FALSE

AcceptorStep ==
  TestsStop \/ AcceptClient \/ RunReturns \/ SubmitNotifies \/ DestroyPool \/ JoinWorkers

WorkerStep(w) == WorkerSleeps(w) \/ WorkerTakesTask(w) \/ WorkerExits(w)

SessionStep(t) ==
  \E c \in Conn :
    SessionExecutes(t, c) \/ SessionWrites(t, c) \/ SessionReads(t, c) \/ SessionEnds(t, c)

Next ==
  \/ \E c \in Conn : Connect(c) \/ ClientActs(c)
  \/ StopStores
  \/ StopConnects
  \/ AcceptorStep
  \/ AcceptFails
  \/ \E w \in Worker : WorkerStep(w)
  \/ \E t \in Thread : SessionStep(t) \/ \E c \in Conn : SigPipe(t, c)

Spec == Init /\ [][Next]_vars

\* Runnable threads are scheduled.
ServerFairness ==
  /\ WF_vars(AcceptorStep)
  /\ WF_vars(StopConnects)
  /\ \A w \in Worker : WF_vars(WorkerStep(w))
  /\ \A t \in Thread : WF_vars(SessionStep(t))

\* A client that waits for a response reads it, finishes a frame it began, and
\* hangs up once it has what it asked for, as nkv-client does.
ClientFairness ==
  \A c \in Conn :
    /\ WF_vars(ReceiveResponse(c) /\ ClientActs(c))
    /\ WF_vars(units[c] % 2 = 1 /\ SendPiece(c) /\ ClientActs(c))
    /\ WF_vars(Finish(c) /\ ClientActs(c))

FairSpec == Spec /\ ServerFairness
ClientFairSpec == FairSpec /\ ClientFairness

-----------------------------------------------------------------------------
(* Properties. *)

\* Types of the threads, of the pool and of the connections; a server never
\* executes what it has not read, answers what it has not executed.
TypeOK ==
  /\ ClientsTypeOK
  /\ backlog \in Seq(Conn) /\ tasks \in Seq(Conn)
  /\ wake \in {"no", "yes", "failed"}
  /\ {stop, pool_stop, died} \subseteq BOOLEAN
  /\ place[Acceptor] \in {"loop", "accept", "notify", "returned", "joined"}
  /\ \A w \in Worker : place[w] \in {"check", "asleep", "exited"}
  /\ serving \in [Thread -> Conn \cup {NoConn}]
  /\ owed \in [Thread -> BOOLEAN]
  /\ server \in [Conn -> {"new", "open", "closed", "refused"}]

\* An accepted connection that is not closed yet is in one place: queued once
\* in the pool, or in the session of one thread.  No task is lost or run twice,
\* also while ~ThreadPool drains the queue.
OnePlacePerConnection ==
  \A c \in Conn :
    Cardinality({i \in 1..Len(tasks) : tasks[i] = c})
      + Cardinality({t \in Thread : serving[t] = c})
    = IF server[c] = "open" THEN 1 ELSE 0

\* A worker sleeps through a queued task only while a notification is on its
\* way or another worker is about to look: no wake-up is lost between Submit's
\* unlock and notify_one, or around the destructor.
NoTaskSleptThrough ==
  tasks # <<>> /\ (\E w \in Worker : place[w] = "asleep") =>
    \/ place[Acceptor] = "notify"
    \/ \E w \in Worker : Running(w, "check")

Service ==
  INSTANCE RequestService
  WITH sent <- [c \in Conn |-> units[c] \div 2],
       server <- [c \in Conn |-> IF server[c] \in {"closed", "refused"} THEN "closed" ELSE "open"]

\* Both servers answer every request they carry out, in order, before they
\* close its connection, unless the client left.  A process that SIGPIPE ends
\* takes no more steps.
ImplementsRequestService == Service!Spec

\* Every complete request is answered, however few workers there are, as long
\* as clients that have their answers hang up: also one that is in the pool's
\* queue when Stop() is called, or when accept() fails, because the pool is
\* drained before its workers are joined.  Only a connection that no accept()
\* has returned before the end of Run goes unserved.
EveryRequestAnswered ==
  \A c \in Conn : \A n \in 1..MaxRequests[c] :
    (units[c] = 2 * n /\ flaw[c].frame \notin 1..n)
      ~> (received[c] >= n \/ client[c] = "closed" \/ server[c] = "refused" \/ died)

Drained ==
  /\ place[Acceptor] = "joined"
  /\ tasks = <<>>
  /\ \A c \in Conn : server[c] # "open"

\* Stop() ends Run unless its own connection fails (blocking_deaf), and
\* once Run has ended the pool's destructor runs the tasks still queued and joins
\* every worker, provided the clients hang up: it leaves no connection behind.
StopDrains ==
  (stop \/ RunOver) ~> (Drained \/ died \/ (wake = "failed" /\ ~RunOver))

\* "Serves connections until Stop() is called from another thread"
\* (blocking_server.h:22), "Accepts connections until Stop() is called"
\* (thread_pool_server.h:26): Stop() ends Run().
StopEndsRun == stop ~> (RunOver \/ died)

\* "until the peer closes the connection or a protocol/I/O error occurs"
\* (connection_session.h:7): an error on one connection ends its session, not
\* the process.
ErrorsEndOneSession == ~died
=============================================================================

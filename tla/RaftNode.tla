------------------------------ MODULE RaftNode ------------------------------
(***************************************************************************)
(* The Raft layer of NeuralKV (src/src/raft/node.cpp, log.cpp, types.h)    *)
(* with the client entry points that drive it (src/src/server/handler.cpp) *)
(* and the blocking RPC call that connects the nodes                       *)
(* (src/src/cluster/transport.cpp).                                        *)
(*                                                                         *)
(* A step is one critical section under RaftNode::mutex_.  The thread that *)
(* runs it (RunLoop's thread, or a server thread inside Propose or         *)
(* ConfirmLeadershipQuorum) then makes a blocking RPC with no lock held,   *)
(* so any number of other critical sections of the same node fall between  *)
(* taking the snapshot a request is built from and using its reply.        *)
(*                                                                         *)
(* Abstractions.                                                           *)
(*  - Time: an election deadline may have passed at any moment, a          *)
(*    heartbeat may be due at any moment, and any of the acknowledgements  *)
(*    in last_ack_time_ may be too old when a GET looks at them.           *)
(*  - Data: a client write is its own value; what a node's KV store holds  *)
(*    is the sequence of the writes applied to it.                         *)
(*  - Disk: an append, a truncation and a save of term and vote are each   *)
(*    durable and atomic here.                                             *)
(***************************************************************************)
EXTENDS Integers, Sequences, FiniteSets, FiniteSetsExt

CONSTANTS
  N,            \* number of nodes in the static cluster config
  Proposals,    \* client writes; each one is made at most once
  Reads,        \* client GETs; each one is made at most once
  MaxElections, \* bound: elections started
  MaxBeats,     \* bound: heartbeat rounds
  MaxFailures,  \* bound: RPCs that fail at their caller
  MaxRestarts,  \* bound: crashes followed by a restart
  MaxLate       \* bound: requests in flight whose caller has given up

Server == 1..N
HalfTheNodes == N \div 2        \* mutant: one node short of a majority
Majority == N \div 2 + 1

\* The run thread of node i is i; the server thread that executes a client
\* operation is that operation.
Thread == Server \cup Proposals \cup Reads

ASSUME ConstantsAssumption ==
  /\ N \in Nat \ {0}
  /\ {MaxElections, MaxBeats, MaxFailures, MaxRestarts, MaxLate} \subseteq Nat
  /\ Server \cap Proposals = {} /\ Server \cap Reads = {}
  /\ Proposals \cap Reads = {}

VARIABLES
  \* current_term_ and voted_for_ (persisted), state_, leader_id_; 0 = nobody
  currentTerm, votedFor, state, leaderId,
  \* log_ (persisted), commit_index_, and the writes storage_ has applied:
  \* last_applied_index_ is Len(applied[i])
  log, commitIndex, applied,
  \* leader bookkeeping; lastAck[i]: the peers in last_ack_time_
  nextIndex, matchIndex, lastAck,
  \* locals of each thread, the request it is blocked on and the reply to it
  th, req, resp,
  \* requests not yet handled whose caller saw the connection fail
  late,
  \* how much of the bounds MaxElections to MaxRestarts is used up
  spent,
  \* history: votes granted, elections won, entries a leader has committed,
  \* and what each GET could have observed when it began and what it returned
  ballots, elected, committed, seen, result

nodeVars   == <<currentTerm, votedFor, state, leaderId>>
logVars    == <<log, commitIndex, applied>>
leaderVars == <<nextIndex, matchIndex>>
callVars   == <<th, req, resp>>
readVars   == <<seen, result>>
vars == <<nodeVars, logVars, leaderVars, lastAck, callVars, late, spent,
          ballots, elected, committed, readVars>>

-----------------------------------------------------------------------------
(* Log (src/src/raft/log.cpp).                                             *)

Entry == [term : Nat, val : Proposals]

LastIndex(lg) == Len(lg)
LastTerm(lg) == IF lg = <<>> THEN 0 ELSE lg[Len(lg)].term
TermAt(lg, k) == IF k \in 1..Len(lg) THEN lg[k].term ELSE 0
EntriesFrom(lg, k) == SubSeq(lg, k, Len(lg))

\* Mutant: a conflicting entry is kept like an identical one.
MergeKeeping(lg, prev, entries) ==
  lg \o SubSeq(entries, Min({Len(lg) - prev, Len(entries)}) + 1, Len(entries))

\* The entry loop of HandleAppendEntries: entries already present with the
\* same term are kept; from the first missing or conflicting one on, the
\* suffix is dropped (TruncateFrom) and the sent entries are appended.
Merge(lg, prev, entries) ==
  LET differs == {k \in 1..Len(entries) :
                    \/ prev + k > Len(lg)
                    \/ lg[prev + k].term # entries[k].term}
  IN IF differs = {} THEN lg
     ELSE SubSeq(lg, 1, prev + Min(differs) - 1)
            \o SubSeq(entries, Min(differs), Len(entries))

\* Mutants: apply every entry of the log; leave the entry at commit out.
ApplyWholeLog(done, lg, commit) ==
  done \o [k \in 1..(Max({Len(lg), Len(done)}) - Len(done)) |-> lg[Len(done) + k].val]
\* Mutant of ApplyCommitted.
ApplyBelowCommit(done, lg, commit) ==
  done \o [k \in 1..(Max({commit - 1, Len(done)}) - Len(done)) |-> lg[Len(done) + k].val]

\* ApplyCommittedEntriesLocked: hand every entry from last_applied + 1 to the
\* commit index, as far as the log reaches, to the KV store.
ApplyCommitted(done, lg, commit) ==
  done \o [k \in 1..(Max({Min({commit, Len(lg)}), Len(done)}) - Len(done))
             |-> lg[Len(done) + k].val]

-----------------------------------------------------------------------------
(* Threads and RPCs.                                                       *)

None == [type |-> "none"]
Broken == [type |-> "broken"]    \* the connection was reset

Idle(i) == [pc |-> "idle", node |-> i, term |-> 0, peer |-> 0, got |-> {}, index |-> 0]

\* Loops over config_.peers visit the peers in config order, skipping the
\* node itself; a position past N means that the loop has ended.
PeerAfter(i, p) == IF p + 1 = i THEN p + 2 ELSE p + 1

Call(t, m) == /\ req' = [req EXCEPT ![t] = m]
              /\ resp' = [resp EXCEPT ![t] = None]

Reply(body) == [type |-> "reply", term |-> body.term, ok |-> body.ok]

RequestVote(i, j, t, lastIndex, lastTerm) ==
  [type |-> "RequestVote", from |-> i, to |-> j, term |-> t,
   lastIndex |-> lastIndex, lastTerm |-> lastTerm]

AppendEntries(i, j, prev, entries) ==
  [type |-> "AppendEntries", from |-> i, to |-> j, term |-> currentTerm[i],
   prevIndex |-> prev, prevTerm |-> TermAt(log[i], prev),
   commit |-> commitIndex[i], entries |-> entries]

\* Mutant: the loop does not end.
MovedTooFar(l, got) == [l EXCEPT !.peer = PeerAfter(l.node, l.peer), !.got = got]

\* A caller's locals once its call to l.peer is over: the next peer, or what
\* follows the loop.
Moved(l, got) ==
  LET p == PeerAfter(l.node, l.peer)
  IN IF p <= N THEN [l EXCEPT !.peer = p, !.got = got]
     ELSE CASE l.pc = "elect"   -> [l EXCEPT !.pc = "count", !.peer = 0, !.got = got]
            [] l.pc = "beat"    -> Idle(l.node)
            [] l.pc = "propose" -> [l EXCEPT !.pc = "wait", !.peer = 0]
            [] l.pc = "confirm" -> [l EXCEPT !.pc = IF Cardinality(got) >= Majority
                                                    THEN "serve" ELSE "failed",
                                             !.peer = 0, !.got = {}]

\* StartElection sends one request to all; the others build one per peer.
Advance(t, got) ==
  LET l == Moved(th[t], got)
  IN /\ th' = [th EXCEPT ![t] = l]
     /\ Call(t, IF l.pc = "elect" THEN [req[t] EXCEPT !.to = l.peer] ELSE None)

\* The thread returns from the operation.
Return(t, pc) ==
  /\ th' = [th EXCEPT ![t] = [Idle(@.node) EXCEPT !.pc = pc]]
  /\ Call(t, None)

\* Where a thread is inside a loop over the peers.
Loops == {"elect", "beat", "propose", "confirm"}

Waiting(t, loops) == th[t].pc \in loops /\ req[t].type # "none"
Answered(t, loops) == Waiting(t, loops) /\ resp[t].type = "reply"

-----------------------------------------------------------------------------
(* Role changes.                                                           *)

\* Mutants: leave leader_id_, or state_, as it was.
BecomeFollowerKeepingHint(i, t, vote, leader) ==
  /\ currentTerm' = [currentTerm EXCEPT ![i] = t]
  /\ votedFor' = [votedFor EXCEPT ![i] = vote]
  /\ state' = [state EXCEPT ![i] = "follower"]
  /\ lastAck' = [lastAck EXCEPT ![i] = {}]
  /\ UNCHANGED leaderId
\* Mutant of BecomeFollower.
BecomeFollowerKeepingRole(i, t, vote, leader) ==
  /\ currentTerm' = [currentTerm EXCEPT ![i] = t]
  /\ votedFor' = [votedFor EXCEPT ![i] = vote]
  /\ leaderId' = [leaderId EXCEPT ![i] = leader]
  /\ lastAck' = [lastAck EXCEPT ![i] = {}]
  /\ UNCHANGED state

\* BecomeFollowerLocked(t), where vote and leader are the voted_for_ and
\* leader_id_ its caller leaves behind in the same critical section.
BecomeFollower(i, t, vote, leader) ==
  /\ currentTerm' = [currentTerm EXCEPT ![i] = t]
  /\ votedFor' = [votedFor EXCEPT ![i] = vote]
  /\ state' = [state EXCEPT ![i] = "follower"]
  /\ leaderId' = [leaderId EXCEPT ![i] = leader]
  /\ lastAck' = [lastAck EXCEPT ![i] = {}]

InitialNextIndex(i) == LastIndex(log[i]) + 1

BecomeLeader(i) ==
  /\ state' = [state EXCEPT ![i] = "leader"]
  /\ leaderId' = [leaderId EXCEPT ![i] = i]
  /\ nextIndex' = [nextIndex EXCEPT ![i] = [j \in Server |-> InitialNextIndex(i)]]
  /\ matchIndex' = [matchIndex EXCEPT ![i] = [j \in Server |-> 0]]
  /\ lastAck' = [lastAck EXCEPT ![i] = {}]
  /\ elected' = elected \cup {[term |-> currentTerm[i], node |-> i]}
  /\ UNCHANGED <<currentTerm, votedFor>>

\* recent: the peers whose ack is at most kHeartbeatInterval old.
HasRecentMajorityContact(recent) == Cardinality(recent) + 1 >= Majority

-----------------------------------------------------------------------------
(* RPC handlers; each runs entirely under the mutex of the node m.to.      *)

\* Mutants: compare no terms, compare nothing.
LongEnough(m, lg) == m.lastIndex >= LastIndex(lg)
\* Mutant of UpToDate.
AnyLog(m, lg) == TRUE

UpToDate(m, lg) ==
  \/ m.lastTerm > LastTerm(lg)
  \/ m.lastTerm = LastTerm(lg) /\ m.lastIndex >= LastIndex(lg)

GrantsVote(m) ==
  LET j == m.to
  IN /\ m.term >= currentTerm[j]
     /\ m.term > currentTerm[j] \/ votedFor[j] \in {0, m.from}
     /\ UpToDate(m, log[j])

HandleRequestVote(m) ==
  LET j == m.to
      vote == IF GrantsVote(m) THEN m.from ELSE 0
  IN /\ \/ /\ m.term > currentTerm[j]
           /\ BecomeFollower(j, m.term, vote, 0)
        \/ /\ m.term <= currentTerm[j]
           /\ votedFor' = [votedFor EXCEPT ![j] = IF vote = 0 THEN @ ELSE vote]
           /\ UNCHANGED <<currentTerm, state, leaderId, lastAck>>
     /\ ballots' = IF GrantsVote(m)
                   THEN ballots \cup {[term |-> m.term, voter |-> j, candidate |-> m.from]}
                   ELSE ballots
     /\ UNCHANGED <<logVars, leaderVars, elected, committed>>

VoteReply(m) == Reply([term |-> Max({m.term, currentTerm[m.to]}), ok |-> GrantsVote(m)])

PrevMatches(m) ==
  \/ m.prevIndex = 0
  \/ /\ m.prevIndex <= LastIndex(log[m.to])
     /\ log[m.to][m.prevIndex].term = m.prevTerm

\* The part of HandleAppendEntries that follows the prev_log check.
StoreEntries(m) ==
  LET j == m.to
      lg == Merge(log[j], m.prevIndex, m.entries)
      ci == IF m.commit > commitIndex[j] THEN Min({m.commit, LastIndex(lg)})
                                         ELSE commitIndex[j]
  IN /\ log' = [log EXCEPT ![j] = lg]
     /\ commitIndex' = [commitIndex EXCEPT ![j] = ci]
     /\ applied' = IF m.commit > commitIndex[j]
                   THEN [applied EXCEPT ![j] = ApplyCommitted(@, lg, ci)] ELSE applied

HandleAppendEntries(m) ==
  LET j == m.to
  IN /\ \/ /\ m.term < currentTerm[j]
           /\ UNCHANGED <<nodeVars, lastAck, logVars>>
        \/ /\ m.term > currentTerm[j]
           /\ BecomeFollower(j, m.term, 0, m.from)
           /\ IF PrevMatches(m) THEN StoreEntries(m) ELSE UNCHANGED logVars
        \/ /\ m.term = currentTerm[j]
           /\ state' = [state EXCEPT ![j] = IF @ = "candidate" THEN "follower" ELSE @]
           /\ leaderId' = [leaderId EXCEPT ![j] = m.from]
           /\ IF PrevMatches(m) THEN StoreEntries(m) ELSE UNCHANGED logVars
           /\ UNCHANGED <<currentTerm, votedFor, lastAck>>
     /\ UNCHANGED <<leaderVars, ballots, elected, committed>>

\* Mutant: a request of an old term is answered like a current one.
AppendReplyAccepting(m) == Reply([term |-> m.term, ok |-> TRUE])

AppendReply(m) == Reply([term |-> Max({m.term, currentTerm[m.to]}),
                         ok |-> m.term >= currentTerm[m.to] /\ PrevMatches(m)])

Handle(m) == \/ m.type = "RequestVote" /\ HandleRequestVote(m)
             \/ m.type = "AppendEntries" /\ HandleAppendEntries(m)
Answer(m) == IF m.type = "RequestVote" THEN VoteReply(m) ELSE AppendReply(m)

\* The peer serves the request thread t is blocked on.
Serve(t) ==
  /\ req[t].type # "none" /\ resp[t].type = "none"
  /\ Handle(req[t])
  /\ resp' = [resp EXCEPT ![t] = Answer(req[t])]
  /\ UNCHANGED <<th, req, late, spent, readVars>>

\* The peer serves a request whose caller no longer waits for the answer.
ServeLate(m) ==
  /\ Handle(m)
  /\ late' = late \ {m}
  /\ UNCHANGED <<callVars, spent, readVars>>

\* SendRpc returns an error: connect, write or read failed.  The request may
\* have been handled, may never be, or may still reach the peer later.
RpcFails(t) ==
  /\ Waiting(t, Loops)
  /\ \/ resp[t].type = "broken" /\ UNCHANGED <<spent, late>>
     \/ /\ resp[t].type # "broken" /\ spent.failures < MaxFailures
        /\ spent' = [spent EXCEPT !.failures = @ + 1]
        /\ \/ late' = late
           \/ /\ resp[t].type = "none" /\ Cardinality(late) < MaxLate
              /\ late' = late \cup {req[t]}
  /\ Advance(t, th[t].got)
  /\ UNCHANGED <<nodeVars, logVars, leaderVars, lastAck, ballots, elected,
                 committed, readVars>>

-----------------------------------------------------------------------------
(* StartElection, on the run thread of node i.                             *)

\* RunLoop found the deadline passed.  Whatever happens to the node between
\* that check and this critical section, StartElection does not look again.
StartElection(i) ==
  LET t == currentTerm[i] + 1
      l == Moved([Idle(i) EXCEPT !.pc = "elect", !.term = t], {i})
  IN /\ th[i].pc = "idle" /\ state[i] # "leader"
     /\ spent.elections < MaxElections
     /\ spent' = [spent EXCEPT !.elections = @ + 1]
     /\ currentTerm' = [currentTerm EXCEPT ![i] = t]
     /\ votedFor' = [votedFor EXCEPT ![i] = i]
     /\ state' = [state EXCEPT ![i] = "candidate"]
     /\ leaderId' = [leaderId EXCEPT ![i] = 0]
     /\ ballots' = ballots \cup {[term |-> t, voter |-> i, candidate |-> i]}
     /\ th' = [th EXCEPT ![i] = l]
     /\ Call(i, IF l.pc = "elect"
                THEN RequestVote(i, l.peer, t, LastIndex(log[i]), LastTerm(log[i]))
                ELSE None)
     /\ UNCHANGED <<logVars, leaderVars, lastAck, late, elected, committed,
                    readVars>>

VoteReplied(i) ==
  /\ Answered(i, {"elect"})
  /\ \/ /\ state[i] # "candidate" \/ currentTerm[i] # th[i].term
        /\ Return(i, "idle")
        /\ UNCHANGED <<nodeVars, lastAck>>
     \/ /\ state[i] = "candidate" /\ currentTerm[i] = th[i].term
        /\ resp[i].term > currentTerm[i]
        /\ BecomeFollower(i, resp[i].term, 0, 0)
        /\ Return(i, "idle")
     \/ /\ state[i] = "candidate" /\ currentTerm[i] = th[i].term
        /\ resp[i].term <= currentTerm[i]
        /\ Advance(i, IF resp[i].ok THEN th[i].got \cup {th[i].peer} ELSE th[i].got)
        /\ UNCHANGED <<nodeVars, lastAck>>
  /\ UNCHANGED <<logVars, leaderVars, late, spent, ballots, elected,
                 committed, readVars>>

CountVotes(i) ==
  /\ th[i].pc = "count"
  /\ IF /\ state[i] = "candidate" /\ currentTerm[i] = th[i].term
        /\ Cardinality(th[i].got) >= Majority
     THEN BecomeLeader(i)
     ELSE UNCHANGED <<nodeVars, leaderVars, lastAck, elected>>
  /\ Return(i, "idle")
  /\ UNCHANGED <<logVars, late, spent, ballots, committed, readVars>>

-----------------------------------------------------------------------------
(* ReplicateToPeer, called for each peer in turn by the run thread's       *)
(* heartbeat round ("beat") and by Propose ("propose").                    *)

\* AdvanceCommitIndexLocked: the value that ends up majority places from the
\* top once the leader's last index and the match indices are sorted.
CommitCandidate(i, match) ==
  LET have == [j \in Server |-> IF j = i THEN LastIndex(log[i]) ELSE match[j]]
  IN Max({have[j] : j \in {j \in Server :
            Cardinality({s \in Server : have[s] >= have[j]}) >= Majority}})

AdvanceCommitIndex(i, match) ==
  LET k == CommitCandidate(i, match)
  IN IF k > commitIndex[i] /\ TermAt(log[i], k) = currentTerm[i]
     THEN /\ commitIndex' = [commitIndex EXCEPT ![i] = k]
          /\ applied' = [applied EXCEPT ![i] = ApplyCommitted(@, log[i], k)]
          /\ committed' = committed \cup
               {[index |-> n, entry |-> log[i][n], at |-> currentTerm[i]] : n \in 1..k}
     ELSE UNCHANGED <<commitIndex, applied, committed>>

\* The request for peer j, from a snapshot of node i's leader state.
Snapshot(i, j) ==
  AppendEntries(i, j, nextIndex[i][j] - 1, EntriesFrom(log[i], nextIndex[i][j]))

\* RunLoop found a heartbeat due and starts the round.  ReplicateToPeer checks
\* the role again, so the two critical sections act as one.
Heartbeat(i) ==
  LET l == Moved([Idle(i) EXCEPT !.pc = "beat"], {})
  IN /\ th[i].pc = "idle" /\ state[i] = "leader" /\ l.pc = "beat"
     /\ spent.beats < MaxBeats
     /\ spent' = [spent EXCEPT !.beats = @ + 1]
     /\ th' = [th EXCEPT ![i] = l]
     /\ Call(i, Snapshot(i, l.peer))
     /\ UNCHANGED <<nodeVars, logVars, leaderVars, lastAck, late, ballots,
                    elected, committed, readVars>>

SendToNextPeer(t) ==
  LET i == th[t].node
  IN /\ th[t].pc \in {"beat", "propose"} /\ req[t].type = "none"
     /\ IF state[i] = "leader"
        THEN Call(t, Snapshot(i, th[t].peer)) /\ UNCHANGED th
        ELSE Advance(t, {})
     /\ UNCHANGED <<nodeVars, logVars, leaderVars, lastAck, late, spent,
                    ballots, elected, committed, readVars>>

ReplicateReplied(t) ==
  LET i == th[t].node
      j == th[t].peer
      last == req[t].prevIndex + Len(req[t].entries)   \* entries.back().index
      match == IF req[t].entries = <<>> THEN matchIndex[i]
                                        ELSE [matchIndex[i] EXCEPT ![j] = last]
  IN /\ Answered(t, {"beat", "propose"})
     /\ \/ /\ state[i] # "leader" \/ currentTerm[i] # req[t].term
           /\ UNCHANGED <<nodeVars, logVars, leaderVars, lastAck, committed>>
        \/ /\ state[i] = "leader" /\ currentTerm[i] = req[t].term
           /\ resp[t].term > currentTerm[i]
           /\ BecomeFollower(i, resp[t].term, 0, 0)
           /\ UNCHANGED <<logVars, leaderVars, committed>>
        \/ /\ state[i] = "leader" /\ currentTerm[i] = req[t].term
           /\ resp[t].term <= currentTerm[i] /\ resp[t].ok
           /\ lastAck' = [lastAck EXCEPT ![i] = @ \cup {j}]
           /\ matchIndex' = [matchIndex EXCEPT ![i] = match]
           /\ nextIndex' = IF req[t].entries = <<>> THEN nextIndex
                           ELSE [nextIndex EXCEPT ![i][j] = last + 1]
           /\ AdvanceCommitIndex(i, match)
           /\ UNCHANGED <<nodeVars, log>>
        \/ /\ state[i] = "leader" /\ currentTerm[i] = req[t].term
           /\ resp[t].term <= currentTerm[i] /\ ~resp[t].ok
           /\ nextIndex' = [nextIndex EXCEPT ![i][j] = IF @ > 1 THEN @ - 1 ELSE @]
           /\ UNCHANGED <<nodeVars, logVars, matchIndex, lastAck, committed>>
     /\ Advance(t, {})
     /\ UNCHANGED <<late, spent, ballots, elected, readVars>>

-----------------------------------------------------------------------------
(* Client writes: RequestHandler::Handle(SET or DELETE) and Propose.       *)

\* Mutant of Propose: waits for the entry in front of its own.
ProposeWaitingForLast(p, i) ==
  LET l == [Idle(i) EXCEPT !.pc = "propose", !.term = currentTerm[i], !.index = LastIndex(log[i])]
  IN /\ th[p].pc = "idle" /\ state[i] = "leader"
     /\ log' = [log EXCEPT ![i] = Append(@, [term |-> currentTerm[i], val |-> p])]
     /\ th' = [th EXCEPT ![p] = Moved(l, {})]
     /\ UNCHANGED <<nodeVars, commitIndex, applied, leaderVars, lastAck, req, resp,
                    late, spent, ballots, elected, committed, readVars>>

\* A node that is not the leader answers kWrongLeader and does nothing else.
Propose(p, i) ==
  LET l == [Idle(i) EXCEPT !.pc = "propose", !.term = currentTerm[i],
                           !.index = LastIndex(log[i]) + 1]
  IN /\ th[p].pc = "idle" /\ state[i] = "leader"
     /\ log' = [log EXCEPT ![i] = Append(@, [term |-> currentTerm[i], val |-> p])]
     /\ th' = [th EXCEPT ![p] = Moved(l, {})]
     /\ UNCHANGED <<nodeVars, commitIndex, applied, leaderVars, lastAck, req, resp,
                    late, spent, ballots, elected, committed, readVars>>

ProposalApplied(p) == Len(applied[th[p].node]) >= th[p].index

\* cv_.wait_for ends: because its predicate holds, or after kProposeTimeout.
\* OK exactly when last_applied has reached the index of the entry; otherwise
\* "not leader" or "timed out", which the client cannot tell from a failure.
ProposeReturns(p) ==
  /\ th[p].pc = "wait"
  /\ th' = [th EXCEPT ![p].pc = IF ProposalApplied(p) THEN "ok" ELSE "failed"]
  /\ UNCHANGED <<nodeVars, logVars, leaderVars, lastAck, req, resp, late, spent,
                 ballots, elected, committed, readVars>>

-----------------------------------------------------------------------------
(* Client reads: RequestHandler::Handle(GET) and ConfirmLeadershipQuorum.  *)

Acknowledged == {p \in Proposals : th[p].pc = "ok"}

StartRead(r, i) ==
  LET l == [Idle(i) EXCEPT !.pc = "confirm", !.term = currentTerm[i]]
  IN /\ th[r].pc = "idle" /\ state[i] = "leader"
     /\ \E recent \in SUBSET lastAck[i] :
          th' = [th EXCEPT ![r] = IF HasRecentMajorityContact(recent)
                                  THEN [l EXCEPT !.pc = "lease"] ELSE Moved(l, {i})]
     /\ seen' = [seen EXCEPT ![r] = [acked |-> Acknowledged, elected |-> elected]]
     /\ UNCHANGED <<nodeVars, logVars, leaderVars, lastAck, req, resp, late, spent,
                    ballots, elected, committed, result>>

\* One empty AppendEntries per peer, if still leader in the same term.
ConfirmSend(r) ==
  LET i == th[r].node
      j == th[r].peer
  IN /\ th[r].pc = "confirm" /\ req[r].type = "none"
     /\ IF state[i] = "leader" /\ currentTerm[i] = th[r].term
        THEN Call(r, AppendEntries(i, j, nextIndex[i][j] - 1, <<>>)) /\ UNCHANGED th
        ELSE Return(r, "failed")
     /\ UNCHANGED <<nodeVars, logVars, leaderVars, lastAck, late, spent,
                    ballots, elected, committed, readVars>>

ConfirmReplied(r) ==
  LET i == th[r].node
      j == th[r].peer
  IN /\ Answered(r, {"confirm"})
     /\ \/ /\ resp[r].term > currentTerm[i]
           /\ BecomeFollower(i, resp[r].term, 0, 0)
           /\ Return(r, "failed")
        \/ /\ resp[r].term <= currentTerm[i]
           /\ state[i] # "leader" \/ currentTerm[i] # th[r].term
           /\ Return(r, "failed")
           /\ UNCHANGED <<nodeVars, lastAck>>
        \/ /\ resp[r].term <= currentTerm[i]
           /\ state[i] = "leader" /\ currentTerm[i] = th[r].term
           /\ lastAck' = IF resp[r].ok THEN [lastAck EXCEPT ![i] = @ \cup {j}] ELSE lastAck
           /\ Advance(r, IF resp[r].ok THEN th[r].got \cup {j} ELSE th[r].got)
           /\ UNCHANGED nodeVars
     /\ UNCHANGED <<logVars, leaderVars, late, spent, ballots, elected,
                    committed, readVars>>

\* storage_.Get, with no lock shared with the Raft state.
ServeRead(r) ==
  /\ th[r].pc \in {"serve", "lease"}
  /\ result' = [result EXCEPT ![r] = applied[th[r].node]]
  /\ th' = [th EXCEPT ![r].pc = IF @ = "serve" THEN "ok" ELSE "lease ok"]
  /\ UNCHANGED <<nodeVars, logVars, leaderVars, lastAck, req, resp, late, spent,
                 ballots, elected, committed, seen>>

-----------------------------------------------------------------------------
(* Crashes.                                                                *)

\* The process of node i dies and is started again: its threads are gone, the
\* connections to it are reset, and the constructors reload the state file
\* and the WAL.  RecoverFromWal replays every record into the KV store.
Restart(i) ==
  LET mine == {t \in Thread : th[t].node = i}
      sent == {req[t] : t \in {t \in mine : req[t].type # "none" /\ resp[t].type = "none"}}
  IN /\ spent.restarts < MaxRestarts
     /\ spent' = [spent EXCEPT !.restarts = @ + 1]
     /\ state' = [state EXCEPT ![i] = "follower"]
     /\ leaderId' = [leaderId EXCEPT ![i] = 0]
     /\ commitIndex' = [commitIndex EXCEPT ![i] = 0]
     /\ applied' = [applied EXCEPT ![i] = [k \in DOMAIN log[i] |-> log[i][k].val]]
     /\ nextIndex' = [nextIndex EXCEPT ![i] = [j \in Server |-> 0]]
     /\ matchIndex' = [matchIndex EXCEPT ![i] = [j \in Server |-> 0]]
     /\ lastAck' = [lastAck EXCEPT ![i] = {}]
     /\ th' = [t \in Thread |->
                 CASE t = i -> Idle(i)
                   [] t \in mine \ {i} /\ th[t].pc \in {"propose", "wait", "confirm", "serve", "lease"}
                        -> [Idle(i) EXCEPT !.pc = "failed"]
                   [] OTHER -> th[t]]
     /\ req' = [t \in Thread |-> IF t \in mine THEN None ELSE req[t]]
     /\ resp' = [t \in Thread |->
                   CASE t \in mine -> None
                     [] t \notin mine /\ req[t].type # "none" /\ resp[t].type = "none"
                          /\ req[t].to = i -> Broken
                     [] OTHER -> resp[t]]
     /\ \E kept \in SUBSET sent :
          LET rest == {m \in late : m.to # i}
          IN /\ Cardinality(rest \cup kept) <= MaxLate
             /\ late' = rest \cup kept
     /\ UNCHANGED <<currentTerm, votedFor, log, ballots, elected, committed, readVars>>

-----------------------------------------------------------------------------
Init ==
  /\ currentTerm = [i \in Server |-> 0]
  /\ votedFor = [i \in Server |-> 0]
  /\ state = [i \in Server |-> "follower"]
  /\ leaderId = [i \in Server |-> 0]
  /\ log = [i \in Server |-> <<>>]
  /\ commitIndex = [i \in Server |-> 0]
  /\ applied = [i \in Server |-> <<>>]
  /\ nextIndex = [i \in Server |-> [j \in Server |-> 0]]
  /\ matchIndex = [i \in Server |-> [j \in Server |-> 0]]
  /\ lastAck = [i \in Server |-> {}]
  /\ th = [t \in Thread |-> Idle(IF t \in Server THEN t ELSE 0)]
  /\ req = [t \in Thread |-> None]
  /\ resp = [t \in Thread |-> None]
  /\ late = {}
  /\ spent = [elections |-> 0, beats |-> 0, failures |-> 0, restarts |-> 0]
  /\ ballots = {}
  /\ elected = {}
  /\ committed = {}
  /\ seen = [r \in Reads |-> [acked |-> {}, elected |-> {}]]
  /\ result = [r \in Reads |-> <<>>]

Next ==
  \/ \E i \in Server : \/ StartElection(i) \/ VoteReplied(i) \/ CountVotes(i)
                       \/ Heartbeat(i) \/ Restart(i)
  \/ \E t \in Server \cup Proposals : SendToNextPeer(t) \/ ReplicateReplied(t)
  \/ \E p \in Proposals : ProposeReturns(p) \/ \E i \in Server : Propose(p, i)
  \/ \E r \in Reads : \/ ConfirmSend(r) \/ ConfirmReplied(r) \/ ServeRead(r)
                      \/ \E i \in Server : StartRead(r, i)
  \/ \E t \in Thread : Serve(t) \/ RpcFails(t)
  \/ \E m \in late : ServeLate(m)

Spec == Init /\ [][Next]_vars

-----------------------------------------------------------------------------
(* Properties.                                                             *)

Request ==
  [type : {"RequestVote"}, from : Server, to : Server, term : Nat,
   lastIndex : Nat, lastTerm : Nat]
  \cup
  [type : {"AppendEntries"}, from : Server, to : Server, term : Nat,
   prevIndex : Nat, prevTerm : Nat, commit : Nat, entries : Seq(Entry)]

Response == [type : {"reply"}, term : Nat, ok : BOOLEAN] \cup {None, Broken}

Locals ==
  [pc : {"idle", "elect", "count", "beat", "propose", "wait", "confirm", "serve",
         "lease", "ok", "lease ok", "failed"},
   node : 0..N, term : Nat, peer : 0..N, got : SUBSET Server, index : Nat]

\* The types of the fields of RaftNode, of the locals of its threads, and of
\* the requests and replies of types.h that are in flight.
TypeOK ==
  /\ currentTerm \in [Server -> Nat]
  /\ votedFor \in [Server -> 0..N]
  /\ state \in [Server -> {"follower", "candidate", "leader"}]
  /\ leaderId \in [Server -> 0..N]
  /\ log \in [Server -> Seq(Entry)]
  /\ commitIndex \in [Server -> Nat]
  /\ applied \in [Server -> Seq(Proposals)]
  /\ nextIndex \in [Server -> [Server -> Nat]]
  /\ matchIndex \in [Server -> [Server -> Nat]]
  /\ lastAck \in [Server -> SUBSET Server]
  /\ th \in [Thread -> Locals]
  /\ req \in [Thread -> Request \cup {None}]
  /\ resp \in [Thread -> Response]
  /\ late \in SUBSET Request
  /\ spent \in [elections : Nat, beats : Nat, failures : Nat, restarts : Nat]
  /\ ballots \in SUBSET [term : Nat, voter : Server, candidate : Server]
  /\ elected \in SUBSET [term : Nat, node : Server]
  /\ committed \in SUBSET [index : Nat, entry : Entry, at : Nat]
  /\ seen \in [Reads -> [acked : SUBSET Proposals,
                         elected : SUBSET [term : Nat, node : Server]]]
  /\ result \in [Reads -> Seq(Proposals)]

\* How the locals of a thread, the request it is blocked on and the reply to
\* it hang together: a thread is inside a loop over the peers of its node, and
\* its request, if it has one, goes from that node to the peer at hand.
CallOK(t, l, q, a) ==
  /\ t \in Server => l.node = t
  /\ l.pc # "idle" => l.node \in Server
  /\ l.pc \in {"elect", "count", "beat"} => t \in Server
  /\ l.pc \in {"elect", "count"} => l.term >= 1
  /\ l.pc \in Loops => l.peer \in Server \ {l.node}
  /\ q.type = "RequestVote" <=> l.pc = "elect"
  /\ q.type = "RequestVote" => q.term = l.term
  /\ q.type = "AppendEntries" => l.pc \in Loops
  /\ q.type # "none" => q.from = l.node /\ q.to = l.peer
  /\ a.type # "none" => q.type # "none"
CallsWellFormed ==
  /\ \A t \in Thread : CallOK(t, th[t], req[t], resp[t])
  /\ \A m \in late : m.from # m.to

\* What BecomeLeaderLocked sets up and ReplicateToPeer relies on: prev_log_index
\* is next_index_ - 1, without a sign.
LeadersWellFormed ==
  \A i \in Server : state[i] = "leader" =>
    currentTerm[i] >= 1 /\ \A j \in Server : nextIndex[i][j] >= 1

\* At most one node ever wins the election of a term, across restarts, late
\* vote requests and elections decided on a deadline that is out of date.
ElectionSafety ==
  \A e, f \in elected : e.term = f.term => e.node = f.node

\* The leader_id_ a node hands to clients as kWrongLeader's hint is a node
\* that won the election of the node's own current term.
LeaderHintElected ==
  \A i \in Server : leaderId[i] # 0 =>
    [term |-> currentTerm[i], node |-> leaderId[i]] \in elected

\* Two logs that hold an entry of the same term at the same index agree up to
\* that index, in spite of HandleAppendEntries skipping entries whose term it
\* already has and of replies that move next_index_ back.
LogMatching ==
  \A i, j \in Server : \A k \in 1..Min({Len(log[i]), Len(log[j])}) :
    log[i][k].term = log[j][k].term => SubSeq(log[i], 1, k) = SubSeq(log[j], 1, k)

\* An entry that AdvanceCommitIndexLocked has committed on some leader is in
\* the log of every node that leads in a later term.
LeaderCompleteness ==
  \A i \in Server : state[i] = "leader" =>
    \A c \in committed : c.at < currentTerm[i] =>
      c.index <= Len(log[i]) /\ log[i][c.index] = c.entry

\* Leaders never commit different entries at one index.
CommitAgreement ==
  \A c, d \in committed : c.index = d.index => c.entry = d.entry

\* No two nodes apply different writes at the same position.
StateMachineSafety ==
  \A i, j \in Server : \A k \in 1..Min({Len(applied[i]), Len(applied[j])}) :
    applied[i][k] = applied[j][k]

\* What a node has applied was committed by some leader at that position.
AppliedIsCommitted ==
  \A i \in Server : \A k \in 1..Len(applied[i]) :
    \E c \in committed : c.index = k /\ c.entry.val = applied[i][k]

\* Every entry up to a node's commit index has been handed to its KV store.
CommittedIsApplied ==
  \A i \in Server : \A k \in 1..commitIndex[i] :
    k <= Len(log[i]) /\ k <= Len(applied[i]) /\ applied[i][k] = log[i][k].val

\* A leader only ever extends its own log: HandleAppendEntries, the only code
\* that truncates, never runs its entry loop against a leader of its term.
LeaderAppendOnly ==
  [][\A i \in Server : state[i] = "leader" /\ state'[i] = "leader" =>
        SubSeq(log'[i], 1, Len(log[i])) = log[i]]_vars

\* If Propose returns Ok while its node still leads in the term in which it
\* appended the entry, that very entry has been committed.
OkInTermIsCommitted ==
  [][\A p \in Proposals :
       LET i == th[p].node
       IN th[p].pc = "wait" /\ th'[p].pc = "ok"
            /\ state[i] = "leader" /\ currentTerm[i] = th[p].term
          => \E c \in committed : c.index = th[p].index /\ c.entry.val = p]_vars

\* A full round of ConfirmLeadershipQuorum that succeeds shows that no leader
\* of a later term had been elected when the GET began.
ConfirmedReadIsCurrent ==
  \A r \in Reads : th[r].pc \in {"serve", "ok"} =>
    \A e \in seen[r].elected : e.term <= th[r].term

\* A write that Propose acknowledged with Ok is in the logs of a majority.
AckedIsDurable ==
  \A p \in Acknowledged :
    Cardinality({i \in Server : \E k \in DOMAIN log[i] : log[i][k].val = p}) >= Majority

\* commit_index_ - last_applied, which lag_entries computes without a sign, is
\* never below zero.
LagIsNotNegative == \A i \in Server : Len(applied[i]) <= commitIndex[i]

\* A GET that succeeds returns a state that reflects every write acknowledged
\* before the GET began.
ReadsReflectAcked ==
  \A r \in Reads : th[r].pc \in {"ok", "lease ok"} =>
    \A p \in seen[r].acked : \E k \in DOMAIN result[r] : result[r][k] = p

\* A GET that skips the round of ConfirmLeadershipQuorum because a majority
\* acked recently is as safe as one that makes it: no leader of a later term
\* had been elected when the GET began.
LeaseReadIsCurrent ==
  \A r \in Reads : th[r].pc \in {"lease", "lease ok"} =>
    \A e \in seen[r].elected : e.term <= th[r].term

=============================================================================

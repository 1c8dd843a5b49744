------------------------- MODULE RaftElectionProofs -------------------------
(***************************************************************************)
(* A term has at most one leader, the leader hint of a node names it, and  *)
(* a leader never truncates its own log.                                   *)
(*                                                                         *)
(* The argument.  A node hands out a vote only in its current term, and    *)
(* within a term only to the node voted_for_ names; so it backs at most    *)
(* one candidate per term (OneBallot, from BallotsBehind).  Whoever a      *)
(* candidate counts has really voted for it in the term of its candidacy   *)
(* (VotesCounted), so a leader has a majority behind it, and two           *)
(* majorities share a node.                                                *)
(***************************************************************************)
EXTENDS RaftNodeProofs

Ballot(t, v, c) == [term |-> t, voter |-> v, candidate |-> c]
Win(t, i) == [term |-> t, node |-> i]

BallotsBehind ==
  \A b \in ballots : /\ b.term <= currentTerm[b.voter]
                     /\ b.term = currentTerm[b.voter] => votedFor[b.voter] = b.candidate
OneBallot ==
  \A b, c \in ballots : b.term = c.term /\ b.voter = c.voter => b.candidate = c.candidate
HasQuorum(e, B) ==
  \E Q \in SUBSET Server : Cardinality(Q) >= Majority /\ \A v \in Q : Ballot(e.term, v, e.node) \in B
ElectedHaveQuorum == \A e \in elected : HasQuorum(e, ballots)
LeadersElected == \A i \in Server : state[i] = "leader" => Win(currentTerm[i], i) \in elected

\* What the locals l, the request q and the reply a of a thread say about the
\* votes B that were cast and the elections E that were won.
VoteOK(l, q, a, B, E) ==
  /\ l.pc \in {"elect", "count"} => \A v \in l.got : Ballot(l.term, v, l.node) \in B
  /\ q.type = "RequestVote" /\ a.type = "reply" /\ a.ok => Ballot(q.term, q.to, q.from) \in B
  /\ q.type = "AppendEntries" => Win(q.term, q.from) \in E
VotesCounted ==
  /\ \A t \in Thread : VoteOK(th[t], req[t], resp[t], ballots, elected)
  /\ \A m \in late : m.type = "AppendEntries" => Win(m.term, m.from) \in elected

NodeInv == BallotsBehind /\ OneBallot /\ ElectedHaveQuorum /\ LeadersElected /\ LeaderHintElected
ElectionInv == NodeInv /\ VotesCounted

-----------------------------------------------------------------------------
(* The node's part.                                                        *)

\* A node that moves to a later term, whatever vote it records there.
LEMMA TermStep ==
  ASSUME TypeInv, NodeInv, NEW i \in Server, NEW t \in Nat, t > currentTerm[i],
         NEW v \in 0..N, NEW h \in 0..N, NEW s \in {"follower", "candidate"},
         currentTerm' = [currentTerm EXCEPT ![i] = t],
         votedFor' = [votedFor EXCEPT ![i] = v],
         state' = [state EXCEPT ![i] = s],
         leaderId' = [leaderId EXCEPT ![i] = h],
         h # 0 => Win(t, h) \in elected,
         elected' = elected,
         \/ ballots' = ballots
         \/ ballots' = ballots \cup {Ballot(t, i, v)}
  PROVE  NodeInv'
<1>1. /\ currentTerm \in [Server -> Nat] /\ votedFor \in [Server -> 0..N]
      /\ state \in [Server -> {"follower", "candidate", "leader"}]
      /\ leaderId \in [Server -> 0..N]
      /\ ballots \in SUBSET [term : Nat, voter : Server, candidate : Server]
  BY Zenon DEF TypeInv, TypeOK
<1>2. \A b \in ballots : b.voter = i => b.term < t
  BY <1>1 DEF NodeInv, BallotsBehind
<1>3. BallotsBehind'
  <2>1. ASSUME NEW b \in ballots
        PROVE  /\ b.term <= currentTerm'[b.voter]
               /\ b.term = currentTerm'[b.voter] => votedFor'[b.voter] = b.candidate
    <3>1. b.voter \in Server /\ b.term \in Nat
      BY <1>1
    <3>2. /\ b.term <= currentTerm[b.voter]
          /\ b.term = currentTerm[b.voter] => votedFor[b.voter] = b.candidate
      BY DEF NodeInv, BallotsBehind
    <3> QED BY <1>1, <1>2, <3>1, <3>2
  <2>2. t <= currentTerm'[i] /\ votedFor'[i] = v
    BY <1>1
  <2> QED BY <2>1, <2>2 DEF BallotsBehind, Ballot
<1>4. OneBallot'
  <2>1. \A b \in ballots : ~(b.term = t /\ b.voter = i)
    BY <1>1, <1>2
  <2> QED BY <2>1 DEF NodeInv, OneBallot, Ballot
<1>5. ElectedHaveQuorum'
  BY DEF NodeInv, ElectedHaveQuorum, HasQuorum
<1>6. LeadersElected'
  BY <1>1 DEF NodeInv, LeadersElected
<1>7. LeaderHintElected'
  BY <1>1 DEF NodeInv, LeaderHintElected, Win
<1> QED BY <1>3, <1>4, <1>5, <1>6, <1>7 DEF NodeInv

\* A step that leaves terms, votes and elections alone, and in which roles and
\* hints only change in ways the elections allow.
LEMMA QuietStep ==
  ASSUME TypeInv, NodeInv, UNCHANGED <<currentTerm, votedFor, ballots, elected>>,
         \A i \in Server : state'[i] = "leader" => state[i] = "leader",
         \A i \in Server : \/ leaderId'[i] \in {0, leaderId[i]}
                           \/ Win(currentTerm[i], leaderId'[i]) \in elected
  PROVE  NodeInv'
BY DEF NodeInv, BallotsBehind, OneBallot, ElectedHaveQuorum, HasQuorum, LeadersElected,
       LeaderHintElected, Win

\* HandleRequestVote.
LEMMA HandleRequestVoteNode ==
  ASSUME TypeInv, NodeInv, NEW m \in Request, m.type = "RequestVote", HandleRequestVote(m)
  PROVE  NodeInv' /\ (GrantsVote(m) => Ballot(m.term, m.to, m.from) \in ballots')
                  /\ ballots \subseteq ballots' /\ elected' = elected
<1> DEFINE j == m.to
           vote == IF GrantsVote(m) THEN m.from ELSE 0
<1>1. j \in Server /\ m.from \in Server /\ m.from \in 0..N /\ m.term \in Nat /\ 0 \in 0..N
        /\ m.from # 0
  BY ServerFacts, Zenon DEF Request
<1>2. /\ elected' = elected
      /\ ballots' = IF GrantsVote(m) THEN ballots \cup {Ballot(m.term, j, m.from)} ELSE ballots
  BY DEF HandleRequestVote, Ballot
<1>3. CASE m.term > currentTerm[j] /\ BecomeFollower(j, m.term, vote, 0)
  <2>1. vote \in 0..N
    BY <1>1
  <2>2. ballots' = ballots \/ ballots' = ballots \cup {Ballot(m.term, j, vote)}
    BY <1>2
  <2> HIDE DEF vote
  <2>3. NodeInv'
    BY <1>1, <1>2, <1>3, <2>1, <2>2, TermStep, Zenon DEF BecomeFollower
  <2> QED BY <1>2, <2>3
<1>4. CASE /\ m.term <= currentTerm[j]
           /\ votedFor' = [votedFor EXCEPT ![j] = IF vote = 0 THEN @ ELSE vote]
           /\ UNCHANGED <<currentTerm, state, leaderId, lastAck>>
  <2>1. CASE ~GrantsVote(m)
    <3>1. votedFor' = votedFor
      BY <1>1, <1>4, <2>1 DEF TypeInv, TypeOK
    <3>2. NodeInv'
      BY <1>2, <1>4, <2>1, <3>1, QuietStep
    <3> QED BY <1>2, <2>1, <3>2
  <2>2. CASE GrantsVote(m)
    <3>1. /\ m.term = currentTerm[j] /\ votedFor[j] \in {0, m.from}
      <4>1. currentTerm[j] \in Nat
        BY <1>1 DEF TypeInv, TypeOK
      <4>2. /\ m.term >= currentTerm[j]
            /\ m.term > currentTerm[j] \/ votedFor[j] \in {0, m.from}
        BY <2>2 DEF GrantsVote
      <4> QED BY <1>1, <1>4, <4>1, <4>2
    <3>2. votedFor' = [votedFor EXCEPT ![j] = m.from]
      BY <1>1, <1>4, <2>2
    <3>3. ballots' = ballots \cup {Ballot(m.term, j, m.from)}
      BY <1>2, <2>2
    <3>4. /\ currentTerm \in [Server -> Nat] /\ votedFor \in [Server -> 0..N]
          /\ ballots \in SUBSET [term : Nat, voter : Server, candidate : Server]
      BY DEF TypeInv, TypeOK
    <3>5. \A b \in ballots : b.voter = j /\ b.term = m.term => b.candidate = m.from
      <4>1. \A b \in ballots : b.candidate # 0
        BY <3>4, ServerFacts
      <4> QED BY <3>1, <4>1 DEF NodeInv, BallotsBehind
    <3>6. BallotsBehind'
      <4>1. ASSUME NEW b \in ballots
            PROVE  /\ b.term <= currentTerm'[b.voter]
                   /\ b.term = currentTerm'[b.voter] => votedFor'[b.voter] = b.candidate
        <5>1. /\ b.term <= currentTerm[b.voter] /\ b.voter \in Server
              /\ b.term = currentTerm[b.voter] => votedFor[b.voter] = b.candidate
          BY <3>4 DEF NodeInv, BallotsBehind
        <5> QED BY <1>1, <1>4, <3>1, <3>2, <3>4, <3>5, <5>1
      <4>2. m.term <= currentTerm'[j] /\ votedFor'[j] = m.from
        BY <1>1, <1>4, <3>1, <3>2, <3>4
      <4> QED BY <3>3, <4>1, <4>2 DEF BallotsBehind, Ballot
    <3>7. OneBallot'
      BY <3>3, <3>5 DEF NodeInv, OneBallot, Ballot
    <3>8. ElectedHaveQuorum'
      BY <1>2, <3>3 DEF NodeInv, ElectedHaveQuorum, HasQuorum
    <3>9. LeadersElected' /\ LeaderHintElected'
      BY <1>2, <1>4 DEF NodeInv, LeadersElected, LeaderHintElected
    <3> QED BY <1>2, <2>2, <3>6, <3>7, <3>8, <3>9 DEF NodeInv
  <2> QED BY <2>1, <2>2
<1> QED BY <1>3, <1>4 DEF HandleRequestVote

\* HandleAppendEntries, for a request sent by a leader that was elected.
LEMMA HandleAppendEntriesNode ==
  ASSUME TypeInv, NodeInv, NEW m \in Request, m.type = "AppendEntries",
         Win(m.term, m.from) \in elected, HandleAppendEntries(m)
  PROVE  NodeInv' /\ ballots' = ballots /\ elected' = elected
<1> DEFINE j == m.to
<1>1. j \in Server /\ m.from \in 0..N /\ m.term \in Nat /\ 0 \in 0..N
  BY ServerFacts, Zenon DEF Request
<1>2. ballots' = ballots /\ elected' = elected
  BY DEF HandleAppendEntries
<1>3. CASE UNCHANGED <<nodeVars, lastAck, logVars>>
  <2>1. NodeInv'
    BY <1>2, <1>3, QuietStep DEF nodeVars
  <2> QED BY <1>2, <2>1
<1>4. CASE m.term > currentTerm[j] /\ BecomeFollower(j, m.term, 0, m.from)
  <2>1. NodeInv'
    BY <1>1, <1>2, <1>4, TermStep, Zenon DEF BecomeFollower
  <2> QED BY <1>2, <2>1
<1>5. CASE /\ m.term = currentTerm[j]
           /\ state' = [state EXCEPT ![j] = IF @ = "candidate" THEN "follower" ELSE @]
           /\ leaderId' = [leaderId EXCEPT ![j] = m.from]
           /\ UNCHANGED <<currentTerm, votedFor, lastAck>>
  <2>1. \A i \in Server : state'[i] = "leader" => state[i] = "leader"
    BY <1>1, <1>5, Zenon DEF TypeInv, TypeOK
  <2>2. \A i \in Server : \/ leaderId'[i] \in {0, leaderId[i]}
                          \/ Win(currentTerm[i], leaderId'[i]) \in elected
    BY <1>1, <1>5, Zenon DEF TypeInv, TypeOK
  <2>3. NodeInv'
    BY <1>2, <1>5, <2>1, <2>2, QuietStep
  <2> QED BY <1>2, <2>3
<1> QED BY <1>3, <1>4, <1>5 DEF HandleAppendEntries

\* BecomeFollowerLocked, where a caller saw a reply with a later term.
LEMMA StepDownNode ==
  ASSUME TypeInv, NodeInv, NEW i \in Server, NEW t \in Nat, t > currentTerm[i],
         BecomeFollower(i, t, 0, 0), UNCHANGED <<ballots, elected>>
  PROVE  NodeInv'
BY ServerFacts, TermStep, Zenon DEF BecomeFollower

\* BecomeLeaderLocked, with a majority behind the candidate.
LEMMA BecomeLeaderNode ==
  ASSUME TypeInv, NodeInv, NEW i \in Server, NEW Q \in SUBSET Server,
         Cardinality(Q) >= Majority, \A v \in Q : Ballot(currentTerm[i], v, i) \in ballots,
         BecomeLeader(i), ballots' = ballots
  PROVE  NodeInv'
<1>1. /\ state' = [state EXCEPT ![i] = "leader"] /\ leaderId' = [leaderId EXCEPT ![i] = i]
      /\ elected' = elected \cup {Win(currentTerm[i], i)}
      /\ UNCHANGED <<currentTerm, votedFor>>
  BY DEF BecomeLeader, Win
<1>2. /\ state \in [Server -> {"follower", "candidate", "leader"}]
      /\ leaderId \in [Server -> 0..N]
  BY DEF TypeInv, TypeOK
<1>3. BallotsBehind' /\ OneBallot'
  BY <1>1 DEF NodeInv, BallotsBehind, OneBallot
<1>4. HasQuorum(Win(currentTerm[i], i), ballots)
  BY DEF HasQuorum, Win
<1>5. ElectedHaveQuorum'
  BY <1>1, <1>4 DEF NodeInv, ElectedHaveQuorum
<1>6. LeadersElected'
  BY <1>1, <1>2 DEF NodeInv, LeadersElected
<1>7. LeaderHintElected'
  BY <1>1, <1>2 DEF NodeInv, LeaderHintElected, Win
<1> QED BY <1>3, <1>5, <1>6, <1>7 DEF NodeInv

-----------------------------------------------------------------------------
(* The calls' part.                                                        *)

\* More votes and more elections change nothing for a thread.
LEMMA VoteOKMonotone ==
  ASSUME NEW l, NEW q, NEW a, NEW B, NEW C, NEW E, NEW F, B \subseteq C, E \subseteq F,
         VoteOK(l, q, a, B, E)
  PROVE  VoteOK(l, q, a, C, F)
BY DEF VoteOK

\* Only thread t's call changes.
LEMMA OneCallVotes ==
  ASSUME TypeInv, VotesCounted, NEW t \in Thread, NEW l, NEW q, NEW a,
         th' = [th EXCEPT ![t] = l], req' = [req EXCEPT ![t] = q], resp' = [resp EXCEPT ![t] = a],
         late' \subseteq late \cup {req[t]},
         ballots \subseteq ballots', elected \subseteq elected',
         VoteOK(l, q, a, ballots', elected')
  PROVE  VotesCounted'
<1>1. th \in [Thread -> Locals] /\ req \in [Thread -> Request \cup {None}]
        /\ resp \in [Thread -> Response]
  BY DEF TypeInv, TypeOK
<1>2. ASSUME NEW s \in Thread PROVE VoteOK(th'[s], req'[s], resp'[s], ballots', elected')
  <2>1. CASE s = t
    BY <1>1, <2>1
  <2>2. CASE s # t
    <3>1. VoteOK(th[s], req[s], resp[s], ballots', elected')
      BY VoteOKMonotone DEF VotesCounted
    <3> QED BY <1>1, <2>2, <3>1
  <2> QED BY <2>1, <2>2
<1>3. ASSUME NEW m \in late', m.type = "AppendEntries" PROVE Win(m.term, m.from) \in elected'
  <2>1. VoteOK(th[t], req[t], resp[t], ballots, elected)
    BY DEF VotesCounted
  <2> QED BY <1>3, <2>1 DEF VotesCounted, VoteOK
<1> QED BY <1>2, <1>3 DEF VotesCounted

\* A thread goes on to the next peer.
LEMMA AdvanceVotes ==
  ASSUME TypeInv, VotesCounted, NEW t \in Thread, NEW got \in SUBSET Server, th[t].pc \in Loops,
         th[t].pc = "elect" => \A v \in got : Ballot(th[t].term, v, th[t].node) \in ballots,
         Advance(t, got), late' \subseteq late \cup {req[t]}, UNCHANGED <<ballots, elected>>
  PROVE  VotesCounted'
<1> DEFINE l == Moved(th[t], got)
           q == IF l.pc = "elect" THEN [req[t] EXCEPT !.to = l.peer] ELSE None
<1>1. th[t] \in Locals /\ th[t].node \in Server /\ CallOK(t, th[t], req[t], resp[t])
        /\ req[t] \in Request \cup {None}
  BY DEF TypeInv, TypeOK, CallsWellFormed, CallOK, Loops
<1>2. /\ th' = [th EXCEPT ![t] = l] /\ req' = [req EXCEPT ![t] = q]
      /\ resp' = [resp EXCEPT ![t] = None]
  BY DEF Advance, Call
<1>3. /\ l.node = th[t].node
      /\ l.pc \in {"elect", "count"} => th[t].pc = "elect" /\ l.term = th[t].term /\ l.got = got
  BY <1>1, MovedType DEF Loops
<1> HIDE DEF l
<1>4. q.type # "AppendEntries"
  <2>1. CASE l.pc = "elect"
    <3>1. req[t] \in Request /\ req[t].type = "RequestVote"
      BY <1>1, <1>3, <2>1 DEF CallOK, None
    <3> QED BY <2>1, <3>1 DEF Request
  <2>2. CASE l.pc # "elect"
    BY <2>2 DEF None
  <2> QED BY <2>1, <2>2
<1> HIDE DEF q
<1>5. VoteOK(l, q, None, ballots', elected')
  BY <1>3, <1>4 DEF VoteOK, None
<1> QED BY <1>2, <1>5, OneCallVotes, Zenon

\* A thread returns.
LEMMA ReturnVotes ==
  ASSUME TypeInv, VotesCounted, NEW t \in Thread, NEW pc \in {"idle", "failed"}, Return(t, pc),
         late' = late, ballots \subseteq ballots', elected \subseteq elected'
  PROVE  VotesCounted'
<1> DEFINE l == [Idle(th[t].node) EXCEPT !.pc = pc]
<1>1. th \in [Thread -> Locals]
  BY DEF TypeInv, TypeOK
<1>2. /\ th' = [th EXCEPT ![t] = l] /\ req' = [req EXCEPT ![t] = None]
      /\ resp' = [resp EXCEPT ![t] = None]
  BY <1>1 DEF Return, Call
<1>3. l.pc = pc
  BY DEF Idle
<1> HIDE DEF l
<1>4. VoteOK(l, None, None, ballots', elected')
  BY <1>3 DEF VoteOK, None
<1> QED BY <1>2, <1>4, OneCallVotes, Zenon

-----------------------------------------------------------------------------
(* Every action keeps the election invariant.                              *)

\* A handler at work on a request whose sender, if a leader, was elected.
LEMMA HandleElection ==
  ASSUME TypeInv, NodeInv, NEW m \in Request, Handle(m),
         m.type = "AppendEntries" => Win(m.term, m.from) \in elected
  PROVE  /\ NodeInv' /\ ballots \subseteq ballots' /\ elected' = elected
         /\ m.type = "RequestVote" /\ Answer(m).ok => Ballot(m.term, m.to, m.from) \in ballots'
<1>1. CASE m.type = "RequestVote" /\ HandleRequestVote(m)
  <2>1. Answer(m).ok = GrantsVote(m)
    BY <1>1 DEF Answer, VoteReply, Reply
  <2> QED BY <1>1, <2>1, HandleRequestVoteNode
<1>2. CASE m.type = "AppendEntries" /\ HandleAppendEntries(m)
  BY <1>2, HandleAppendEntriesNode
<1> QED BY <1>1, <1>2 DEF Handle

\* Serve.
LEMMA ServeElection ==
  ASSUME TypeInv, ElectionInv, NEW t \in Thread, Serve(t)
  PROVE  ElectionInv'
<1> DEFINE m == req[t]
<1>1. m \in Request /\ Handle(m)
  BY RequestInFlight DEF Serve
<1>2. VoteOK(th[t], m, resp[t], ballots, elected)
  BY DEF ElectionInv, VotesCounted
<1>3. /\ NodeInv' /\ ballots \subseteq ballots' /\ elected' = elected
      /\ m.type = "RequestVote" /\ Answer(m).ok => Ballot(m.term, m.to, m.from) \in ballots'
  BY <1>1, <1>2, HandleElection DEF ElectionInv, VoteOK
<1>4. VoteOK(th[t], m, Answer(m), ballots', elected')
  BY <1>2, <1>3 DEF VoteOK
<1>5. /\ th' = [th EXCEPT ![t] = th[t]] /\ req' = [req EXCEPT ![t] = req[t]]
      /\ resp' = [resp EXCEPT ![t] = Answer(m)] /\ late' = late
  BY DEF Serve, TypeInv, TypeOK
<1>6. VotesCounted'
  BY <1>3, <1>4, <1>5, OneCallVotes, Zenon DEF ElectionInv
<1> QED BY <1>3, <1>6 DEF ElectionInv

\* ServeLate.
LEMMA ServeLateElection ==
  ASSUME TypeInv, ElectionInv, NEW m \in late, ServeLate(m)
  PROVE  ElectionInv'
<1>1. m \in Request /\ Handle(m) /\ (m.type = "AppendEntries" => Win(m.term, m.from) \in elected)
  BY DEF TypeInv, TypeOK, ServeLate, ElectionInv, VotesCounted
<1>2. NodeInv' /\ ballots \subseteq ballots' /\ elected' = elected
  BY <1>1, HandleElection DEF ElectionInv
<1>3. th' = th /\ req' = req /\ resp' = resp /\ late' \subseteq late
  BY DEF ServeLate, callVars
<1>4. VotesCounted'
  BY <1>2, <1>3, VoteOKMonotone DEF ElectionInv, VotesCounted
<1> QED BY <1>2, <1>4 DEF ElectionInv

\* RpcFails.
LEMMA RpcFailsElection ==
  ASSUME TypeInv, ElectionInv, NEW t \in Thread, RpcFails(t)
  PROVE  ElectionInv'
<1>1. /\ th[t].pc \in Loops /\ Advance(t, th[t].got) /\ late' \subseteq late \cup {req[t]}
      /\ UNCHANGED <<nodeVars, ballots, elected>>
  BY DEF RpcFails, Waiting
<1>2. th[t].got \in SUBSET Server
  BY Zenon DEF TypeInv, TypeOK, Locals
<1>3. th[t].pc = "elect" => \A v \in th[t].got : Ballot(th[t].term, v, th[t].node) \in ballots
  BY DEF ElectionInv, VotesCounted, VoteOK
<1>4. VotesCounted'
  BY <1>1, <1>2, <1>3, AdvanceVotes DEF ElectionInv
<1>5. NodeInv'
  BY <1>1, QuietStep DEF ElectionInv, nodeVars
<1> QED BY <1>4, <1>5 DEF ElectionInv

\* StartElection.
LEMMA StartElectionElection ==
  ASSUME TypeInv, ElectionInv, NEW i \in Server, StartElection(i)
  PROVE  ElectionInv'
<1> DEFINE t == currentTerm[i] + 1
           l0 == [Idle(i) EXCEPT !.pc = "elect", !.term = t]
           l == Moved(l0, {i})
           q == IF l.pc = "elect"
                THEN RequestVote(i, l.peer, t, LastIndex(log[i]), LastTerm(log[i])) ELSE None
<1>1. i \in Thread /\ i \in 0..N /\ 0 \in 0..N /\ currentTerm[i] \in Nat
  BY ServerFacts DEF TypeInv, TypeOK
<1>2. t \in Nat /\ t > currentTerm[i]
  BY <1>1
<1>3. l0 \in Locals /\ l0.node = i /\ l0.pc = "elect" /\ l0.term = t
  BY <1>1, <1>2, Zenon DEF Idle, Locals
<1>4. /\ th' = [th EXCEPT ![i] = l] /\ req' = [req EXCEPT ![i] = q]
      /\ resp' = [resp EXCEPT ![i] = None] /\ late' = late
      /\ currentTerm' = [currentTerm EXCEPT ![i] = t] /\ votedFor' = [votedFor EXCEPT ![i] = i]
      /\ state' = [state EXCEPT ![i] = "candidate"] /\ leaderId' = [leaderId EXCEPT ![i] = 0]
      /\ ballots' = ballots \cup {Ballot(t, i, i)} /\ elected' = elected
  BY DEF StartElection, Call, Ballot
<1> HIDE DEF l0, t
<1>5. /\ l.node = i
      /\ l.pc \in {"elect", "count"} => l.term = t /\ l.got = {i}
  BY <1>3, MovedType DEF Loops
<1>6. q.type # "AppendEntries"
  BY DEF RequestVote, None
<1> HIDE DEF l, q
<1>7. VoteOK(l, q, None, ballots', elected')
  BY <1>4, <1>5, <1>6 DEF VoteOK, None
<1>8. VotesCounted'
  BY <1>1, <1>4, <1>7, OneCallVotes, Zenon DEF ElectionInv
<1>9. NodeInv'
  BY <1>1, <1>2, <1>4, TermStep, Zenon DEF ElectionInv
<1> QED BY <1>8, <1>9 DEF ElectionInv

\* VoteReplied.
LEMMA VoteRepliedElection ==
  ASSUME TypeInv, ElectionInv, NEW i \in Server, VoteReplied(i)
  PROVE  ElectionInv'
<1>1. i \in Thread /\ th[i].pc = "elect" /\ resp[i].type = "reply"
  BY ServerFacts DEF VoteReplied, Answered, Waiting
<1>2. /\ th[i] \in Locals /\ resp[i] \in Response /\ CallOK(i, th[i], req[i], resp[i])
      /\ VoteOK(th[i], req[i], resp[i], ballots, elected)
  BY <1>1, Zenon DEF TypeInv, TypeOK, CallsWellFormed, ElectionInv, VotesCounted
<1>3. /\ resp[i].term \in Nat /\ th[i].got \in SUBSET Server /\ th[i].peer \in Server
      /\ req[i].type = "RequestVote" /\ req[i].term = th[i].term
      /\ req[i].from = th[i].node /\ req[i].to = th[i].peer
  <2>1. resp[i].term \in Nat
    BY <1>1, <1>2, ReplyType
  <2>2. th[i].got \in SUBSET Server
    BY <1>2, Zenon DEF Locals
  <2> QED BY <1>1, <1>2, <2>1, <2>2, Zenon DEF CallOK, Loops
<1>4. late' = late /\ UNCHANGED <<ballots, elected>>
  BY DEF VoteReplied
<1>5. VotesCounted'
  <2>1. CASE Return(i, "idle")
    BY <1>1, <1>4, <2>1, ReturnVotes DEF ElectionInv
  <2> DEFINE got == IF resp[i].ok THEN th[i].got \cup {th[i].peer} ELSE th[i].got
  <2>2. CASE Advance(i, got)
    <3>1. got \in SUBSET Server
      BY <1>3
    <3>2. \A v \in got : Ballot(th[i].term, v, th[i].node) \in ballots
      BY <1>1, <1>2, <1>3 DEF VoteOK
    <3>3. th[i].pc \in Loops
      BY <1>1 DEF Loops
    <3> HIDE DEF got
    <3> QED BY <1>1, <1>4, <2>2, <3>1, <3>2, <3>3, AdvanceVotes DEF ElectionInv
  <2> QED BY <2>1, <2>2 DEF VoteReplied
<1>6. NodeInv'
  <2>1. CASE UNCHANGED <<nodeVars, lastAck>>
    BY <1>4, <2>1, QuietStep DEF ElectionInv, nodeVars
  <2>2. CASE resp[i].term > currentTerm[i] /\ BecomeFollower(i, resp[i].term, 0, 0)
    BY <1>3, <1>4, <2>2, StepDownNode DEF ElectionInv
  <2> QED BY <2>1, <2>2 DEF VoteReplied
<1> QED BY <1>5, <1>6 DEF ElectionInv

\* CountVotes.
LEMMA CountVotesElection ==
  ASSUME TypeInv, ElectionInv, NEW i \in Server, CountVotes(i)
  PROVE  ElectionInv'
<1>1. i \in Thread /\ th[i].pc = "count" /\ Return(i, "idle") /\ late' = late /\ ballots' = ballots
  BY ServerFacts DEF CountVotes
<1>2. /\ th[i] \in Locals /\ CallOK(i, th[i], req[i], resp[i])
      /\ VoteOK(th[i], req[i], resp[i], ballots, elected)
  BY <1>1 DEF TypeInv, TypeOK, CallsWellFormed, ElectionInv, VotesCounted
<1>3. NodeInv' /\ elected \subseteq elected'
  <2>1. CASE UNCHANGED <<nodeVars, leaderVars, lastAck, elected>>
    BY <1>1, <2>1, QuietStep DEF ElectionInv, nodeVars
  <2>2. CASE /\ currentTerm[i] = th[i].term /\ Cardinality(th[i].got) >= Majority
             /\ BecomeLeader(i)
    <3>1. th[i].got \in SUBSET Server
      BY <1>2, Zenon DEF Locals
    <3>2. \A v \in th[i].got : Ballot(currentTerm[i], v, i) \in ballots
      BY <1>1, <1>2, <2>2 DEF VoteOK, CallOK
    <3>3. NodeInv'
      BY <1>1, <2>2, <3>1, <3>2, BecomeLeaderNode DEF ElectionInv
    <3> QED BY <2>2, <3>3 DEF BecomeLeader
  <2> QED BY <2>1, <2>2, Zenon DEF CountVotes
<1>4. VotesCounted'
  BY <1>1, <1>3, ReturnVotes DEF ElectionInv
<1> QED BY <1>3, <1>4 DEF ElectionInv

\* A leader's own AppendEntries request names an elected leader.
LEMMA SendVotes ==
  ASSUME TypeInv, ElectionInv, NEW t \in Thread, NEW i \in Server, NEW l, NEW q,
         state[i] = "leader", q.type = "AppendEntries", q.term = currentTerm[i], q.from = i,
         l.pc \notin {"elect", "count"},
         th' = [th EXCEPT ![t] = l], Call(t, q), late' = late, UNCHANGED <<ballots, elected>>
  PROVE  VotesCounted'
<1>1. Win(currentTerm[i], i) \in elected
  BY DEF ElectionInv, NodeInv, LeadersElected
<1>2. VoteOK(l, q, None, ballots', elected')
  BY <1>1 DEF VoteOK, None
<1> QED BY <1>2, OneCallVotes, Zenon DEF ElectionInv, Call

\* Heartbeat.
LEMMA HeartbeatElection ==
  ASSUME TypeInv, ElectionInv, NEW i \in Server, Heartbeat(i)
  PROVE  ElectionInv'
<1> DEFINE l == Moved([Idle(i) EXCEPT !.pc = "beat"], {})
           q == Snapshot(i, l.peer)
<1>1. /\ i \in Thread /\ state[i] = "leader" /\ l.pc = "beat" /\ th' = [th EXCEPT ![i] = l]
      /\ Call(i, q) /\ late' = late /\ UNCHANGED <<nodeVars, ballots, elected>>
  BY ServerFacts DEF Heartbeat
<1> HIDE DEF l
<1>2. q.type = "AppendEntries" /\ q.term = currentTerm[i] /\ q.from = i
  BY DEF Snapshot, AppendEntries
<1> HIDE DEF q
<1>3. VotesCounted'
  BY <1>1, <1>2, SendVotes, Zenon
<1>4. NodeInv'
  BY <1>1, QuietStep DEF ElectionInv, nodeVars
<1> QED BY <1>3, <1>4 DEF ElectionInv

\* SendToNextPeer.
LEMMA SendToNextPeerElection ==
  ASSUME TypeInv, ElectionInv, NEW t \in Thread, SendToNextPeer(t)
  PROVE  ElectionInv'
<1> DEFINE i == th[t].node
           q == Snapshot(i, th[t].peer)
<1>1. /\ th[t].pc \in {"beat", "propose"} /\ late' = late
      /\ UNCHANGED <<nodeVars, ballots, elected>> /\ {} \in SUBSET Server
  BY DEF SendToNextPeer
<1>2. i \in Server /\ th \in [Thread -> Locals]
  BY <1>1, Zenon DEF TypeInv, TypeOK, CallsWellFormed, CallOK
<1>3. CASE state[i] = "leader" /\ Call(t, q) /\ UNCHANGED th
  <2>1. q.type = "AppendEntries" /\ q.term = currentTerm[i] /\ q.from = i
    BY Zenon DEF Snapshot, AppendEntries
  <2>2. th' = [th EXCEPT ![t] = th[t]]
    BY <1>2, <1>3
  <2> HIDE DEF q
  <2>3. VotesCounted'
    BY <1>1, <1>2, <1>3, <2>1, <2>2, SendVotes, Zenon
  <2>4. NodeInv'
    BY <1>1, QuietStep DEF ElectionInv, nodeVars
  <2> QED BY <2>3, <2>4 DEF ElectionInv
<1>4. CASE Advance(t, {})
  <2>1. VotesCounted'
    BY <1>1, <1>4, AdvanceVotes DEF ElectionInv, Loops
  <2>2. NodeInv'
    BY <1>1, QuietStep DEF ElectionInv, nodeVars
  <2> QED BY <2>1, <2>2 DEF ElectionInv
<1> QED BY <1>3, <1>4 DEF SendToNextPeer

\* ReplicateReplied.
LEMMA ReplicateRepliedElection ==
  ASSUME TypeInv, ElectionInv, NEW t \in Thread, ReplicateReplied(t)
  PROVE  ElectionInv'
<1> DEFINE i == th[t].node
<1>1. /\ th[t].pc \in {"beat", "propose"} /\ resp[t].type = "reply" /\ late' = late
      /\ Advance(t, {}) /\ UNCHANGED <<ballots, elected>> /\ {} \in SUBSET Server
  BY Zenon DEF ReplicateReplied, Answered, Waiting
<1>2. i \in Server /\ resp[t] \in Response /\ resp[t].term \in Nat
  <2>1. i \in Server /\ resp[t] \in Response
    BY <1>1, Zenon DEF TypeInv, TypeOK, CallsWellFormed, CallOK
  <2> QED BY <1>1, <2>1, ReplyType
<1>3. VotesCounted'
  BY <1>1, AdvanceVotes DEF ElectionInv, Loops
<1>4. NodeInv'
  <2>1. CASE UNCHANGED nodeVars
    BY <1>1, <2>1, QuietStep DEF ElectionInv, nodeVars
  <2>2. CASE resp[t].term > currentTerm[i] /\ BecomeFollower(i, resp[t].term, 0, 0)
    BY <1>1, <1>2, <2>2, StepDownNode DEF ElectionInv
  <2> QED BY <2>1, <2>2, Zenon DEF ReplicateReplied
<1> QED BY <1>3, <1>4 DEF ElectionInv

\* A client's thread outside any call.
LEMMA LocalStepVotes ==
  ASSUME TypeInv, ElectionInv, NEW t \in Thread, NEW l, th[t].pc \notin Loops,
         l.pc \notin {"elect", "count"}, th' = [th EXCEPT ![t] = l],
         UNCHANGED <<nodeVars, req, resp, late, ballots, elected>>
  PROVE  ElectionInv'
<1>1. req[t].type = "none"
  BY NoCall
<1>2. VoteOK(l, req[t], resp[t], ballots', elected')
  BY <1>1 DEF VoteOK
<1>3. req' = [req EXCEPT ![t] = req[t]] /\ resp' = [resp EXCEPT ![t] = resp[t]]
  BY DEF TypeInv, TypeOK
<1>4. VotesCounted'
  BY <1>2, <1>3, OneCallVotes, Zenon DEF ElectionInv
<1>5. NodeInv'
  BY QuietStep DEF ElectionInv, nodeVars
<1> QED BY <1>4, <1>5 DEF ElectionInv

\* Propose, ProposeReturns, StartRead and ServeRead.
LEMMA ClientElection ==
  ASSUME TypeInv, ElectionInv, NEW c \in Proposals \cup Reads, NEW i \in Server,
         \/ c \in Proposals /\ (Propose(c, i) \/ ProposeReturns(c))
         \/ c \in Reads /\ (StartRead(c, i) \/ ServeRead(c))
  PROVE  ElectionInv'
<1>1. /\ c \in Thread /\ i \in 0..N /\ 0 \in 0..N
      /\ currentTerm[i] \in Nat /\ LastIndex(log[i]) \in Nat /\ th[c] \in Locals
  BY ServerFacts, TermType, Zenon DEF Thread, TypeInv, TypeOK
<1>2. UNCHANGED <<nodeVars, req, resp, late, ballots, elected>> /\ th[c].pc \notin Loops
  BY Zenon DEF Propose, ProposeReturns, StartRead, ServeRead, Loops
<1>3. ASSUME NEW l0 \in Locals, l0.pc \in {"propose", "confirm"}, l0.node = i,
             NEW got \in SUBSET Server
      PROVE  Moved(l0, got).pc \notin {"elect", "count"}
  BY <1>3, MovedType, Zenon DEF Loops
<1>4. PICK l : th' = [th EXCEPT ![c] = l] /\ l.pc \notin {"elect", "count"}
  <2>1. CASE Propose(c, i)
    <3> DEFINE l1 == [Idle(i) EXCEPT !.pc = "propose", !.term = currentTerm[i]]
               l0 == [l1 EXCEPT !.index = LastIndex(log[i]) + 1]
    <3>1. l1 \in Locals /\ l1.node = i /\ l1.pc = "propose"
      BY <1>1, Zenon DEF Idle, Locals
    <3>2. th' = [th EXCEPT ![c] = Moved(l0, {})]
      BY <2>1 DEF Propose
    <3> HIDE DEF l1
    <3>3. LastIndex(log[i]) + 1 \in Nat
      BY <1>1
    <3>4. ASSUME NEW n \in Nat
          PROVE  LET m == [l1 EXCEPT !.index = n]
                 IN m \in Locals /\ m.node = i /\ m.pc = "propose"
      BY <3>1, Zenon DEF Locals
    <3>5. l0 \in Locals /\ l0.node = i /\ l0.pc = "propose"
      BY <3>3, <3>4
    <3> HIDE DEF l0
    <3> QED BY <1>3, <3>2, <3>5, Zenon
  <2>2. CASE ProposeReturns(c)
    <3> DEFINE l == [th[c] EXCEPT !.pc = IF ProposalApplied(c) THEN "ok" ELSE "failed"]
    <3>1. l.pc \in {"ok", "failed"} /\ th' = [th EXCEPT ![c] = l]
      BY <1>1, <2>2, Zenon DEF ProposeReturns, Locals
    <3> QED BY <3>1, Zenon
  <2>3. CASE StartRead(c, i)
    <3> DEFINE l0 == [Idle(i) EXCEPT !.pc = "confirm", !.term = currentTerm[i]]
    <3>1. l0 \in Locals /\ l0.node = i /\ l0.pc = "confirm"
      BY <1>1, Zenon DEF Idle, Locals
    <3>2. \/ th' = [th EXCEPT ![c] = [l0 EXCEPT !.pc = "lease"]]
          \/ th' = [th EXCEPT ![c] = Moved(l0, {i})]
      BY <2>3, Zenon DEF StartRead
    <3> HIDE DEF l0
    <3>3. [l0 EXCEPT !.pc = "lease"].pc = "lease"
      BY <3>1, Zenon DEF Locals
    <3>4. Moved(l0, {i}).pc \notin {"elect", "count"}
      BY <1>3, <3>1
    <3> QED BY <3>2, <3>3, <3>4, Zenon
  <2>4. CASE ServeRead(c)
    <3> DEFINE l == [th[c] EXCEPT !.pc = IF @ = "serve" THEN "ok" ELSE "lease ok"]
    <3>1. l.pc \in {"ok", "lease ok"} /\ th' = [th EXCEPT ![c] = l]
      BY <1>1, <2>4, Zenon DEF ServeRead, Locals
    <3> QED BY <3>1, Zenon
  <2> QED BY <2>1, <2>2, <2>3, <2>4
<1> QED BY <1>1, <1>2, <1>4, LocalStepVotes, Zenon

\* ConfirmSend.
LEMMA ConfirmSendElection ==
  ASSUME TypeInv, ElectionInv, NEW r \in Reads, ConfirmSend(r)
  PROVE  ElectionInv'
<1> DEFINE i == th[r].node
           q == AppendEntries(i, th[r].peer, nextIndex[i][th[r].peer] - 1, <<>>)
<1>1. /\ r \in Thread /\ th[r].pc = "confirm" /\ late' = late
      /\ UNCHANGED <<nodeVars, ballots, elected>>
  BY DEF ConfirmSend, Thread
<1>2. i \in Server /\ th \in [Thread -> Locals]
  BY <1>1, Zenon DEF TypeInv, TypeOK, CallsWellFormed, CallOK
<1>3. VotesCounted'
  <2>1. CASE state[i] = "leader" /\ Call(r, q) /\ UNCHANGED th
    <3>1. q.type = "AppendEntries" /\ q.term = currentTerm[i] /\ q.from = i
      BY DEF AppendEntries
    <3>2. th' = [th EXCEPT ![r] = th[r]]
      BY <1>2, <2>1
    <3> HIDE DEF q
    <3> QED BY <1>1, <1>2, <2>1, <3>1, <3>2, SendVotes, Zenon
  <2>2. CASE Return(r, "failed")
    BY <1>1, <2>2, ReturnVotes DEF ElectionInv
  <2> QED BY <2>1, <2>2, Zenon DEF ConfirmSend
<1>4. NodeInv'
  BY <1>1, QuietStep DEF ElectionInv, nodeVars
<1> QED BY <1>3, <1>4 DEF ElectionInv

\* ConfirmReplied.
LEMMA ConfirmRepliedElection ==
  ASSUME TypeInv, ElectionInv, NEW r \in Reads, ConfirmReplied(r)
  PROVE  ElectionInv'
<1> DEFINE i == th[r].node
           got == IF resp[r].ok THEN th[r].got \cup {th[r].peer} ELSE th[r].got
<1>1. /\ r \in Thread /\ th[r].pc = "confirm" /\ resp[r].type = "reply" /\ late' = late
      /\ UNCHANGED <<ballots, elected>>
  BY Zenon DEF ConfirmReplied, Answered, Waiting, Thread
<1>2. /\ i \in Server /\ th[r] \in Locals /\ th[r].peer \in Server
      /\ resp[r] \in Response /\ resp[r].term \in Nat
  <2>1. i \in Server /\ th[r].peer \in Server /\ th[r] \in Locals /\ resp[r] \in Response
    BY <1>1, Zenon DEF TypeInv, TypeOK, CallsWellFormed, CallOK, Loops
  <2> QED BY <1>1, <2>1, ReplyType
<1>3. VotesCounted'
  <2>1. CASE Return(r, "failed")
    BY <1>1, <2>1, ReturnVotes, Zenon DEF ElectionInv
  <2>2. CASE Advance(r, got)
    <3>1. got \in SUBSET Server
      BY <1>2, Zenon DEF Locals
    <3> HIDE DEF got
    <3> QED BY <1>1, <2>2, <3>1, AdvanceVotes DEF ElectionInv, Loops
  <2> QED BY <2>1, <2>2, Zenon DEF ConfirmReplied
<1>4. NodeInv'
  <2>1. CASE UNCHANGED nodeVars
    BY <1>1, <2>1, QuietStep DEF ElectionInv, nodeVars
  <2>2. CASE resp[r].term > currentTerm[i] /\ BecomeFollower(i, resp[r].term, 0, 0)
    BY <1>1, <1>2, <2>2, StepDownNode, Zenon DEF ElectionInv
  <2> QED BY <2>1, <2>2, Zenon DEF ConfirmReplied
<1> QED BY <1>3, <1>4 DEF ElectionInv

\* Restart.
LEMMA RestartElection ==
  ASSUME TypeInv, ElectionInv, NEW i \in Server, Restart(i)
  PROVE  ElectionInv'
<1> DEFINE mine == {t \in Thread : th[t].node = i}
<1>1. /\ UNCHANGED <<currentTerm, votedFor, ballots, elected>>
      /\ state' = [state EXCEPT ![i] = "follower"] /\ leaderId' = [leaderId EXCEPT ![i] = 0]
  BY DEF Restart
<1>2. NodeInv'
  <2>1. /\ \A j \in Server : state'[j] = "leader" => state[j] = "leader"
        /\ \A j \in Server : leaderId'[j] \in {0, leaderId[j]}
    BY <1>1 DEF TypeInv, TypeOK
  <2> QED BY <1>1, <2>1, QuietStep DEF ElectionInv
<1>3. ASSUME NEW t \in Thread
      PROVE  VoteOK(th'[t], req'[t], resp'[t], ballots, elected)
  <2>1. VoteOK(th[t], req[t], resp[t], ballots, elected)
    BY DEF ElectionInv, VotesCounted
  <2>2. /\ th'[t] = CASE t = i -> Idle(i)
                      [] t \in mine \ {i} /\ th[t].pc \in {"propose", "wait", "confirm", "serve", "lease"}
                           -> [Idle(i) EXCEPT !.pc = "failed"]
                      [] OTHER -> th[t]
        /\ req'[t] = IF t \in mine THEN None ELSE req[t]
        /\ resp'[t] = CASE t \in mine -> None
                        [] t \notin mine /\ req[t].type # "none" /\ resp[t].type = "none"
                             /\ req[t].to = i -> Broken
                        [] OTHER -> resp[t]
    BY DEF Restart
  <2>3. Idle(i).pc = "idle" /\ [Idle(i) EXCEPT !.pc = "failed"].pc = "failed"
    BY DEF Idle
  <2>4. th'[t] = th[t] \/ th'[t].pc \in {"idle", "failed"}
    BY <2>2, <2>3
  <2>5. /\ req'[t] = None \/ req'[t] = req[t]
        /\ resp'[t] \in {None, Broken, resp[t]}
    BY <2>2
  <2>6. th'[t].pc \in {"elect", "count"} => th'[t] = th[t]
    BY <2>4
  <2>7. req'[t].type \in {"RequestVote", "AppendEntries"} => req'[t] = req[t]
    BY <2>5 DEF None
  <2>8. resp'[t].type = "reply" => resp'[t] = resp[t]
    BY <2>5 DEF None, Broken
  <2> HIDE DEF mine
  <2>9. th'[t].pc \in {"elect", "count"}
           => \A v \in th'[t].got : Ballot(th'[t].term, v, th'[t].node) \in ballots
    BY <2>1, <2>6, Zenon DEF VoteOK
  <2>10. req'[t].type = "RequestVote" /\ resp'[t].type = "reply" /\ resp'[t].ok
           => Ballot(req'[t].term, req'[t].to, req'[t].from) \in ballots
    BY <2>1, <2>7, <2>8 DEF VoteOK
  <2>11. req'[t].type = "AppendEntries" => Win(req'[t].term, req'[t].from) \in elected
    BY <2>1, <2>7 DEF VoteOK
  <2> QED BY <2>9, <2>10, <2>11, Zenon DEF VoteOK
<1>4. ASSUME NEW m \in late', m.type = "AppendEntries" PROVE Win(m.term, m.from) \in elected
  <2>1. m \in late \/ \E t \in Thread : m = req[t]
    BY DEF Restart
  <2> QED BY <1>4, <2>1 DEF ElectionInv, VotesCounted, VoteOK
<1>5. VotesCounted'
  BY <1>1, <1>3, <1>4 DEF VotesCounted
<1> QED BY <1>2, <1>5 DEF ElectionInv

\* The initial state: nobody has voted.
LEMMA InitElection == Init => ElectionInv
<1> SUFFICES ASSUME Init PROVE ElectionInv
  OBVIOUS
<1>1. NodeInv
  BY DEF Init, NodeInv, BallotsBehind, OneBallot, ElectedHaveQuorum, LeadersElected,
         LeaderHintElected
<1>2. ASSUME NEW t \in Thread PROVE th[t].pc = "idle" /\ req[t] = None
  BY DEF Init, Idle
<1>3. VotesCounted
  BY <1>2 DEF Init, VotesCounted, VoteOK, None
<1> QED BY <1>1, <1>3 DEF ElectionInv

\* Every step keeps the election invariant.
LEMMA NextElection == TypeInv /\ ElectionInv /\ [Next]_vars => ElectionInv'
<1> SUFFICES ASSUME TypeInv, ElectionInv, [Next]_vars PROVE ElectionInv'
  OBVIOUS
<1>1. ASSUME NEW i \in Server, StartElection(i) PROVE ElectionInv'
  BY <1>1, StartElectionElection
<1>2. ASSUME NEW i \in Server, VoteReplied(i) PROVE ElectionInv'
  BY <1>2, VoteRepliedElection
<1>3. ASSUME NEW i \in Server, CountVotes(i) PROVE ElectionInv'
  BY <1>3, CountVotesElection
<1>4. ASSUME NEW i \in Server, Heartbeat(i) PROVE ElectionInv'
  BY <1>4, HeartbeatElection
<1>5. ASSUME NEW i \in Server, Restart(i) PROVE ElectionInv'
  BY <1>5, RestartElection
<1>6. ASSUME NEW t \in Server \cup Proposals, SendToNextPeer(t) PROVE ElectionInv'
  BY <1>6, SendToNextPeerElection DEF Thread
<1>7. ASSUME NEW t \in Server \cup Proposals, ReplicateReplied(t) PROVE ElectionInv'
  BY <1>7, ReplicateRepliedElection DEF Thread
<1>8. ASSUME NEW p \in Proposals, ProposeReturns(p) PROVE ElectionInv'
  <2>1. \E i : i \in Server
    BY ServerFacts DEF Server
  <2> QED BY <1>8, <2>1, ClientElection
<1>9. ASSUME NEW p \in Proposals, NEW i \in Server, Propose(p, i) PROVE ElectionInv'
  BY <1>9, ClientElection
<1>10. ASSUME NEW r \in Reads, ConfirmSend(r) PROVE ElectionInv'
  BY <1>10, ConfirmSendElection
<1>11. ASSUME NEW r \in Reads, ConfirmReplied(r) PROVE ElectionInv'
  BY <1>11, ConfirmRepliedElection
<1>12. ASSUME NEW r \in Reads, ServeRead(r) PROVE ElectionInv'
  <2>1. \E i : i \in Server
    BY ServerFacts DEF Server
  <2> QED BY <1>12, <2>1, ClientElection
<1>13. ASSUME NEW r \in Reads, NEW i \in Server, StartRead(r, i) PROVE ElectionInv'
  BY <1>13, ClientElection
<1>14. ASSUME NEW t \in Thread, Serve(t) PROVE ElectionInv'
  BY <1>14, ServeElection
<1>15. ASSUME NEW t \in Thread, RpcFails(t) PROVE ElectionInv'
  BY <1>15, RpcFailsElection
<1>16. ASSUME NEW m \in late, ServeLate(m) PROVE ElectionInv'
  BY <1>16, ServeLateElection
<1>17. ASSUME UNCHANGED vars PROVE ElectionInv'
  BY <1>17, Zenon DEF vars, nodeVars, callVars, ElectionInv, NodeInv, BallotsBehind, OneBallot,
               ElectedHaveQuorum, LeadersElected, LeaderHintElected, VotesCounted
<1> QED BY <1>1, <1>2, <1>3, <1>4, <1>5, <1>6, <1>7, <1>8, <1>9, <1>10, <1>11, <1>12,
           <1>13, <1>14, <1>15, <1>16, <1>17 DEF Next

-----------------------------------------------------------------------------
(* Theorems.                                                               *)

\* Two majorities of the nodes share a node.
LEMMA MajoritiesIntersect ==
  ASSUME NEW P \in SUBSET Server, NEW Q \in SUBSET Server,
         Cardinality(P) >= Majority, Cardinality(Q) >= Majority
  PROVE  P \cap Q # {}
<1>1. N \in Nat /\ N >= 1
  BY ServerFacts
<1>2. IsFiniteSet(Server) /\ Cardinality(Server) = N
  BY <1>1, FS_Interval DEF Server
<1>3. Cardinality(P) \in Nat /\ Cardinality(Q) \in Nat
  BY <1>2, FS_Subset, FS_CardinalityType
<1>4. Majority \in Nat /\ Majority + Majority > N
  BY <1>1 DEF Majority
<1>5. Cardinality(P) + Cardinality(Q) > Cardinality(Server)
  BY <1>1, <1>2, <1>3, <1>4
<1> QED BY <1>2, <1>5, FS_MajoritiesIntersect

\* The election invariant implies that a term has one leader.
LEMMA OneLeader == TypeInv /\ ElectionInv => ElectionSafety
<1> SUFFICES ASSUME TypeInv, ElectionInv, NEW e \in elected, NEW f \in elected, e.term = f.term
             PROVE  e.node = f.node
  BY DEF ElectionSafety
<1>1. PICK P \in SUBSET Server : /\ Cardinality(P) >= Majority
                                 /\ \A v \in P : Ballot(e.term, v, e.node) \in ballots
  BY DEF ElectionInv, NodeInv, ElectedHaveQuorum, HasQuorum
<1>2. PICK Q \in SUBSET Server : /\ Cardinality(Q) >= Majority
                                 /\ \A v \in Q : Ballot(f.term, v, f.node) \in ballots
  BY DEF ElectionInv, NodeInv, ElectedHaveQuorum, HasQuorum
<1>3. PICK v \in P : v \in Q
  BY <1>1, <1>2, MajoritiesIntersect
<1>4. Ballot(e.term, v, e.node) \in ballots /\ Ballot(f.term, v, f.node) \in ballots
  BY <1>1, <1>2, <1>3
<1> QED BY <1>4 DEF ElectionInv, NodeInv, OneBallot, Ballot

\* At most one node ever wins the election of a term: HandleRequestVote never
\* votes twice in a term and StartElection counts only votes of its own term,
\* whatever restarts, failed or late RPCs and concurrent handlers there are.
THEOREM AtMostOneLeaderPerTerm == Spec => []ElectionSafety
<1>1. Init => TypeInv /\ ElectionInv
  BY InitType, InitElection
<1>2. TypeInv /\ ElectionInv /\ [Next]_vars => TypeInv' /\ ElectionInv'
  BY NextType, NextElection
<1> QED BY <1>1, <1>2, OneLeader, PTL DEF Spec

\* The hint a node gives a client with kWrongLeader is the node that won the
\* election of the term the node is in.
THEOREM HintNamesTheLeader == Spec => []LeaderHintElected
<1>1. Init => TypeInv /\ ElectionInv
  BY InitType, InitElection
<1>2. TypeInv /\ ElectionInv /\ [Next]_vars => TypeInv' /\ ElectionInv'
  BY NextType, NextElection
<1>3. ElectionInv => LeaderHintElected
  BY DEF ElectionInv, NodeInv
<1> QED BY <1>1, <1>2, <1>3, PTL DEF Spec

\* What LeaderAppendOnly asks of a step.
LeadersAppend ==
  \A i \in Server : state[i] = "leader" /\ state'[i] = "leader" =>
    SubSeq(log'[i], 1, Len(log[i])) = log[i]

\* An unchanged log, and a log with one more entry.
LEMMA OldPrefix ==
  ASSUME NEW lg \in Seq(Entry)
  PROVE  /\ SubSeq(lg, 1, Len(lg)) = lg
         /\ \A e \in Entry : SubSeq(Append(lg, e), 1, Len(lg)) = lg
<1>1. SubSeq(lg, 1, Len(lg)) = lg
  BY SubSeqFull
<1>2. ASSUME NEW e \in Entry PROVE SubSeq(Append(lg, e), 1, Len(lg)) = lg
  <2>1. lg \o <<e>> = Append(lg, e)
    BY AppendIsConcat
  <2>2. <<e>> \in Seq(Entry)
    OBVIOUS
  <2>3. SubSeq(lg \o <<e>>, 1, Len(lg)) = SubSeq(lg, 1, Len(lg))
    BY <2>2, SubSeqOfConcat1
  <2> QED BY <1>1, <2>1, <2>3
<1> QED BY <1>1, <1>2

\* A handler that runs its entry loop is not on a leader: the leader of the
\* term would have to be the sender too, and nobody sends to itself.
LEMMA HandleAppends ==
  ASSUME TypeInv, ElectionInv, NEW m \in Request, Handle(m), m.from # m.to,
         m.type = "AppendEntries" => Win(m.term, m.from) \in elected
  PROVE  LeadersAppend
<1> SUFFICES ASSUME NEW i \in Server, state[i] = "leader", state'[i] = "leader"
             PROVE  SubSeq(log'[i], 1, Len(log[i])) = log[i]
  BY DEF LeadersAppend
<1> DEFINE j == m.to
<1>1. j \in Server /\ m.from \in Server
  BY DEF Request
<1>2. log \in [Server -> Seq(Entry)] /\ state \in [Server -> {"follower", "candidate", "leader"}]
  BY Zenon DEF TypeInv, TypeOK
<1>3. log'[i] = log[i]
  <2>1. CASE m.type = "RequestVote" /\ HandleRequestVote(m)
    BY <2>1 DEF HandleRequestVote, logVars
  <2>2. CASE m.type = "AppendEntries" /\ HandleAppendEntries(m)
    <3>1. CASE UNCHANGED <<nodeVars, lastAck, logVars>>
      BY <3>1 DEF logVars
    <3>2. CASE i # j
      <4>1. log' = log \/ \E lg : log' = [log EXCEPT ![j] = lg]
        BY <2>2, Zenon DEF HandleAppendEntries, StoreEntries, logVars
      <4> QED BY <1>2, <3>2, <4>1
    <3>3. CASE i = j /\ BecomeFollower(j, m.term, 0, m.from)
      BY <1>1, <1>2, <3>3, Zenon DEF BecomeFollower
    <3>4. CASE i = j /\ m.term = currentTerm[j]
      <4>1. Win(m.term, m.from) \in elected /\ Win(m.term, j) \in elected
        BY <1>1, <2>2, <3>4 DEF ElectionInv, NodeInv, LeadersElected
      <4>2. ElectionSafety
        BY OneLeader
      <4>3. m.from = j
        BY <4>1, <4>2 DEF ElectionSafety, Win
      <4> QED BY <4>3, Zenon
    <3> QED BY <2>2, <3>1, <3>2, <3>3, <3>4, Zenon DEF HandleAppendEntries
  <2> QED BY <2>1, <2>2 DEF Handle
<1> QED BY <1>2, <1>3, OldPrefix

\* Every step lets leaders only append.
LEMMA NextAppends == TypeInv /\ ElectionInv /\ [Next]_vars => LeadersAppend
<1> SUFFICES ASSUME TypeInv, ElectionInv, [Next]_vars PROVE LeadersAppend
  OBVIOUS
<1>1. log \in [Server -> Seq(Entry)] /\ currentTerm \in [Server -> Nat]
  BY DEF TypeInv, TypeOK
<1>2. CASE log' = log
  BY <1>1, <1>2, OldPrefix DEF LeadersAppend
<1>3. ASSUME NEW p \in Proposals, NEW i \in Server, Propose(p, i) PROVE LeadersAppend
  <2>1. [term |-> currentTerm[i], val |-> p] \in Entry
    BY <1>1 DEF Entry
  <2>2. log' = [log EXCEPT ![i] = Append(log[i], [term |-> currentTerm[i], val |-> p])]
    BY <1>3 DEF Propose
  <2> QED BY <1>1, <2>1, <2>2, OldPrefix DEF LeadersAppend
<1>4. ASSUME NEW t \in Thread, Serve(t) PROVE LeadersAppend
  <2>1. req[t] \in Request /\ req[t].from # req[t].to /\ Handle(req[t])
    BY <1>4, RequestInFlight DEF Serve
  <2>2. req[t].type = "AppendEntries" => Win(req[t].term, req[t].from) \in elected
    BY DEF ElectionInv, VotesCounted, VoteOK
  <2> QED BY <2>1, <2>2, HandleAppends
<1>5. ASSUME NEW m \in late, ServeLate(m) PROVE LeadersAppend
  <2>1. m \in Request /\ m.from # m.to /\ Handle(m)
    BY <1>5, Zenon DEF ServeLate, TypeInv, TypeOK, CallsWellFormed
  <2>2. m.type = "AppendEntries" => Win(m.term, m.from) \in elected
    BY DEF ElectionInv, VotesCounted
  <2> QED BY <2>1, <2>2, HandleAppends
<1>6. ASSUME NEW i \in Server,
             StartElection(i) \/ VoteReplied(i) \/ CountVotes(i) \/ Heartbeat(i) \/ Restart(i)
      PROVE  log' = log
  BY <1>6 DEF StartElection, VoteReplied, CountVotes, Heartbeat, Restart, logVars
<1>7. ASSUME NEW t \in Thread, SendToNextPeer(t) \/ ReplicateReplied(t) \/ RpcFails(t)
      PROVE  log' = log
  BY <1>7, Zenon DEF SendToNextPeer, ReplicateReplied, RpcFails, logVars
<1>8. ASSUME NEW r \in Reads, NEW i \in Server,
             ConfirmSend(r) \/ ConfirmReplied(r) \/ ServeRead(r) \/ StartRead(r, i)
      PROVE  log' = log
  BY <1>8, Zenon DEF ConfirmSend, ConfirmReplied, ServeRead, StartRead, logVars
<1>9. ASSUME NEW p \in Proposals, ProposeReturns(p) PROVE log' = log
  BY <1>9 DEF ProposeReturns, logVars
<1>10. CASE UNCHANGED vars
  BY <1>2, <1>10 DEF vars, logVars
<1>11. \E i : i \in Server
  BY ServerFacts DEF Server
<1>12. CASE Next
  BY <1>2, <1>3, <1>4, <1>5, <1>6, <1>7, <1>8, <1>9, <1>11, <1>12 DEF Next, Thread
<1> QED BY <1>10, <1>12

\* A leader only ever extends its own log: HandleAppendEntries, the only code
\* that truncates, never runs its entry loop against a leader of its own term.
THEOREM LeadersOnlyAppend == Spec => LeaderAppendOnly
<1>1. Init => TypeInv /\ ElectionInv
  BY InitType, InitElection
<1>2. TypeInv /\ ElectionInv /\ [Next]_vars => TypeInv' /\ ElectionInv'
  BY NextType, NextElection
<1>3. TypeInv /\ ElectionInv /\ [Next]_vars => [LeadersAppend]_vars
  BY NextAppends
<1>4. [][LeadersAppend]_vars => LeaderAppendOnly
  BY DEF LeadersAppend, LeaderAppendOnly
<1> QED BY <1>1, <1>2, <1>3, <1>4, PTL DEF Spec
=============================================================================

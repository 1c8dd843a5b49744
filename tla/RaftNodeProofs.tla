--------------------------- MODULE RaftNodeProofs ---------------------------
(***************************************************************************)
(* Theorems about RaftNode, for any number of nodes, client operations and *)
(* bounds: type correctness, and that a term has at most one leader.       *)
(***************************************************************************)
EXTENDS RaftNode, FiniteSetTheorems, SequenceTheorems, WellFoundedInduction, TLAPS

-----------------------------------------------------------------------------
(* Arithmetic, sets and sequences.                                         *)

\* A non-empty set of naturals has a least element.
LEMMA NatMin ==
  ASSUME NEW T, T \subseteq Nat, T # {}
  PROVE  \E x \in T : \A y \in T : x <= y
<1> DEFINE R == OpToRel(<, Nat)
<1>1. IsWellFoundedOn(R, Nat)
  BY NatLessThanWellFounded, Zenon
<1>2. \E x \in T : \A y \in T : ~ (<<y, x>> \in R)
  <2> HIDE DEF R
  <2> QED BY <1>1, WFMin, Zenon
<1>3. \A x, y \in Nat : ~ (<<y, x>> \in R) => x <= y
  BY DEF OpToRel
<1> QED BY <1>2, <1>3, Zenon

\* What the operator Min returns on a non-empty set of naturals.
LEMMA MinType ==
  ASSUME NEW T, T \subseteq Nat, T # {}
  PROVE  Min(T) \in T /\ \A y \in T : Min(T) <= y
BY NatMin, Zenon DEF Min

\* Max and Min of two naturals, as ApplyCommitted and the replies use them.
LEMMA MaxOfTwo ==
  ASSUME NEW a \in Nat, NEW b \in Nat
  PROVE  Max({a, b}) = IF a >= b THEN a ELSE b
<1>1. \E x \in {a, b} : \A y \in {a, b} : x >= y
  OBVIOUS
<1> QED BY <1>1 DEF Max
LEMMA MinOfTwo ==
  ASSUME NEW a \in Nat, NEW b \in Nat
  PROVE  Min({a, b}) = IF a <= b THEN a ELSE b
<1>1. \E x \in {a, b} : \A y \in {a, b} : x <= y
  OBVIOUS
<1> QED BY <1>1 DEF Min

\* The terms a log is asked for.
LEMMA TermType ==
  ASSUME NEW lg \in Seq(Entry)
  PROVE  /\ \A k \in Nat : TermAt(lg, k) \in Nat
         /\ LastTerm(lg) \in Nat /\ LastIndex(lg) \in Nat
<1>1. \A k \in 1..Len(lg) : lg[k] \in Entry
  OBVIOUS
<1>2. \A k \in 1..Len(lg) : lg[k].term \in Nat
  BY <1>1 DEF Entry
<1>3. Len(lg) \in Nat /\ (lg # <<>> => Len(lg) \in 1..Len(lg))
  OBVIOUS
<1> QED BY <1>2, <1>3 DEF TermAt, LastTerm, LastIndex

\* The entry loop of HandleAppendEntries leaves a sequence of entries behind.
LEMMA MergeType ==
  ASSUME NEW lg \in Seq(Entry), NEW es \in Seq(Entry), NEW prev \in Nat, prev <= Len(lg)
  PROVE  Merge(lg, prev, es) \in Seq(Entry)
<1> DEFINE D == {k \in 1..Len(es) : \/ prev + k > Len(lg)
                                    \/ lg[prev + k].term # es[k].term}
<1>1. CASE D = {}
  BY <1>1 DEF Merge
<1>2. CASE D # {}
  <2> DEFINE m == Min(D)
  <2>1. D \subseteq Nat
    OBVIOUS
  <2>2. m \in D /\ \A k \in D : m <= k
    BY <1>2, <2>1, MinType, Zenon
  <2>3. m \in 1..Len(es)
    BY <2>2
  <2>4. prev + m - 1 <= Len(lg)
    <3>1. CASE m = 1
      BY <3>1
    <3>2. CASE m # 1
      <4>1. m - 1 \in 1..Len(es) /\ ~(m <= m - 1)
        BY <2>3, <3>2
      <4>2. m - 1 \notin D
        BY <2>2, <4>1
      <4> QED BY <4>1, <4>2
    <3> QED BY <3>1, <3>2
  <2> HIDE DEF m
  <2>5. SubSeq(lg, 1, prev + m - 1) \in Seq(Entry)
    BY <2>3, <2>4
  <2>6. SubSeq(es, m, Len(es)) \in Seq(Entry)
    BY <2>3
  <2>7. SubSeq(lg, 1, prev + m - 1) \o SubSeq(es, m, Len(es)) \in Seq(Entry)
    BY <2>5, <2>6
  <2> QED BY <1>2, <2>7 DEF m, Merge
<1> QED BY <1>1, <1>2

\* What is applied stays a sequence of writes.
LEMMA ApplyType ==
  ASSUME NEW done \in Seq(Proposals), NEW lg \in Seq(Entry), NEW c \in Nat
  PROVE  ApplyCommitted(done, lg, c) \in Seq(Proposals)
<1> DEFINE n == Max({Min({c, Len(lg)}), Len(done)}) - Len(done)
           more == [k \in 1..n |-> lg[Len(done) + k].val]
<1>1. Len(lg) \in Nat /\ Len(done) \in Nat
  OBVIOUS
<1>2. Min({c, Len(lg)}) \in Nat /\ Min({c, Len(lg)}) <= Len(lg)
  BY <1>1, MinOfTwo
<1>3. n \in Nat /\ (n = 0 \/ Len(done) + n <= Len(lg))
  <2> DEFINE m == Min({c, Len(lg)})
             d == Len(done)
  <2>1. m \in Nat /\ m <= Len(lg) /\ d \in Nat
    BY <1>1, <1>2
  <2> HIDE DEF m, d
  <2>2. Max({m, d}) = IF m >= d THEN m ELSE d
    BY <2>1, MaxOfTwo
  <2>3. Max({m, d}) - d \in Nat /\ (Max({m, d}) - d = 0 \/ d + (Max({m, d}) - d) <= Len(lg))
    BY <1>1, <2>1, <2>2
  <2> QED BY <2>3 DEF m, d
<1> HIDE DEF n
<1>4. ASSUME NEW k \in 1..n PROVE lg[Len(done) + k].val \in Proposals
  <2>1. Len(done) + k \in 1..Len(lg)
    BY <1>1, <1>3
  <2>2. lg[Len(done) + k] \in Entry
    BY <2>1
  <2> QED BY <2>2 DEF Entry
<1>5. more \in [1..n -> Proposals]
  BY <1>4
<1>6. more \in Seq(Proposals)
  <2> HIDE DEF more
  <2> QED BY <1>3, <1>5, SeqDef
<1>7. done \o more \in Seq(Proposals)
  BY <1>6
<1> QED BY <1>7 DEF ApplyCommitted, n

-----------------------------------------------------------------------------
(* Calls.                                                                  *)

\* The type invariant with the strengthening that makes it inductive.
TypeInv == TypeOK /\ CallsWellFormed /\ LeadersWellFormed

\* Node ids are positive; 0 stands for nobody.
LEMMA ServerFacts ==
  /\ N \in Nat /\ N >= 1 /\ 0 \in 0..N
  /\ Server \subseteq 0..N /\ 0 \notin Server /\ Server \subseteq Thread
<1>1. N \in Nat \ {0}
  BY ConstantsAssumption
<1> QED BY <1>1 DEF Server, Thread

\* Idle locals.
LEMMA IdleType ==
  ASSUME NEW i \in 0..N
  PROVE  /\ Idle(i) \in Locals
         /\ Idle(i).node = i /\ Idle(i).pc = "idle"
BY ServerFacts DEF Idle, Locals

\* The peer a loop visits next is another node.
LEMMA PeerAfterType ==
  ASSUME NEW i \in Server, NEW p \in 0..N, PeerAfter(i, p) <= N
  PROVE  PeerAfter(i, p) \in Server \ {i}
BY ServerFacts DEF PeerAfter, Server

\* Where a loop over the peers goes next.
LEMMA MovedType ==
  ASSUME NEW l \in Locals, l.node \in Server, l.pc \in Loops, NEW got \in SUBSET Server
  PROVE  LET m == Moved(l, got)
         IN /\ m \in Locals
            /\ m.node = l.node
            /\ m.pc \in Loops =>
                 m.pc = l.pc /\ m.peer \in Server \ {l.node} /\ m.term = l.term /\ m.got = got
            /\ m.pc \notin Loops =>
                 /\ m.pc \in {"count", "idle", "wait", "serve", "failed"}
                 /\ m.pc = "count" <=> l.pc = "elect"
                 /\ m.pc = "count" => m.term = l.term /\ m.got = got
<1> DEFINE p == PeerAfter(l.node, l.peer)
<1>1. l.peer \in 0..N /\ l.node \in 0..N /\ 0 \in 0..N
  BY ServerFacts, Zenon DEF Locals
<1>2. CASE p <= N
  <2>1. p \in Server \ {l.node} /\ p \in 0..N
    BY <1>1, <1>2, PeerAfterType DEF Server
  <2>2. Moved(l, got) = [l EXCEPT !.peer = p, !.got = got]
    BY <1>2 DEF Moved
  <2> HIDE DEF p
  <2> QED BY <2>1, <2>2, Zenon DEF Locals, Loops
<1>3. CASE ~(p <= N)
  <2>1. CASE l.pc = "elect"
    <3>1. Moved(l, got) = [l EXCEPT !.pc = "count", !.peer = 0, !.got = got]
      BY <1>3, <2>1 DEF Moved
    <3> QED BY <1>1, <2>1, <3>1, Zenon DEF Locals, Loops
  <2>2. CASE l.pc = "beat"
    <3>1. Moved(l, got) = Idle(l.node)
      BY <1>3, <2>2 DEF Moved
    <3> QED BY <1>1, <2>2, <3>1, IdleType DEF Loops
  <2>3. CASE l.pc = "propose"
    <3>1. Moved(l, got) = [l EXCEPT !.pc = "wait", !.peer = 0]
      BY <1>3, <2>3 DEF Moved
    <3> QED BY <1>1, <2>3, <3>1, Zenon DEF Locals, Loops
  <2>4. CASE l.pc = "confirm"
    <3>1. PICK r \in {"serve", "failed"} :
            Moved(l, got) = [l EXCEPT !.pc = r, !.peer = 0, !.got = {}]
      BY <1>3, <2>4, Zenon DEF Moved
    <3> QED BY <1>1, <2>4, <3>1, Zenon DEF Locals, Loops
  <2> QED BY <2>1, <2>2, <2>3, <2>4 DEF Loops
<1> QED BY <1>2, <1>3

\* A thread that goes on to the next peer keeps its call well formed.
LEMMA AdvanceType ==
  ASSUME TypeOK, CallsWellFormed, NEW t \in Thread, NEW got \in SUBSET Server,
         th[t].pc \in Loops, Advance(t, got)
  PROVE  /\ th' \in [Thread -> Locals]
         /\ req' \in [Thread -> Request \cup {None}]
         /\ resp' \in [Thread -> Response]
         /\ \A s \in Thread : CallOK(s, th'[s], req'[s], resp'[s])
<1> DEFINE l == Moved(th[t], got)
           q == IF l.pc = "elect" THEN [req[t] EXCEPT !.to = l.peer] ELSE None
<1>1. /\ th \in [Thread -> Locals] /\ th[t] \in Locals
      /\ req \in [Thread -> Request \cup {None}] /\ resp \in [Thread -> Response]
  BY DEF TypeOK
<1>2. CallOK(t, th[t], req[t], resp[t])
  BY DEF CallsWellFormed
<1>3. th[t].node \in Server
  BY <1>2 DEF CallOK, Loops
<1>4. /\ th' = [th EXCEPT ![t] = l] /\ req' = [req EXCEPT ![t] = q]
      /\ resp' = [resp EXCEPT ![t] = None]
  BY DEF Advance, Call
<1>5. l \in Locals
  BY <1>1, <1>3, MovedType
<1>6. q \in Request \cup {None} /\ CallOK(t, l, q, None)
  <2>1. CASE l.pc = "elect"
    <3>1. /\ th[t].pc = "elect" /\ l.peer \in Server \ {th[t].node}
          /\ l.node = th[t].node /\ l.term = th[t].term
      BY <1>1, <1>3, <2>1, MovedType DEF Loops
    <3> HIDE DEF l
    <3>2. req[t] \in Request /\ req[t].type = "RequestVote"
      BY <1>1, <1>2, <3>1 DEF CallOK, None
    <3>3. q \in Request /\ q.type = "RequestVote" /\ q.to = l.peer
             /\ q.from = req[t].from /\ q.term = req[t].term
      BY <2>1, <3>1, <3>2 DEF Request
    <3> HIDE DEF q
    <3> QED BY <1>2, <2>1, <3>1, <3>2, <3>3 DEF CallOK, None, Loops
  <2>2. CASE l.pc # "elect"
    <3>1. q = None
      BY <2>2
    <3>2. /\ l.node = th[t].node
          /\ l.pc \in Loops => l.pc = th[t].pc /\ l.peer \in Server \ {l.node}
          /\ l.pc = "count" => th[t].pc = "elect" /\ l.term = th[t].term
      BY <1>1, <1>3, MovedType DEF Loops
    <3> HIDE DEF l, q
    <3> QED BY <1>2, <1>3, <2>2, <3>1, <3>2 DEF CallOK, None, Loops
  <2> QED BY <2>1, <2>2
<1> HIDE DEF l, q
<1>7. ASSUME NEW s \in Thread PROVE CallOK(s, th'[s], req'[s], resp'[s])
  <2>1. CASE s = t
    BY <1>1, <1>4, <1>6, <2>1
  <2>2. CASE s # t
    <3>1. CallOK(s, th[s], req[s], resp[s])
      BY DEF CallsWellFormed
    <3> QED BY <1>1, <1>4, <2>2, <3>1
  <2> QED BY <2>1, <2>2
<1>8. None \in Response
  BY DEF Response
<1> QED BY <1>1, <1>4, <1>5, <1>6, <1>7, <1>8

\* A thread that returns keeps its call well formed.
LEMMA ReturnType ==
  ASSUME TypeOK, CallsWellFormed, NEW t \in Thread, NEW pc \in {"idle", "failed"},
         th[t].pc # "idle", Return(t, pc)
  PROVE  /\ th' \in [Thread -> Locals]
         /\ req' \in [Thread -> Request \cup {None}]
         /\ resp' \in [Thread -> Response]
         /\ \A s \in Thread : CallOK(s, th'[s], req'[s], resp'[s])
<1> DEFINE l == [Idle(th[t].node) EXCEPT !.pc = pc]
<1>1. /\ th \in [Thread -> Locals] /\ th[t].node \in 0..N
      /\ req \in [Thread -> Request \cup {None}] /\ resp \in [Thread -> Response]
  BY Zenon DEF TypeOK, Locals
<1>2. CallOK(t, th[t], req[t], resp[t])
  BY DEF CallsWellFormed
<1>3. /\ th' = [th EXCEPT ![t] = l] /\ req' = [req EXCEPT ![t] = None]
      /\ resp' = [resp EXCEPT ![t] = None]
  BY <1>1 DEF Return, Call
<1>4. l \in Locals /\ l.node = th[t].node /\ l.pc = pc
  BY <1>1, ServerFacts, Zenon DEF Idle, Locals
<1> HIDE DEF l
<1>5. CallOK(t, l, None, None)
  BY <1>2, <1>4 DEF CallOK, None, Loops
<1>6. ASSUME NEW s \in Thread PROVE CallOK(s, th'[s], req'[s], resp'[s])
  <2>1. CallOK(s, th[s], req[s], resp[s])
    BY DEF CallsWellFormed
  <2> QED BY <1>1, <1>3, <1>5, <2>1
<1>7. None \in Response
  BY DEF Response
<1> QED BY <1>1, <1>3, <1>4, <1>6, <1>7

-----------------------------------------------------------------------------
(* Handlers and role changes.                                              *)

\* Only a thread's own requests, well formed ones, are ever in flight.
LEMMA RequestInFlight ==
  ASSUME TypeInv, NEW t \in Thread, req[t].type # "none"
  PROVE  req[t] \in Request /\ req[t].from # req[t].to
<1>1. req[t] \in Request \cup {None} /\ CallOK(t, th[t], req[t], resp[t])
  BY DEF TypeInv, TypeOK, CallsWellFormed
<1>2. req[t] \in Request
  BY <1>1 DEF None
<1>3. req[t].type \in {"RequestVote", "AppendEntries"}
  BY <1>2 DEF Request
<1>4. th[t].pc \in Loops
  BY <1>1, <1>3 DEF CallOK, Loops
<1> QED BY <1>1, <1>2, <1>4 DEF CallOK

\* The types of the state a handler touches.
NodeTypes ==
  /\ currentTerm \in [Server -> Nat]
  /\ votedFor \in [Server -> 0..N]
  /\ state \in [Server -> {"follower", "candidate", "leader"}]
  /\ leaderId \in [Server -> 0..N]
  /\ log \in [Server -> Seq(Entry)]
  /\ commitIndex \in [Server -> Nat]
  /\ applied \in [Server -> Seq(Proposals)]
  /\ lastAck \in [Server -> SUBSET Server]

\* HandleRequestVote keeps the types.
LEMMA HandleRequestVoteType ==
  ASSUME TypeInv, NEW m \in Request, m.type = "RequestVote", HandleRequestVote(m)
  PROVE  /\ NodeTypes' /\ UNCHANGED <<leaderVars, elected, committed>>
         /\ ballots' \in SUBSET [term : Nat, voter : Server, candidate : Server]
         /\ LeadersWellFormed'
         /\ VoteReply(m) \in Response /\ VoteReply(m).type = "reply"
<1>1. /\ m.to \in Server /\ m.from \in Server /\ m.from \in 0..N /\ m.term \in Nat
      /\ 0 \in 0..N
  BY ServerFacts, Zenon DEF Request
<1>2. currentTerm[m.to] \in Nat
  BY <1>1 DEF TypeInv, TypeOK
<1>3. VoteReply(m) \in Response /\ VoteReply(m).type = "reply"
  <2>1. Max({m.term, currentTerm[m.to]}) \in Nat
    BY <1>1, <1>2, MaxOfTwo
  <2>2. GrantsVote(m) \in BOOLEAN
    BY DEF GrantsVote
  <2> QED BY <2>1, <2>2 DEF VoteReply, Reply, Response
<1>4. ballots' \in SUBSET [term : Nat, voter : Server, candidate : Server]
  <2>1. ballots \in SUBSET [term : Nat, voter : Server, candidate : Server]
    BY DEF TypeInv, TypeOK
  <2>2. \/ ballots' = ballots
        \/ ballots' = ballots \cup {[term |-> m.term, voter |-> m.to, candidate |-> m.from]}
    BY DEF HandleRequestVote
  <2> QED BY <1>1, <2>1, <2>2
<1> DEFINE vote == IF GrantsVote(m) THEN m.from ELSE 0
<1>5. vote \in 0..N
  BY <1>1
<1>6. UNCHANGED <<logVars, leaderVars, elected, committed>>
  BY DEF HandleRequestVote
<1>7. CASE m.term > currentTerm[m.to] /\ BecomeFollower(m.to, m.term, vote, 0)
  <2> HIDE DEF vote
  <2>1. NodeTypes'
    BY <1>1, <1>5, <1>6, <1>7, Zenon DEF BecomeFollower, NodeTypes, logVars, TypeInv, TypeOK
  <2>2. LeadersWellFormed'
    BY <1>1, <1>6, <1>7
      DEF BecomeFollower, LeadersWellFormed, leaderVars, TypeInv, TypeOK
  <2> QED BY <1>3, <1>4, <1>6, <2>1, <2>2
<1>8. CASE /\ votedFor' = [votedFor EXCEPT ![m.to] = IF vote = 0 THEN @ ELSE vote]
           /\ UNCHANGED <<currentTerm, state, leaderId, lastAck>>
  <2> HIDE DEF vote
  <2>1. NodeTypes'
    BY <1>1, <1>5, <1>6, <1>8, Zenon DEF NodeTypes, logVars, TypeInv, TypeOK
  <2>2. LeadersWellFormed'
    BY <1>6, <1>8 DEF LeadersWellFormed, leaderVars, TypeInv
  <2> QED BY <1>3, <1>4, <1>6, <2>1, <2>2
<1> QED BY <1>7, <1>8 DEF HandleRequestVote

\* Storing the entries of a request that passed the prev_log check.
LEMMA StoreEntriesType ==
  ASSUME TypeOK, NEW m \in Request, m.type = "AppendEntries", PrevMatches(m), StoreEntries(m)
  PROVE  /\ log' \in [Server -> Seq(Entry)]
         /\ commitIndex' \in [Server -> Nat]
         /\ applied' \in [Server -> Seq(Proposals)]
<1> DEFINE j == m.to
           lg == Merge(log[j], m.prevIndex, m.entries)
           ci == IF m.commit > commitIndex[j] THEN Min({m.commit, LastIndex(lg)})
                                              ELSE commitIndex[j]
<1>1. /\ j \in Server /\ m.prevIndex \in Nat /\ m.commit \in Nat /\ m.entries \in Seq(Entry)
  BY DEF Request
<1>2. /\ log \in [Server -> Seq(Entry)] /\ log[j] \in Seq(Entry)
      /\ commitIndex \in [Server -> Nat] /\ commitIndex[j] \in Nat
      /\ applied \in [Server -> Seq(Proposals)] /\ applied[j] \in Seq(Proposals)
  BY <1>1, Zenon DEF TypeOK
<1>3. m.prevIndex <= Len(log[j])
  BY <1>1, <1>2 DEF PrevMatches, LastIndex
<1>4. lg \in Seq(Entry)
  BY <1>1, <1>2, <1>3, MergeType
<1>5. /\ log' = [log EXCEPT ![j] = lg]
      /\ commitIndex' = [commitIndex EXCEPT ![j] = ci]
      /\ applied' = IF m.commit > commitIndex[j]
                    THEN [applied EXCEPT ![j] = ApplyCommitted(applied[j], lg, ci)] ELSE applied
  BY DEF StoreEntries
<1> HIDE DEF lg, j
<1>6. ci \in Nat
  <2>1. LastIndex(lg) \in Nat
    BY <1>4 DEF LastIndex
  <2>2. Min({m.commit, LastIndex(lg)}) \in Nat
    BY <1>1, <2>1, MinOfTwo
  <2> QED BY <1>2, <2>2
<1> HIDE DEF ci
<1>7. ApplyCommitted(applied[j], lg, ci) \in Seq(Proposals)
  BY <1>2, <1>4, <1>6, ApplyType
<1> QED BY <1>1, <1>2, <1>4, <1>5, <1>6, <1>7

\* HandleAppendEntries keeps the types.
LEMMA HandleAppendEntriesType ==
  ASSUME TypeInv, NEW m \in Request, m.type = "AppendEntries", HandleAppendEntries(m)
  PROVE  /\ NodeTypes' /\ UNCHANGED <<leaderVars, ballots, elected, committed>>
         /\ LeadersWellFormed'
         /\ AppendReply(m) \in Response /\ AppendReply(m).type = "reply"
<1>1. m.to \in Server /\ m.from \in 0..N /\ m.term \in Nat /\ 0 \in 0..N
  BY ServerFacts, Zenon DEF Request
<1>2. currentTerm[m.to] \in Nat /\ TypeOK /\ LeadersWellFormed
  BY <1>1, Zenon DEF TypeInv, TypeOK
<1>3. AppendReply(m) \in Response /\ AppendReply(m).type = "reply"
  <2>1. Max({m.term, currentTerm[m.to]}) \in Nat
    BY <1>1, <1>2, MaxOfTwo
  <2> QED BY <2>1 DEF AppendReply, Reply, Response
<1>4. UNCHANGED <<leaderVars, ballots, elected, committed>>
  BY DEF HandleAppendEntries
<1>5. CASE UNCHANGED <<nodeVars, lastAck, logVars>>
  BY <1>2, <1>3, <1>4, <1>5
    DEF NodeTypes, TypeOK, LeadersWellFormed, nodeVars, logVars, leaderVars
<1> DEFINE Store == IF PrevMatches(m) THEN StoreEntries(m) ELSE UNCHANGED logVars
<1>6. ASSUME Store
      PROVE  /\ log' \in [Server -> Seq(Entry)]
             /\ commitIndex' \in [Server -> Nat]
             /\ applied' \in [Server -> Seq(Proposals)]
  <2>1. CASE PrevMatches(m) /\ StoreEntries(m)
    BY <1>2, <2>1, StoreEntriesType
  <2>2. CASE UNCHANGED logVars
    BY <1>2, <2>2 DEF TypeOK, logVars
  <2> QED BY <1>6, <2>1, <2>2
<1> HIDE DEF Store
<1>7. CASE BecomeFollower(m.to, m.term, 0, m.from) /\ Store
  BY <1>1, <1>2, <1>3, <1>4, <1>6, <1>7, Zenon
    DEF NodeTypes, TypeOK, BecomeFollower, LeadersWellFormed, leaderVars
<1>8. CASE /\ state' = [state EXCEPT ![m.to] = IF @ = "candidate" THEN "follower" ELSE @]
           /\ leaderId' = [leaderId EXCEPT ![m.to] = m.from]
           /\ UNCHANGED <<currentTerm, votedFor, lastAck>>
           /\ Store
  BY <1>1, <1>2, <1>3, <1>4, <1>6, <1>8, Zenon DEF NodeTypes, TypeOK, LeadersWellFormed, leaderVars
<1> QED BY <1>5, <1>7, <1>8 DEF HandleAppendEntries, Store

\* A request built by ReplicateToPeer or ConfirmLeadershipQuorum.
LEMMA AppendEntriesType ==
  ASSUME TypeInv, NEW i \in Server, NEW j \in Server, state[i] = "leader"
  PROVE  /\ AppendEntries(i, j, nextIndex[i][j] - 1, <<>>) \in Request
         /\ Snapshot(i, j) \in Request
<1>1. /\ nextIndex[i][j] \in Nat /\ nextIndex[i][j] >= 1 /\ log[i] \in Seq(Entry)
      /\ currentTerm[i] \in Nat /\ commitIndex[i] \in Nat
  BY DEF TypeInv, TypeOK, LeadersWellFormed
<1>2. EntriesFrom(log[i], nextIndex[i][j]) \in Seq(Entry)
  BY <1>1 DEF EntriesFrom
<1>3. ASSUME NEW es \in Seq(Entry), NEW prev \in Nat
      PROVE  AppendEntries(i, j, prev, es) \in Request
  <2>1. TermAt(log[i], prev) \in Nat
    BY <1>1, TermType, Zenon
  <2> QED BY <1>1, <2>1 DEF AppendEntries, Request
<1>4. nextIndex[i][j] - 1 \in Nat /\ <<>> \in Seq(Entry)
  BY <1>1
<1> QED BY <1>2, <1>3, <1>4, Zenon DEF Snapshot

\* Sending a request from inside a loop over the peers.
LEMMA SendType ==
  ASSUME TypeInv, NEW t \in Thread, th[t].pc \in Loops \ {"elect"}, req[t].type = "none",
         NEW q \in Request, q.type = "AppendEntries", q.from = th[t].node, q.to = th[t].peer,
         Call(t, q), UNCHANGED th
  PROVE  /\ th' \in [Thread -> Locals]
         /\ req' \in [Thread -> Request \cup {None}]
         /\ resp' \in [Thread -> Response]
         /\ \A s \in Thread : CallOK(s, th'[s], req'[s], resp'[s])
<1>1. /\ th \in [Thread -> Locals] /\ None \in Response
      /\ req \in [Thread -> Request \cup {None}] /\ resp \in [Thread -> Response]
  BY DEF TypeInv, TypeOK, Response
<1>2. /\ th' = th /\ req' = [req EXCEPT ![t] = q] /\ resp' = [resp EXCEPT ![t] = None]
  BY DEF Call
<1>3. ASSUME NEW s \in Thread PROVE CallOK(s, th'[s], req'[s], resp'[s])
  <2>1. CallOK(s, th[s], req[s], resp[s])
    BY DEF TypeInv, CallsWellFormed
  <2>2. CASE s = t
    BY <1>1, <1>2, <2>1, <2>2 DEF CallOK, None, Loops
  <2>3. CASE s # t
    BY <1>1, <1>2, <2>1, <2>3
  <2> QED BY <2>2, <2>3
<1> QED BY <1>1, <1>2, <1>3

-----------------------------------------------------------------------------
(* Every action keeps the type invariant.                                  *)

\* Serve and ServeLate.
LEMMA HandleType ==
  ASSUME TypeInv, NEW m \in Request, Handle(m)
  PROVE  /\ NodeTypes' /\ UNCHANGED <<leaderVars, elected, committed>>
         /\ ballots' \in SUBSET [term : Nat, voter : Server, candidate : Server]
         /\ LeadersWellFormed'
         /\ Answer(m) \in Response /\ Answer(m).type = "reply"
<1>1. CASE m.type = "RequestVote" /\ HandleRequestVote(m)
  BY <1>1, HandleRequestVoteType DEF Answer
<1>2. CASE m.type = "AppendEntries" /\ HandleAppendEntries(m)
  BY <1>2, HandleAppendEntriesType, Zenon DEF Answer, TypeInv, TypeOK
<1> QED BY <1>1, <1>2 DEF Handle

\* The peer answers a waiting caller.
LEMMA ServeType ==
  ASSUME TypeInv, NEW t \in Thread, Serve(t)
  PROVE  TypeInv'
<1>1. req[t] \in Request /\ Handle(req[t]) /\ req[t].type # "none"
  BY RequestInFlight DEF Serve
<1>2. /\ NodeTypes' /\ UNCHANGED <<leaderVars, elected, committed>>
      /\ ballots' \in SUBSET [term : Nat, voter : Server, candidate : Server]
      /\ LeadersWellFormed'
      /\ Answer(req[t]) \in Response /\ Answer(req[t]).type = "reply"
  BY <1>1, HandleType
<1>3. /\ resp' = [resp EXCEPT ![t] = Answer(req[t])]
      /\ UNCHANGED <<th, req, late, spent, readVars>>
  BY DEF Serve
<1>4. TypeOK'
  BY <1>2, <1>3, Zenon DEF TypeInv, TypeOK, NodeTypes, leaderVars, readVars
<1>5. CallsWellFormed'
  <2>1. ASSUME NEW s \in Thread PROVE CallOK(s, th'[s], req'[s], resp'[s])
    <3>1. CallOK(s, th[s], req[s], resp[s])
      BY DEF TypeInv, CallsWellFormed
    <3>2. resp \in [Thread -> Response]
      BY DEF TypeInv, TypeOK
    <3> QED BY <1>1, <1>2, <1>3, <3>1, <3>2 DEF CallOK
  <2> QED BY <1>3, <2>1 DEF TypeInv, CallsWellFormed
<1> QED BY <1>2, <1>4, <1>5 DEF TypeInv

\* The peer handles a request nobody waits for.
LEMMA ServeLateType ==
  ASSUME TypeInv, NEW m \in late, ServeLate(m)
  PROVE  TypeInv'
<1>1. m \in Request /\ Handle(m)
  BY DEF TypeInv, TypeOK, ServeLate
<1>2. /\ NodeTypes' /\ UNCHANGED <<leaderVars, elected, committed>>
      /\ ballots' \in SUBSET [term : Nat, voter : Server, candidate : Server]
      /\ LeadersWellFormed'
  BY <1>1, HandleType
<1>3. late' \subseteq late /\ UNCHANGED <<th, req, resp, spent, readVars>>
  BY DEF ServeLate, callVars
<1>4. TypeOK'
  BY <1>2, <1>3, Zenon DEF TypeInv, TypeOK, NodeTypes, leaderVars, readVars
<1>5. CallsWellFormed'
  BY <1>3 DEF TypeInv, CallsWellFormed
<1> QED BY <1>2, <1>4, <1>5 DEF TypeInv

\* Each action that spends one of the bounds leaves a record of naturals.
LEMMA SpentType ==
  ASSUME TypeInv
  PROVE  /\ spent \in [elections : Nat, beats : Nat, failures : Nat, restarts : Nat]
         /\ [spent EXCEPT !.elections = @ + 1]
              \in [elections : Nat, beats : Nat, failures : Nat, restarts : Nat]
         /\ [spent EXCEPT !.beats = @ + 1]
              \in [elections : Nat, beats : Nat, failures : Nat, restarts : Nat]
         /\ [spent EXCEPT !.failures = @ + 1]
              \in [elections : Nat, beats : Nat, failures : Nat, restarts : Nat]
         /\ [spent EXCEPT !.restarts = @ + 1]
              \in [elections : Nat, beats : Nat, failures : Nat, restarts : Nat]
<1>1. spent \in [elections : Nat, beats : Nat, failures : Nat, restarts : Nat]
  BY DEF TypeInv, TypeOK
<1> QED BY <1>1

\* A caller whose RPC failed goes on to the next peer.
LEMMA RpcFailsType ==
  ASSUME TypeInv, NEW t \in Thread, RpcFails(t)
  PROVE  TypeInv'
<1>1. th[t].pc \in Loops /\ req[t].type # "none" /\ Advance(t, th[t].got)
  BY DEF RpcFails, Waiting
<1>2. th[t].got \in SUBSET Server
  BY Zenon DEF TypeInv, TypeOK, Locals
<1>3. /\ th' \in [Thread -> Locals]
      /\ req' \in [Thread -> Request \cup {None}] /\ resp' \in [Thread -> Response]
      /\ \A s \in Thread : CallOK(s, th'[s], req'[s], resp'[s])
  BY <1>1, <1>2, AdvanceType DEF TypeInv
<1>4. req[t] \in Request /\ req[t].from # req[t].to
  BY <1>1, RequestInFlight
<1>5. late' \subseteq late \cup {req[t]}
  BY DEF RpcFails
<1>6. spent' \in [elections : Nat, beats : Nat, failures : Nat, restarts : Nat]
  BY SpentType DEF RpcFails
<1>7. UNCHANGED <<nodeVars, logVars, leaderVars, lastAck, ballots, elected, committed, readVars>>
  BY DEF RpcFails
<1>8. TypeOK'
  BY <1>3, <1>4, <1>5, <1>6, <1>7, Zenon
    DEF TypeInv, TypeOK, nodeVars, logVars, leaderVars, readVars
<1>9. CallsWellFormed'
  BY <1>3, <1>4, <1>5 DEF TypeInv, CallsWellFormed
<1> QED BY <1>7, <1>8, <1>9 DEF TypeInv, LeadersWellFormed, nodeVars, leaderVars

\* A new candidate sends its first vote request.
LEMMA StartElectionType ==
  ASSUME TypeInv, NEW i \in Server, StartElection(i)
  PROVE  TypeInv'
<1> DEFINE t == currentTerm[i] + 1
           l0 == [Idle(i) EXCEPT !.pc = "elect", !.term = t]
           l == Moved(l0, {i})
           q == IF l.pc = "elect"
                THEN RequestVote(i, l.peer, t, LastIndex(log[i]), LastTerm(log[i])) ELSE None
<1>1. /\ t \in Nat /\ t >= 1 /\ log[i] \in Seq(Entry) /\ i \in 0..N /\ 0 \in 0..N
      /\ i \in Thread
  BY ServerFacts DEF TypeInv, TypeOK
<1>2. l0 \in Locals /\ l0.node = i /\ l0.pc = "elect" /\ l0.term = t
  BY <1>1, Zenon DEF Idle, Locals
<1>3. /\ th' = [th EXCEPT ![i] = l] /\ req' = [req EXCEPT ![i] = q]
      /\ resp' = [resp EXCEPT ![i] = None]
  BY DEF StartElection, Call
<1> HIDE DEF l0, t
<1>4. /\ l \in Locals /\ l.node = i
      /\ l.pc \in Loops => l.pc = "elect" /\ l.peer \in Server \ {i} /\ l.term = t
      /\ l.pc \notin Loops => l.pc = "count" /\ l.term = t
  BY <1>2, MovedType DEF Loops
<1>5. /\ q \in Request \cup {None}
      /\ q.type = "RequestVote" <=> l.pc = "elect"
      /\ q.type = "RequestVote" => q.from = i /\ q.to = l.peer /\ q.term = t
      /\ q.type # "RequestVote" => q.type = "none"
  <2>1. LastIndex(log[i]) \in Nat /\ LastTerm(log[i]) \in Nat
    BY <1>1, TermType, Zenon
  <2> HIDE DEF l
  <2> QED BY <1>1, <1>4, <2>1 DEF RequestVote, Request, None, Loops
<1> HIDE DEF l, q
<1>6. CallOK(i, l, q, None)
  BY <1>1, <1>4, <1>5 DEF CallOK, None, Loops
<1>7. \A s \in Thread : CallOK(s, th'[s], req'[s], resp'[s])
  BY <1>3, <1>6, Zenon DEF TypeInv, TypeOK, CallsWellFormed
<1>8. /\ currentTerm' = [currentTerm EXCEPT ![i] = t]
      /\ votedFor' = [votedFor EXCEPT ![i] = i]
      /\ state' = [state EXCEPT ![i] = "candidate"]
      /\ leaderId' = [leaderId EXCEPT ![i] = 0]
      /\ ballots' = ballots \cup {[term |-> t, voter |-> i, candidate |-> i]}
      /\ UNCHANGED <<logVars, leaderVars, lastAck, late, elected, committed, readVars>>
  BY DEF StartElection, t
<1>9. spent' \in [elections : Nat, beats : Nat, failures : Nat, restarts : Nat]
  BY SpentType DEF StartElection
<1>10. None \in Response
  BY DEF Response
<1>11. TypeOK'
  <2>1. NodeTypes'
    BY <1>1, <1>8, Zenon DEF TypeInv, TypeOK, NodeTypes, logVars
  <2>2. ballots' \in SUBSET [term : Nat, voter : Server, candidate : Server]
    BY <1>1, <1>8 DEF TypeInv, TypeOK
  <2>3. /\ th' \in [Thread -> Locals]
        /\ req' \in [Thread -> Request \cup {None}] /\ resp' \in [Thread -> Response]
    BY <1>3, <1>4, <1>5, <1>10, Zenon DEF TypeInv, TypeOK
  <2> QED BY <1>8, <1>9, <2>1, <2>2, <2>3, Zenon
        DEF TypeInv, TypeOK, NodeTypes, leaderVars, readVars
<1>12. CallsWellFormed'
  BY <1>7, <1>8 DEF TypeInv, CallsWellFormed
<1>13. LeadersWellFormed'
  BY <1>8 DEF TypeInv, TypeOK, LeadersWellFormed, leaderVars
<1> QED BY <1>11, <1>12, <1>13 DEF TypeInv

\* BecomeFollower keeps the types, and cannot leave a leader behind.
LEMMA BecomeFollowerType ==
  ASSUME TypeInv, NEW i \in Server, NEW t \in Nat, NEW v \in 0..N, NEW h \in 0..N,
         BecomeFollower(i, t, v, h), UNCHANGED <<logVars, leaderVars>>
  PROVE  NodeTypes' /\ LeadersWellFormed'
<1>1. NodeTypes'
  BY DEF BecomeFollower, TypeInv, TypeOK, NodeTypes, logVars
<1>2. LeadersWellFormed'
  BY DEF BecomeFollower, TypeInv, TypeOK, LeadersWellFormed, leaderVars
<1> QED BY <1>1, <1>2

\* A reply, as opposed to a connection that was reset, carries a term.
LEMMA ReplyType ==
  ASSUME NEW a \in Response, a.type = "reply"
  PROVE  a.term \in Nat /\ a.ok \in BOOLEAN
BY DEF Response, None, Broken

\* StartElection after a reply.
LEMMA VoteRepliedType ==
  ASSUME TypeInv, NEW i \in Server, VoteReplied(i)
  PROVE  TypeInv'
<1>1. /\ i \in Thread /\ 0 \in 0..N /\ th[i].pc = "elect"
      /\ th[i].got \in SUBSET Server /\ th[i].peer \in Server
      /\ resp[i].type = "reply" /\ resp[i].term \in Nat
  <2>1. i \in Thread /\ 0 \in 0..N /\ th[i].pc = "elect" /\ resp[i].type = "reply"
    BY ServerFacts DEF VoteReplied, Answered, Waiting
  <2>2. th[i] \in Locals /\ resp[i] \in Response /\ CallOK(i, th[i], req[i], resp[i])
    BY <2>1, Zenon DEF TypeInv, TypeOK, CallsWellFormed
  <2>3. th[i].got \in SUBSET Server /\ th[i].peer \in Server
    BY <2>1, <2>2, Zenon DEF Locals, CallOK, Loops
  <2> QED BY <2>1, <2>2, <2>3, ReplyType
<1>2. UNCHANGED <<logVars, leaderVars, late, spent, ballots, elected, committed, readVars>>
  BY DEF VoteReplied
<1>3. /\ th' \in [Thread -> Locals]
      /\ req' \in [Thread -> Request \cup {None}] /\ resp' \in [Thread -> Response]
      /\ \A s \in Thread : CallOK(s, th'[s], req'[s], resp'[s])
  <2>1. CASE Return(i, "idle")
    BY <1>1, <2>1, ReturnType DEF TypeInv
  <2>2. CASE Advance(i, IF resp[i].ok THEN th[i].got \cup {th[i].peer} ELSE th[i].got)
    <3>1. (IF resp[i].ok THEN th[i].got \cup {th[i].peer} ELSE th[i].got) \in SUBSET Server
      BY <1>1
    <3> QED BY <1>1, <2>2, <3>1, AdvanceType, Zenon DEF TypeInv, Loops
  <2> QED BY <2>1, <2>2, Zenon DEF VoteReplied
<1>4. NodeTypes' /\ LeadersWellFormed'
  <2>1. CASE UNCHANGED <<nodeVars, lastAck>>
    BY <1>2, <2>1 DEF TypeInv, TypeOK, NodeTypes, LeadersWellFormed, nodeVars, logVars, leaderVars
  <2>2. CASE BecomeFollower(i, resp[i].term, 0, 0)
    BY <1>1, <1>2, <2>2, BecomeFollowerType, Zenon
  <2> QED BY <2>1, <2>2 DEF VoteReplied
<1>5. TypeOK'
  BY <1>2, <1>3, <1>4, Zenon DEF TypeInv, TypeOK, NodeTypes, leaderVars, readVars
<1>6. CallsWellFormed'
  BY <1>2, <1>3, Zenon DEF TypeInv, CallsWellFormed
<1> QED BY <1>4, <1>5, <1>6 DEF TypeInv

\* The end of StartElection.
LEMMA CountVotesType ==
  ASSUME TypeInv, NEW i \in Server, CountVotes(i)
  PROVE  TypeInv'
<1>1. i \in Thread /\ i \in 0..N /\ th[i].pc = "count" /\ Return(i, "idle")
  BY ServerFacts, Zenon DEF CountVotes
<1>2. UNCHANGED <<logVars, late, spent, ballots, committed, readVars>>
  BY DEF CountVotes
<1>3. /\ th' \in [Thread -> Locals]
      /\ req' \in [Thread -> Request \cup {None}] /\ resp' \in [Thread -> Response]
      /\ \A s \in Thread : CallOK(s, th'[s], req'[s], resp'[s])
  BY <1>1, ReturnType DEF TypeInv
<1>4. /\ NodeTypes' /\ LeadersWellFormed' /\ elected' \in SUBSET [term : Nat, node : Server]
      /\ nextIndex' \in [Server -> [Server -> Nat]]
      /\ matchIndex' \in [Server -> [Server -> Nat]]
  <2>1. CASE UNCHANGED <<nodeVars, leaderVars, lastAck, elected>>
    BY <1>2, <2>1, Zenon DEF TypeInv, TypeOK, NodeTypes, LeadersWellFormed, nodeVars, logVars, leaderVars
  <2>2. CASE currentTerm[i] = th[i].term /\ BecomeLeader(i)
    <3>1. InitialNextIndex(i) \in Nat /\ InitialNextIndex(i) >= 1
      <4>1. LastIndex(log[i]) \in Nat
        BY TermType DEF TypeInv, TypeOK
      <4> QED BY <4>1 DEF InitialNextIndex
    <3>2. currentTerm[i] \in Nat /\ currentTerm[i] >= 1
      <4>1. CallOK(i, th[i], req[i], resp[i]) /\ currentTerm[i] \in Nat
        BY <1>1 DEF TypeInv, TypeOK, CallsWellFormed
      <4> QED BY <1>1, <2>2, <4>1 DEF CallOK
    <3>3. NodeTypes'
      BY <1>1, <1>2, <2>2, Zenon DEF BecomeLeader, TypeInv, TypeOK, NodeTypes, logVars
    <3>4. elected' \in SUBSET [term : Nat, node : Server]
      <4>1. elected \in SUBSET [term : Nat, node : Server]
        BY DEF TypeInv, TypeOK
      <4>2. elected' = elected \cup {[term |-> currentTerm[i], node |-> i]}
        BY <2>2 DEF BecomeLeader
      <4> QED BY <3>2, <4>1, <4>2
    <3>5. /\ nextIndex' \in [Server -> [Server -> Nat]]
          /\ matchIndex' \in [Server -> [Server -> Nat]]
      BY <2>2, <3>1 DEF BecomeLeader, TypeInv, TypeOK
    <3>6. LeadersWellFormed'
      BY <2>2, <3>1, <3>2, Zenon DEF BecomeLeader, TypeInv, TypeOK, LeadersWellFormed
    <3> QED BY <3>3, <3>4, <3>5, <3>6
  <2> QED BY <2>1, <2>2 DEF CountVotes
<1>5. TypeOK'
  BY <1>2, <1>3, <1>4, Zenon DEF TypeInv, TypeOK, NodeTypes, readVars
<1>6. CallsWellFormed'
  BY <1>2, <1>3, Zenon DEF TypeInv, CallsWellFormed
<1> QED BY <1>4, <1>5, <1>6 DEF TypeInv

\* A heartbeat round begins.
LEMMA HeartbeatType ==
  ASSUME TypeInv, NEW i \in Server, Heartbeat(i)
  PROVE  TypeInv'
<1> DEFINE l0 == [Idle(i) EXCEPT !.pc = "beat"]
           l == Moved(l0, {})
           q == Snapshot(i, l.peer)
<1>1. i \in Thread /\ i \in 0..N /\ 0 \in 0..N /\ {} \in SUBSET Server
  BY ServerFacts
<1>2. l0 \in Locals /\ l0.node = i /\ l0.pc = "beat"
  BY <1>1, Zenon DEF Idle, Locals
<1>3. /\ th' = [th EXCEPT ![i] = l] /\ req' = [req EXCEPT ![i] = q]
      /\ resp' = [resp EXCEPT ![i] = None] /\ l.pc = "beat" /\ state[i] = "leader"
  BY DEF Heartbeat, Call
<1> HIDE DEF l0
<1>4. l \in Locals /\ l.node = i /\ l.pc = "beat" /\ l.peer \in Server \ {i}
  BY <1>1, <1>2, <1>3, MovedType, Zenon DEF Loops
<1> HIDE DEF l
<1>5. q \in Request /\ q.type = "AppendEntries" /\ q.from = i /\ q.to = l.peer
  <2>1. q \in Request
    BY <1>3, <1>4, AppendEntriesType
  <2> QED BY <2>1, Zenon DEF Snapshot, AppendEntries
<1> HIDE DEF q
<1>6. CallOK(i, l, q, None)
  BY <1>1, <1>4, <1>5 DEF CallOK, None, Loops
<1>7. \A s \in Thread : CallOK(s, th'[s], req'[s], resp'[s])
  BY <1>3, <1>6, Zenon DEF TypeInv, TypeOK, CallsWellFormed
<1>8. UNCHANGED <<nodeVars, logVars, leaderVars, lastAck, late, ballots,
                  elected, committed, readVars>>
  BY DEF Heartbeat
<1>9. spent' \in [elections : Nat, beats : Nat, failures : Nat, restarts : Nat]
  BY SpentType DEF Heartbeat
<1>10. /\ th' \in [Thread -> Locals]
       /\ req' \in [Thread -> Request \cup {None}] /\ resp' \in [Thread -> Response]
  BY <1>3, <1>4, <1>5, Zenon DEF TypeInv, TypeOK, Response
<1>11. TypeOK'
  BY <1>8, <1>9, <1>10, Zenon DEF TypeInv, TypeOK, nodeVars, logVars, leaderVars, readVars
<1>12. CallsWellFormed'
  BY <1>7, <1>8, Zenon DEF TypeInv, CallsWellFormed
<1> QED BY <1>8, <1>11, <1>12, Zenon DEF TypeInv, LeadersWellFormed, nodeVars, leaderVars

\* ReplicateToPeer takes its snapshot, or returns because the node lost its role.
LEMMA SendToNextPeerType ==
  ASSUME TypeInv, NEW t \in Thread, SendToNextPeer(t)
  PROVE  TypeInv'
<1> DEFINE i == th[t].node
           q == Snapshot(i, th[t].peer)
<1>1. /\ th[t].pc \in Loops \ {"elect"} /\ req[t].type = "none"
      /\ {} \in SUBSET Server
  BY Zenon DEF SendToNextPeer, Loops
<1>2. i \in Server /\ th[t].peer \in Server
  BY <1>1, Zenon DEF TypeInv, CallsWellFormed, CallOK, Loops
<1>3. /\ th' \in [Thread -> Locals]
      /\ req' \in [Thread -> Request \cup {None}] /\ resp' \in [Thread -> Response]
      /\ \A s \in Thread : CallOK(s, th'[s], req'[s], resp'[s])
  <2>1. CASE state[i] = "leader" /\ Call(t, q) /\ UNCHANGED th
    <3>1. q \in Request
      BY <1>2, <2>1, AppendEntriesType
    <3>2. q.type = "AppendEntries" /\ q.from = i /\ q.to = th[t].peer
      BY Zenon DEF Snapshot, AppendEntries
    <3> QED BY <1>1, <2>1, <3>1, <3>2, SendType, Zenon
  <2>2. CASE Advance(t, {})
    BY <1>1, <2>2, AdvanceType DEF TypeInv
  <2> QED BY <2>1, <2>2 DEF SendToNextPeer
<1>4. UNCHANGED <<nodeVars, logVars, leaderVars, lastAck, late, spent,
                  ballots, elected, committed, readVars>>
  BY DEF SendToNextPeer
<1>5. TypeOK'
  BY <1>3, <1>4, Zenon DEF TypeInv, TypeOK, nodeVars, logVars, leaderVars, readVars
<1>6. CallsWellFormed'
  BY <1>3, <1>4, Zenon DEF TypeInv, CallsWellFormed
<1> QED BY <1>4, <1>5, <1>6, Zenon DEF TypeInv, LeadersWellFormed, nodeVars, leaderVars

\* AdvanceCommitIndexLocked only ever commits indices of the leader's log.
LEMMA AdvanceCommitIndexType ==
  ASSUME TypeInv, NEW i \in Server, NEW match, state[i] = "leader",
         AdvanceCommitIndex(i, match)
  PROVE  /\ commitIndex' \in [Server -> Nat]
         /\ applied' \in [Server -> Seq(Proposals)]
         /\ committed' \in SUBSET [index : Nat, entry : Entry, at : Nat]
<1> DEFINE k == CommitCandidate(i, match)
           new == {[index |-> n, entry |-> log[i][n], at |-> currentTerm[i]] : n \in 1..k}
<1>1. /\ commitIndex \in [Server -> Nat] /\ applied \in [Server -> Seq(Proposals)]
      /\ applied[i] \in Seq(Proposals) /\ log[i] \in Seq(Entry)
      /\ committed \in SUBSET [index : Nat, entry : Entry, at : Nat]
      /\ currentTerm[i] \in Nat /\ currentTerm[i] >= 1
  BY DEF TypeInv, TypeOK, LeadersWellFormed
<1>2. CASE UNCHANGED <<commitIndex, applied, committed>>
  BY <1>1, <1>2, Zenon
<1>3. CASE /\ TermAt(log[i], k) = currentTerm[i]
           /\ commitIndex' = [commitIndex EXCEPT ![i] = k]
           /\ applied' = [applied EXCEPT ![i] = ApplyCommitted(applied[i], log[i], k)]
           /\ committed' = committed \cup new
  <2> HIDE DEF k
  <2>1. k \in 1..Len(log[i]) /\ k \in Nat
    BY <1>1, <1>3 DEF TermAt
  <2>2. ApplyCommitted(applied[i], log[i], k) \in Seq(Proposals)
    BY <1>1, <2>1, ApplyType
  <2>3. \A n \in 1..k : n \in Nat /\ log[i][n] \in Entry
    BY <1>1, <2>1
  <2>4. new \in SUBSET [index : Nat, entry : Entry, at : Nat]
    BY <1>1, <2>3
  <2> HIDE DEF new
  <2> QED BY <1>1, <1>3, <2>1, <2>2, <2>4
<1> QED BY <1>2, <1>3, Zenon DEF AdvanceCommitIndex

\* ReplicateToPeer after a reply.
LEMMA ReplicateRepliedType ==
  ASSUME TypeInv, NEW t \in Thread, ReplicateReplied(t)
  PROVE  TypeInv'
<1> DEFINE i == th[t].node
           j == th[t].peer
           last == req[t].prevIndex + Len(req[t].entries)
           match == IF req[t].entries = <<>> THEN matchIndex[i]
                                             ELSE [matchIndex[i] EXCEPT ![j] = last]
<1>1. /\ th[t].pc \in Loops \ {"elect"} /\ req[t].type # "none" /\ resp[t].type = "reply"
      /\ {} \in SUBSET Server /\ 0 \in 0..N
  BY ServerFacts, Zenon DEF ReplicateReplied, Answered, Waiting, Loops
<1>2. /\ i \in Server /\ j \in Server /\ req[t].type = "AppendEntries"
  <2>1. req[t] \in Request /\ CallOK(t, th[t], req[t], resp[t])
    BY <1>1, RequestInFlight DEF TypeInv, CallsWellFormed
  <2>2. req[t].type \in {"RequestVote", "AppendEntries"}
    BY <2>1 DEF Request
  <2> QED BY <1>1, <2>1, <2>2, Zenon DEF CallOK, Loops
<1>3. last \in Nat /\ resp[t].term \in Nat
  <2>1. req[t] \in Request /\ resp[t] \in Response
    BY <1>1, RequestInFlight, Zenon DEF TypeInv, TypeOK
  <2>2. req[t].prevIndex \in Nat /\ req[t].entries \in Seq(Entry)
    BY <1>2, <2>1, Zenon DEF Request
  <2> QED BY <1>1, <2>1, <2>2, ReplyType
<1>4. /\ th' \in [Thread -> Locals]
      /\ req' \in [Thread -> Request \cup {None}] /\ resp' \in [Thread -> Response]
      /\ \A s \in Thread : CallOK(s, th'[s], req'[s], resp'[s])
  <2>1. Advance(t, {})
    BY Zenon DEF ReplicateReplied
  <2> QED BY <1>1, <2>1, AdvanceType, Zenon DEF TypeInv
<1>5. UNCHANGED <<late, spent, ballots, elected, readVars>>
  BY Zenon DEF ReplicateReplied
<1>6. match \in [Server -> Nat]
  <2>1. matchIndex[i] \in [Server -> Nat]
    BY <1>2, Zenon DEF TypeInv, TypeOK
  <2> QED BY <1>2, <1>3, <2>1
<1>7. /\ NodeTypes' /\ LeadersWellFormed'
      /\ nextIndex' \in [Server -> [Server -> Nat]]
      /\ matchIndex' \in [Server -> [Server -> Nat]]
      /\ committed' \in SUBSET [index : Nat, entry : Entry, at : Nat]
  <2>0. /\ nextIndex \in [Server -> [Server -> Nat]] /\ nextIndex[i] \in [Server -> Nat]
        /\ matchIndex \in [Server -> [Server -> Nat]]
        /\ committed \in SUBSET [index : Nat, entry : Entry, at : Nat]
    BY <1>2, Zenon DEF TypeInv, TypeOK
  <2>1. CASE UNCHANGED <<nodeVars, logVars, leaderVars, lastAck, committed>>
    BY <2>0, <2>1 DEF TypeInv, TypeOK, NodeTypes, LeadersWellFormed, nodeVars, logVars, leaderVars
  <2>2. CASE BecomeFollower(i, resp[t].term, 0, 0) /\ UNCHANGED <<logVars, leaderVars, committed>>
    <3>1. NodeTypes' /\ LeadersWellFormed'
      BY <1>1, <1>2, <1>3, <2>2, BecomeFollowerType
    <3> QED BY <2>0, <2>2, <3>1, Zenon DEF leaderVars
  <2>3. CASE /\ state[i] = "leader"
             /\ lastAck' = [lastAck EXCEPT ![i] = @ \cup {j}]
             /\ matchIndex' = [matchIndex EXCEPT ![i] = match]
             /\ nextIndex' = IF req[t].entries = <<>> THEN nextIndex
                             ELSE [nextIndex EXCEPT ![i][j] = last + 1]
             /\ AdvanceCommitIndex(i, match)
             /\ UNCHANGED <<nodeVars, log>>
    <3> HIDE DEF match, last, i, j
    <3>1. /\ commitIndex' \in [Server -> Nat] /\ applied' \in [Server -> Seq(Proposals)]
          /\ committed' \in SUBSET [index : Nat, entry : Entry, at : Nat]
      BY <1>2, <2>3, AdvanceCommitIndexType
    <3>2. NodeTypes'
      BY <1>2, <2>3, <3>1, Zenon DEF TypeInv, TypeOK, NodeTypes, nodeVars
    <3>3. /\ nextIndex' \in [Server -> [Server -> Nat]]
          /\ \A a, b \in Server : nextIndex'[a][b] = nextIndex[a][b] \/ nextIndex'[a][b] >= 1
      BY <1>2, <1>3, <2>0, <2>3
    <3>4. matchIndex' \in [Server -> [Server -> Nat]]
      BY <1>2, <1>6, <2>0, <2>3
    <3>5. LeadersWellFormed'
      BY <2>3, <3>3, Zenon DEF TypeInv, LeadersWellFormed, nodeVars
    <3> QED BY <3>1, <3>2, <3>3, <3>4, <3>5
  <2>4. CASE /\ nextIndex' = [nextIndex EXCEPT ![i][j] = IF @ > 1 THEN @ - 1 ELSE @]
             /\ UNCHANGED <<nodeVars, logVars, matchIndex, lastAck, committed>>
    <3> HIDE DEF i, j
    <3>1. NodeTypes'
      BY <2>4, Zenon DEF TypeInv, TypeOK, NodeTypes, nodeVars, logVars
    <3>2. /\ nextIndex' \in [Server -> [Server -> Nat]]
          /\ \A a, b \in Server : nextIndex'[a][b] = nextIndex[a][b] \/ nextIndex'[a][b] >= 1
      <4> DEFINE back == IF nextIndex[i][j] > 1 THEN nextIndex[i][j] - 1 ELSE nextIndex[i][j]
      <4>1. back \in Nat /\ (back = nextIndex[i][j] \/ back >= 1)
        BY <1>2, <2>0
      <4>2. nextIndex' = [nextIndex EXCEPT ![i] = [nextIndex[i] EXCEPT ![j] = back]]
        BY <2>4
      <4> HIDE DEF back
      <4> QED BY <1>2, <2>0, <4>1, <4>2
    <3>3. LeadersWellFormed'
      BY <2>4, <3>2, Zenon DEF TypeInv, LeadersWellFormed, nodeVars
    <3> QED BY <2>0, <2>4, <3>1, <3>2, <3>3
  <2> QED BY <2>1, <2>2, <2>3, <2>4, Zenon DEF ReplicateReplied
<1>8. TypeOK'
  BY <1>4, <1>5, <1>7, Zenon DEF TypeInv, TypeOK, NodeTypes, readVars
<1>9. CallsWellFormed'
  BY <1>4, <1>5 DEF TypeInv, CallsWellFormed
<1> QED BY <1>7, <1>8, <1>9 DEF TypeInv

\* A thread outside the loops, with no call, whose locals are replaced.
LEMMA LocalStepType ==
  ASSUME TypeInv, NEW t \in Thread, NEW l \in Locals, req[t].type = "none",
         th' = [th EXCEPT ![t] = l], UNCHANGED <<req, resp, late>>, CallOK(t, l, None, None)
  PROVE  /\ th' \in [Thread -> Locals]
         /\ req' \in [Thread -> Request \cup {None}] /\ resp' \in [Thread -> Response]
         /\ late' \in SUBSET Request
         /\ CallsWellFormed'
<1>1. /\ th \in [Thread -> Locals] /\ req \in [Thread -> Request \cup {None}]
      /\ resp \in [Thread -> Response] /\ late \in SUBSET Request
  BY DEF TypeInv, TypeOK
<1>2. ASSUME NEW s \in Thread PROVE CallOK(s, th'[s], req'[s], resp'[s])
  <2>1. CallOK(s, th[s], req[s], resp[s])
    BY DEF TypeInv, CallsWellFormed
  <2>2. CASE s = t
    <3>1. resp[t].type = "none"
      BY <2>1, <2>2 DEF CallOK
    <3> QED BY <1>1, <2>2, <3>1, Zenon DEF CallOK, None
  <2>3. CASE s # t
    BY <1>1, <2>1, <2>3
  <2> QED BY <2>2, <2>3
<1> QED BY <1>1, <1>2 DEF TypeInv, CallsWellFormed

\* Outside the loops a thread has no call in progress.
LEMMA NoCall ==
  ASSUME TypeInv, NEW t \in Thread, th[t].pc \notin Loops
  PROVE  req[t].type = "none"
<1>1. req[t] \in Request \cup {None} /\ CallOK(t, th[t], req[t], resp[t])
  BY Zenon DEF TypeInv, TypeOK, CallsWellFormed
<1>2. req[t].type \in {"RequestVote", "AppendEntries", "none"}
  BY <1>1 DEF Request, None
<1> QED BY <1>1, <1>2 DEF CallOK, Loops

\* Propose appends and starts replicating.
LEMMA ProposeType ==
  ASSUME TypeInv, NEW p \in Proposals, NEW i \in Server, Propose(p, i)
  PROVE  TypeInv'
<1> DEFINE l0 == [Idle(i) EXCEPT !.pc = "propose", !.term = currentTerm[i],
                                 !.index = LastIndex(log[i]) + 1]
           l == Moved(l0, {})
           e == [term |-> currentTerm[i], val |-> p]
<1>1. /\ p \in Thread /\ p \notin Server /\ i \in 0..N /\ 0 \in 0..N /\ {} \in SUBSET Server
      /\ th[p].pc = "idle"
  BY ConstantsAssumption, ServerFacts DEF Thread, Propose
<1>2. currentTerm[i] \in Nat /\ log[i] \in Seq(Entry) /\ LastIndex(log[i]) \in Nat
  BY TermType DEF TypeInv, TypeOK
<1>3. l0 \in Locals /\ l0.node = i /\ l0.pc = "propose"
  <2> DEFINE l1 == [Idle(i) EXCEPT !.pc = "propose", !.term = currentTerm[i]]
  <2>1. l1 \in Locals /\ l1.node = i /\ l1.pc = "propose"
    BY <1>1, <1>2, Zenon DEF Idle, Locals
  <2>2. l0 = [l1 EXCEPT !.index = LastIndex(log[i]) + 1]
    OBVIOUS
  <2> HIDE DEF l0, l1
  <2>3. LastIndex(log[i]) + 1 \in Nat
    BY <1>2
  <2>4. ASSUME NEW n \in Nat
        PROVE  LET m == [l1 EXCEPT !.index = n]
               IN m \in Locals /\ m.node = i /\ m.pc = "propose"
    BY <2>1, Zenon DEF Locals
  <2> QED BY <2>2, <2>3, <2>4
<1> HIDE DEF l0
<1>4. /\ l \in Locals /\ l.node = i
      /\ l.pc \in Loops => l.pc = "propose" /\ l.peer \in Server \ {i}
      /\ l.pc \notin Loops => l.pc \in {"idle", "wait", "serve", "failed"}
  BY <1>1, <1>3, MovedType DEF Loops
<1>5. /\ log' = [log EXCEPT ![i] = Append(log[i], e)]
      /\ th' = [th EXCEPT ![p] = l]
      /\ UNCHANGED <<nodeVars, commitIndex, applied, leaderVars, lastAck, req, resp,
                     late, spent, ballots, elected, committed, readVars>>
  BY DEF Propose, l0
<1> HIDE DEF l
<1>6. CallOK(p, l, None, None)
  BY <1>1, <1>4 DEF CallOK, None, Loops
<1>7. req[p].type = "none"
  BY <1>1, NoCall DEF Loops
<1>8. /\ th' \in [Thread -> Locals]
      /\ req' \in [Thread -> Request \cup {None}] /\ resp' \in [Thread -> Response]
      /\ late' \in SUBSET Request /\ CallsWellFormed'
  BY <1>1, <1>4, <1>5, <1>6, <1>7, LocalStepType, Zenon
<1>9. Append(log[i], e) \in Seq(Entry)
  <2>1. e \in Entry
    BY <1>2 DEF Entry
  <2> QED BY <1>2, <2>1
<1>10. log' \in [Server -> Seq(Entry)]
  BY <1>5, <1>9 DEF TypeInv, TypeOK
<1>11. TypeOK'
  BY <1>5, <1>8, <1>10, Zenon DEF TypeInv, TypeOK, nodeVars, leaderVars, readVars
<1> QED BY <1>5, <1>8, <1>11 DEF TypeInv, LeadersWellFormed, nodeVars, leaderVars

\* Propose returns.
LEMMA ProposeReturnsType ==
  ASSUME TypeInv, NEW p \in Proposals, ProposeReturns(p)
  PROVE  TypeInv'
<1> DEFINE l == [th[p] EXCEPT !.pc = IF ProposalApplied(p) THEN "ok" ELSE "failed"]
<1>1. p \in Thread /\ p \notin Server /\ th[p].pc = "wait"
  BY ConstantsAssumption DEF Thread, ProposeReturns
<1>2. th[p] \in Locals /\ th[p].node \in Server
  BY <1>1, Zenon DEF TypeInv, TypeOK, CallsWellFormed, CallOK
<1>3. /\ th' = [th EXCEPT ![p] = l]
      /\ UNCHANGED <<nodeVars, logVars, leaderVars, lastAck, req, resp, late, spent,
                     ballots, elected, committed, readVars>>
  BY DEF ProposeReturns
<1>4. l \in Locals /\ l.node = th[p].node /\ l.pc \in {"ok", "failed"}
  BY <1>2, Zenon DEF Locals
<1> HIDE DEF l
<1>5. CallOK(p, l, None, None)
  BY <1>1, <1>2, <1>4, Zenon DEF CallOK, None, Loops
<1>6. req[p].type = "none"
  BY <1>1, NoCall, Zenon DEF Loops
<1>7. /\ th' \in [Thread -> Locals]
      /\ req' \in [Thread -> Request \cup {None}] /\ resp' \in [Thread -> Response]
      /\ late' \in SUBSET Request /\ CallsWellFormed'
  BY <1>1, <1>3, <1>4, <1>5, <1>6, LocalStepType, Zenon
<1>8. TypeOK'
  BY <1>3, <1>7, Zenon DEF TypeInv, TypeOK, nodeVars, logVars, leaderVars, readVars
<1> QED BY <1>3, <1>7, <1>8, Zenon DEF TypeInv, LeadersWellFormed, nodeVars, leaderVars

\* A GET begins.
LEMMA StartReadType ==
  ASSUME TypeInv, NEW r \in Reads, NEW i \in Server, StartRead(r, i)
  PROVE  TypeInv'
<1> DEFINE l0 == [Idle(i) EXCEPT !.pc = "confirm", !.term = currentTerm[i]]
<1>1. /\ r \in Thread /\ r \notin Server /\ i \in 0..N /\ 0 \in 0..N /\ {i} \in SUBSET Server
      /\ th[r].pc = "idle"
  BY ConstantsAssumption, ServerFacts DEF Thread, StartRead
<1>2. currentTerm[i] \in Nat
  BY DEF TypeInv, TypeOK
<1>3. l0 \in Locals /\ l0.node = i /\ l0.pc = "confirm"
  BY <1>1, <1>2, Zenon DEF Idle, Locals
<1>4. PICK l : /\ th' = [th EXCEPT ![r] = l]
               /\ l = [l0 EXCEPT !.pc = "lease"] \/ l = Moved(l0, {i})
  BY Zenon DEF StartRead
<1>5. /\ l \in Locals /\ l.node = i
      /\ l.pc \in Loops => l.pc = "confirm" /\ l.peer \in Server \ {i}
      /\ l.pc \notin Loops => l.pc \in {"lease", "idle", "wait", "serve", "failed"}
  <2> HIDE DEF l0
  <2>1. CASE l = [l0 EXCEPT !.pc = "lease"]
    BY <1>3, <2>1, Zenon DEF Locals, Loops
  <2>2. CASE l = Moved(l0, {i})
    BY <1>1, <1>3, <2>2, MovedType, Zenon DEF Loops
  <2> QED BY <1>4, <2>1, <2>2
<1>6. CallOK(r, l, None, None)
  BY <1>1, <1>5, Zenon DEF CallOK, None, Loops
<1>7. req[r].type = "none"
  BY <1>1, NoCall DEF Loops
<1>8. UNCHANGED <<nodeVars, logVars, leaderVars, lastAck, req, resp, late, spent,
                  ballots, elected, committed, result>>
  BY DEF StartRead
<1>9. /\ th' \in [Thread -> Locals]
      /\ req' \in [Thread -> Request \cup {None}] /\ resp' \in [Thread -> Response]
      /\ late' \in SUBSET Request /\ CallsWellFormed'
  BY <1>1, <1>4, <1>5, <1>6, <1>7, <1>8, LocalStepType, Zenon
<1>10. seen' \in [Reads -> [acked : SUBSET Proposals,
                            elected : SUBSET [term : Nat, node : Server]]]
  <2>1. Acknowledged \in SUBSET Proposals
    BY DEF Acknowledged
  <2>2. elected \in SUBSET [term : Nat, node : Server]
    BY DEF TypeInv, TypeOK
  <2>3. seen' = [seen EXCEPT ![r] = [acked |-> Acknowledged, elected |-> elected]]
    BY DEF StartRead
  <2> QED BY <2>1, <2>2, <2>3 DEF TypeInv, TypeOK
<1>11. TypeOK'
  BY <1>8, <1>9, <1>10, Zenon DEF TypeInv, TypeOK, nodeVars, logVars, leaderVars
<1> QED BY <1>8, <1>9, <1>11, Zenon DEF TypeInv, LeadersWellFormed, nodeVars, leaderVars

\* ConfirmLeadershipQuorum sends to a peer, or gives up.
LEMMA ConfirmSendType ==
  ASSUME TypeInv, NEW r \in Reads, ConfirmSend(r)
  PROVE  TypeInv'
<1> DEFINE i == th[r].node
           j == th[r].peer
           q == AppendEntries(i, j, nextIndex[i][j] - 1, <<>>)
<1>1. r \in Thread /\ th[r].pc = "confirm" /\ req[r].type = "none"
  BY Zenon DEF ConfirmSend, Thread
<1>2. i \in Server /\ j \in Server
  BY <1>1, Zenon DEF TypeInv, CallsWellFormed, CallOK, Loops
<1>3. /\ th' \in [Thread -> Locals]
      /\ req' \in [Thread -> Request \cup {None}] /\ resp' \in [Thread -> Response]
      /\ \A s \in Thread : CallOK(s, th'[s], req'[s], resp'[s])
  <2>1. CASE state[i] = "leader" /\ Call(r, q) /\ UNCHANGED th
    <3>1. q \in Request
      BY <1>2, <2>1, AppendEntriesType
    <3>2. q.type = "AppendEntries" /\ q.from = i /\ q.to = j
      BY Zenon DEF AppendEntries
    <3>3. th[r].pc \in Loops \ {"elect"}
      BY <1>1 DEF Loops
    <3> QED BY <1>1, <2>1, <3>1, <3>2, <3>3, SendType, Zenon
  <2>2. CASE Return(r, "failed")
    BY <1>1, <2>2, ReturnType DEF TypeInv
  <2> QED BY <2>1, <2>2 DEF ConfirmSend
<1>4. UNCHANGED <<nodeVars, logVars, leaderVars, lastAck, late, spent,
                  ballots, elected, committed, readVars>>
  BY Zenon DEF ConfirmSend
<1>5. TypeOK'
  BY <1>3, <1>4, Zenon DEF TypeInv, TypeOK, nodeVars, logVars, leaderVars, readVars
<1>6. CallsWellFormed'
  BY <1>3, <1>4 DEF TypeInv, CallsWellFormed
<1> QED BY <1>4, <1>5, <1>6, Zenon DEF TypeInv, LeadersWellFormed, nodeVars, leaderVars

\* ConfirmLeadershipQuorum after a reply.
LEMMA ConfirmRepliedType ==
  ASSUME TypeInv, NEW r \in Reads, ConfirmReplied(r)
  PROVE  TypeInv'
<1> DEFINE i == th[r].node
           j == th[r].peer
           got == IF resp[r].ok THEN th[r].got \cup {j} ELSE th[r].got
<1>1. r \in Thread /\ th[r].pc = "confirm" /\ resp[r].type = "reply" /\ 0 \in 0..N
  BY ServerFacts, Zenon DEF ConfirmReplied, Answered, Waiting, Thread
<1>2. /\ i \in Server /\ j \in Server /\ th[r].got \in SUBSET Server
      /\ resp[r] \in Response /\ resp[r].term \in Nat
  <2>1. th[r] \in Locals /\ resp[r] \in Response /\ CallOK(r, th[r], req[r], resp[r])
    BY <1>1, Zenon DEF TypeInv, TypeOK, CallsWellFormed
  <2>2. th[r].got \in SUBSET Server /\ j \in Server /\ i \in Server
    BY <1>1, <2>1, Zenon DEF Locals, CallOK, Loops
  <2> QED BY <1>1, <2>1, <2>2, ReplyType
<1>3. UNCHANGED <<logVars, leaderVars, late, spent, ballots, elected, committed, readVars>>
  BY Zenon DEF ConfirmReplied
<1>4. /\ th' \in [Thread -> Locals]
      /\ req' \in [Thread -> Request \cup {None}] /\ resp' \in [Thread -> Response]
      /\ \A s \in Thread : CallOK(s, th'[s], req'[s], resp'[s])
  <2>1. CASE Return(r, "failed")
    BY <1>1, <2>1, ReturnType, Zenon DEF TypeInv
  <2>2. CASE Advance(r, got)
    <3>1. got \in SUBSET Server
      BY <1>2, Zenon
    <3> HIDE DEF got
    <3> QED BY <1>1, <2>2, <3>1, AdvanceType, Zenon DEF TypeInv, Loops
  <2> QED BY <2>1, <2>2, Zenon DEF ConfirmReplied
<1>5. NodeTypes' /\ LeadersWellFormed'
  <2>1. CASE /\ UNCHANGED nodeVars
             /\ lastAck' = lastAck \/ lastAck' = [lastAck EXCEPT ![i] = @ \cup {j}]
    <3>1. lastAck' \in [Server -> SUBSET Server]
      <4>1. lastAck \in [Server -> SUBSET Server] /\ lastAck[i] \cup {j} \in SUBSET Server
        BY <1>2, Zenon DEF TypeInv, TypeOK
      <4>2. CASE lastAck' = lastAck
        BY <4>1, <4>2, Zenon
      <4>3. CASE lastAck' = [lastAck EXCEPT ![i] = lastAck[i] \cup {j}]
        BY <4>1, <4>3, Zenon
      <4> QED BY <2>1, <4>2, <4>3
    <3>2. NodeTypes'
      BY <1>3, <2>1, <3>1, Zenon DEF TypeInv, TypeOK, NodeTypes, nodeVars, logVars
    <3> QED BY <1>3, <2>1, <3>2 DEF TypeInv, LeadersWellFormed, nodeVars, leaderVars
  <2>2. CASE BecomeFollower(i, resp[r].term, 0, 0)
    BY <1>1, <1>2, <1>3, <2>2, BecomeFollowerType, Zenon
  <2> QED BY <2>1, <2>2, Zenon DEF ConfirmReplied
<1>6. TypeOK'
  BY <1>3, <1>4, <1>5, Zenon DEF TypeInv, TypeOK, NodeTypes, leaderVars, readVars
<1>7. CallsWellFormed'
  BY <1>3, <1>4, Zenon DEF TypeInv, CallsWellFormed
<1> QED BY <1>5, <1>6, <1>7 DEF TypeInv

\* A GET reads the store.
LEMMA ServeReadType ==
  ASSUME TypeInv, NEW r \in Reads, ServeRead(r)
  PROVE  TypeInv'
<1> DEFINE l == [th[r] EXCEPT !.pc = IF @ = "serve" THEN "ok" ELSE "lease ok"]
<1>1. r \in Thread /\ r \notin Server /\ th[r].pc \in {"serve", "lease"}
  BY ConstantsAssumption, Zenon DEF Thread, ServeRead
<1>2. th[r] \in Locals /\ th[r].node \in Server
  BY <1>1, Zenon DEF TypeInv, TypeOK, CallsWellFormed, CallOK
<1>3. /\ th' = [th EXCEPT ![r] = l]
      /\ UNCHANGED <<nodeVars, logVars, leaderVars, lastAck, req, resp, late, spent,
                     ballots, elected, committed, seen>>
  BY Zenon DEF ServeRead
<1>4. l \in Locals /\ l.node = th[r].node /\ l.pc \in {"ok", "lease ok"}
  BY <1>2, Zenon DEF Locals
<1> HIDE DEF l
<1>5. CallOK(r, l, None, None)
  BY <1>1, <1>2, <1>4, Zenon DEF CallOK, None, Loops
<1>6. req[r].type = "none"
  BY <1>1, NoCall DEF Loops
<1>7. /\ th' \in [Thread -> Locals]
      /\ req' \in [Thread -> Request \cup {None}] /\ resp' \in [Thread -> Response]
      /\ late' \in SUBSET Request /\ CallsWellFormed'
  BY <1>1, <1>3, <1>4, <1>5, <1>6, LocalStepType, Zenon
<1>8. result' \in [Reads -> Seq(Proposals)]
  BY <1>2, Zenon DEF ServeRead, TypeInv, TypeOK
<1>9. TypeOK'
  BY <1>3, <1>7, <1>8, Zenon DEF TypeInv, TypeOK, nodeVars, logVars, leaderVars
<1> QED BY <1>3, <1>7, <1>9, Zenon DEF TypeInv, LeadersWellFormed, nodeVars, leaderVars

\* A node crashes and starts again.
LEMMA RestartType ==
  ASSUME TypeInv, NEW i \in Server, Restart(i)
  PROVE  TypeInv'
<1> DEFINE mine == {t \in Thread : th[t].node = i}
           lost == {"propose", "wait", "confirm", "serve", "lease"}
           dead == [Idle(i) EXCEPT !.pc = "failed"]
<1>1. i \in Thread /\ i \in 0..N /\ 0 \in 0..N
  BY ServerFacts
<1>2. /\ UNCHANGED <<currentTerm, votedFor, log, ballots, elected, committed, readVars>>
      /\ state' = [state EXCEPT ![i] = "follower"]
      /\ leaderId' = [leaderId EXCEPT ![i] = 0]
      /\ commitIndex' = [commitIndex EXCEPT ![i] = 0]
      /\ applied' = [applied EXCEPT ![i] = [k \in DOMAIN log[i] |-> log[i][k].val]]
      /\ nextIndex' = [nextIndex EXCEPT ![i] = [j \in Server |-> 0]]
      /\ matchIndex' = [matchIndex EXCEPT ![i] = [j \in Server |-> 0]]
      /\ lastAck' = [lastAck EXCEPT ![i] = {}]
  BY DEF Restart
<1>3. [k \in DOMAIN log[i] |-> log[i][k].val] \in Seq(Proposals)
  <2>1. log[i] \in Seq(Entry)
    BY DEF TypeInv, TypeOK
  <2>2. DOMAIN log[i] = 1..Len(log[i]) /\ Len(log[i]) \in Nat
    BY <2>1
  <2>3. \A k \in 1..Len(log[i]) : log[i][k] \in Entry
    BY <2>1
  <2>4. \A k \in 1..Len(log[i]) : log[i][k].val \in Proposals
    BY <2>3 DEF Entry
  <2> QED BY <2>2, <2>4, SeqDef
<1>4. /\ NodeTypes' /\ LeadersWellFormed'
      /\ nextIndex' \in [Server -> [Server -> Nat]]
      /\ matchIndex' \in [Server -> [Server -> Nat]]
  <2>1. NodeTypes'
    BY <1>1, <1>2, <1>3, Zenon DEF TypeInv, TypeOK, NodeTypes
  <2>2. /\ nextIndex' \in [Server -> [Server -> Nat]]
        /\ matchIndex' \in [Server -> [Server -> Nat]]
    BY <1>2 DEF TypeInv, TypeOK
  <2>3. LeadersWellFormed'
    BY <1>2 DEF TypeInv, TypeOK, LeadersWellFormed
  <2> QED BY <2>1, <2>2, <2>3
<1>5. ASSUME NEW t \in Thread
      PROVE  /\ th'[t] \in Locals
             /\ req'[t] \in Request \cup {None} /\ resp'[t] \in Response
             /\ CallOK(t, th'[t], req'[t], resp'[t])
  <2>1. /\ CallOK(t, th[t], req[t], resp[t]) /\ CallOK(i, th[i], req[i], resp[i])
        /\ th[t] \in Locals /\ req[t] \in Request \cup {None} /\ resp[t] \in Response
    BY <1>1 DEF TypeInv, TypeOK, CallsWellFormed
  <2>2. /\ Idle(i) \in Locals /\ Idle(i).node = i /\ Idle(i).pc = "idle"
        /\ dead \in Locals /\ dead.node = i /\ dead.pc = "failed"
    BY <1>1, Zenon DEF Idle, Locals
  <2>3. None \in Response /\ Broken \in Response /\ None.type = "none"
    BY DEF Response, None
  <2>4. /\ th'[t] = CASE t = i -> Idle(i)
                      [] t \in mine \ {i} /\ th[t].pc \in lost -> dead
                      [] OTHER -> th[t]
        /\ req'[t] = IF t \in mine THEN None ELSE req[t]
        /\ resp'[t] = CASE t \in mine -> None
                        [] t \notin mine /\ req[t].type # "none" /\ resp[t].type = "none"
                             /\ req[t].to = i -> Broken
                        [] OTHER -> resp[t]
    BY DEF Restart
  <2> HIDE DEF dead
  <2>5. CASE t = i
    <3>1. t \in mine
      BY <2>1, <2>5, Zenon DEF CallOK
    <3>2. th'[t] = Idle(i) /\ req'[t] = None /\ resp'[t] = None
      BY <2>4, <2>5, <3>1
    <3>3. CallOK(i, Idle(i), None, None)
      BY <2>2, <2>3, Zenon DEF CallOK, Loops
    <3> QED BY <2>2, <2>3, <2>5, <3>2, <3>3
  <2>6. CASE t \in mine \ {i} /\ th[t].pc \in lost
    <3>1. th'[t] = dead /\ req'[t] = None /\ resp'[t] = None
      BY <2>4, <2>6
    <3>2. CallOK(t, dead, None, None)
      BY <2>1, <2>2, <2>3, <2>6, Zenon DEF CallOK, Loops
    <3> QED BY <2>2, <2>3, <3>1, <3>2
  <2>7. CASE t \in mine \ {i} /\ th[t].pc \notin lost
    <3>1. th'[t] = th[t] /\ req'[t] = None /\ resp'[t] = None
      BY <2>4, <2>7
    <3>2. CallOK(t, th[t], None, None)
      BY <2>1, <2>3, <2>7, Zenon DEF CallOK, Loops
    <3> QED BY <2>1, <2>3, <3>1, <3>2, Zenon
  <2>8. CASE t \notin mine /\ t # i
    <3>1. th'[t] = th[t] /\ req'[t] = req[t]
      BY <2>4, <2>8
    <3>2. resp'[t] = resp[t] \/ (resp'[t] = Broken /\ req[t].type # "none")
      BY <2>4, <2>8
    <3>3. CallOK(t, th[t], req[t], resp'[t])
      BY <2>1, <3>2, Zenon DEF CallOK
    <3> QED BY <2>1, <2>3, <3>1, <3>2, <3>3, Zenon
  <2> QED BY <2>5, <2>6, <2>7, <2>8, Zenon
<1>6. /\ th' \in [Thread -> Locals]
      /\ req' \in [Thread -> Request \cup {None}] /\ resp' \in [Thread -> Response]
  <2>1. /\ th' = [t \in Thread |-> th'[t]] /\ req' = [t \in Thread |-> req'[t]]
        /\ resp' = [t \in Thread |-> resp'[t]]
    BY DEF Restart
  <2> QED BY <1>5, <2>1
<1>7. \A m \in late' : m \in Request /\ m.from # m.to
  <2>1. ASSUME NEW m \in late' PROVE m \in late \/ \E t \in Thread : m = req[t] /\ req[t].type # "none"
    BY DEF Restart
  <2>2. \A m \in late : m \in Request /\ m.from # m.to
    BY Zenon DEF TypeInv, TypeOK, CallsWellFormed
  <2>3. \A t \in Thread : req[t].type # "none" => req[t] \in Request /\ req[t].from # req[t].to
    BY RequestInFlight, Zenon
  <2> QED BY <2>1, <2>2, <2>3
<1>8. spent' \in [elections : Nat, beats : Nat, failures : Nat, restarts : Nat]
  BY SpentType DEF Restart
<1>9. TypeOK'
  BY <1>2, <1>4, <1>6, <1>7, <1>8, Zenon DEF TypeInv, TypeOK, NodeTypes, readVars
<1>10. CallsWellFormed'
  BY <1>5, <1>7, Zenon DEF CallsWellFormed
<1> QED BY <1>4, <1>9, <1>10 DEF TypeInv

\* The initial state is well typed.
LEMMA InitType == Init => TypeInv
<1> SUFFICES ASSUME Init PROVE TypeInv
  OBVIOUS
<1>1. 0 \in 0..N /\ Server \subseteq 0..N
  BY ServerFacts
<1>2. ASSUME NEW t \in Thread
      PROVE  /\ th[t] \in Locals /\ req[t] = None /\ resp[t] = None
             /\ CallOK(t, th[t], req[t], resp[t])
  <2>1. /\ th[t] = Idle(IF t \in Server THEN t ELSE 0) /\ req[t] = None /\ resp[t] = None
    BY DEF Init
  <2>2. (IF t \in Server THEN t ELSE 0) \in 0..N
    BY <1>1, Zenon
  <2>3. th[t] \in Locals /\ th[t].node = (IF t \in Server THEN t ELSE 0) /\ th[t].pc = "idle"
    BY <2>1, <2>2, IdleType
  <2>4. req[t].type = "none" /\ resp[t].type = "none"
    BY <2>1 DEF None
  <2>5. CallOK(t, th[t], req[t], resp[t])
    <3> DEFINE l == th[t]
               q == req[t]
               a == resp[t]
    <3>1. (t \in Server => l.node = t) /\ l.pc = "idle" /\ q.type = "none" /\ a.type = "none"
      BY <2>3, <2>4
    <3> HIDE DEF l, q, a
    <3>2. CallOK(t, l, q, a)
      BY <3>1 DEF CallOK, Loops
    <3> QED BY <3>2 DEF l, q, a
  <2> QED BY <2>1, <2>3, <2>5, Zenon
<1>3. /\ th \in [Thread -> Locals] /\ req \in [Thread -> Request \cup {None}]
      /\ resp \in [Thread -> Response]
  <2>1. /\ th = [t \in Thread |-> th[t]] /\ req = [t \in Thread |-> None]
        /\ resp = [t \in Thread |-> None]
    BY DEF Init
  <2> QED BY <1>2, <2>1 DEF Response
<1>4. <<>> \in Seq(Entry) /\ <<>> \in Seq(Proposals)
  OBVIOUS
<1>5. TypeOK
  BY <1>1, <1>3, <1>4, Zenon DEF Init, TypeOK
<1>6. CallsWellFormed /\ LeadersWellFormed
  BY <1>2, Zenon DEF Init, CallsWellFormed, LeadersWellFormed
<1> QED BY <1>5, <1>6 DEF TypeInv

\* Every step keeps the type invariant.
LEMMA NextType == TypeInv /\ [Next]_vars => TypeInv'
<1> SUFFICES ASSUME TypeInv, [Next]_vars PROVE TypeInv'
  OBVIOUS
<1>1. ASSUME NEW i \in Server, StartElection(i) PROVE TypeInv'
  BY <1>1, StartElectionType
<1>2. ASSUME NEW i \in Server, VoteReplied(i) PROVE TypeInv'
  BY <1>2, VoteRepliedType
<1>3. ASSUME NEW i \in Server, CountVotes(i) PROVE TypeInv'
  BY <1>3, CountVotesType
<1>4. ASSUME NEW i \in Server, Heartbeat(i) PROVE TypeInv'
  BY <1>4, HeartbeatType
<1>5. ASSUME NEW i \in Server, Restart(i) PROVE TypeInv'
  BY <1>5, RestartType
<1>6. ASSUME NEW t \in Server \cup Proposals, SendToNextPeer(t) PROVE TypeInv'
  BY <1>6, SendToNextPeerType DEF Thread
<1>7. ASSUME NEW t \in Server \cup Proposals, ReplicateReplied(t) PROVE TypeInv'
  BY <1>7, ReplicateRepliedType DEF Thread
<1>8. ASSUME NEW p \in Proposals, ProposeReturns(p) PROVE TypeInv'
  BY <1>8, ProposeReturnsType
<1>9. ASSUME NEW p \in Proposals, NEW i \in Server, Propose(p, i) PROVE TypeInv'
  BY <1>9, ProposeType
<1>10. ASSUME NEW r \in Reads, ConfirmSend(r) PROVE TypeInv'
  BY <1>10, ConfirmSendType
<1>11. ASSUME NEW r \in Reads, ConfirmReplied(r) PROVE TypeInv'
  BY <1>11, ConfirmRepliedType
<1>12. ASSUME NEW r \in Reads, ServeRead(r) PROVE TypeInv'
  BY <1>12, ServeReadType
<1>13. ASSUME NEW r \in Reads, NEW i \in Server, StartRead(r, i) PROVE TypeInv'
  BY <1>13, StartReadType
<1>14. ASSUME NEW t \in Thread, Serve(t) PROVE TypeInv'
  BY <1>14, ServeType
<1>15. ASSUME NEW t \in Thread, RpcFails(t) PROVE TypeInv'
  BY <1>15, RpcFailsType
<1>16. ASSUME NEW m \in late, ServeLate(m) PROVE TypeInv'
  BY <1>16, ServeLateType
<1>17. ASSUME UNCHANGED vars PROVE TypeInv'
  BY <1>17, Zenon DEF vars, nodeVars, logVars, leaderVars, callVars, readVars, TypeInv, TypeOK,
               CallsWellFormed, LeadersWellFormed
<1> QED BY <1>1, <1>2, <1>3, <1>4, <1>5, <1>6, <1>7, <1>8, <1>9, <1>10, <1>11, <1>12,
           <1>13, <1>14, <1>15, <1>16, <1>17 DEF Next

\* In every reachable state every field of RaftNode, every local of its threads
\* and every message has its type; in particular prev_log_index, which
\* ReplicateToPeer computes as next_index_ - 1, never wraps below zero.
THEOREM TypeCorrect == Spec => []TypeOK
<1>1. Spec => []TypeInv
  BY InitType, NextType, PTL DEF Spec
<1>2. TypeInv => TypeOK
  BY DEF TypeInv
<1> QED BY <1>1, <1>2, PTL
=============================================================================

# Verification of NeuralKV

TLA+ specifications of NeuralKV, a replicated key-value store in C++, with TLC
runs on small instances and TLAPS proofs for every instance.

## The system

| Part | Code | State | Operations |
|---|---|---|---|
| Raft node | `raft/node.cpp` | term, vote, role, leader hint, commit index, `next_index_`, `match_index_`, `last_ack_time_` | `StartElection`, `ReplicateToPeer`, `HandleRequestVote`, `HandleAppendEntries`, `Propose`, `ConfirmLeadershipQuorum`, `RunLoop` |
| Raft log, `state.bin` | `raft/log.cpp`, `raft/node.cpp` | `entries_`, the log file, term and vote on disk | `Append`, `TruncateFrom`, `PersistStateLocked`, start-up |
| WAL, durable storage | `persistence/` | the file, `last_index_`, `synced_index_`, `flush_in_progress_`, `last_applied_index_` | `Append`, `Sync` (group commit), `Set`, `Delete`, recovery |
| Blocking and thread-pool server | `server/`, `concurrency/` | `stop_`, task queue, workers, sessions | `Run`, `Stop`, `ServeConnection`, pool destructor |
| Epoll server | `net/` | connections, registrations, write buffers | event loop, `OnReadable`, `OnWritable`, `Stop` |
| Framing | `protocol/codec.cpp` | bytes not yet parsed | `TryParseFrame` |
| Handler | `server/handler.cpp` | none of its own | routing of client and cluster requests |
| Transport, cluster config | `cluster/` | none that Raft uses | `SendRpc`, config parsing |
| Store | `storage/sharded_kv.cpp` | 256 shards, a lock each | `Set`, `Get`, `Delete` |

A server thread parses a request and calls the handler.  Without Raft the
handler calls `DurableStorage`, which logs, syncs and applies.  With Raft it
calls `Propose` or `ConfirmLeadershipQuorum`, which call other nodes through
blocking RPCs; their servers hand the RPC to `HandleRequestVote` or
`HandleAppendEntries`.

What is hard here: a blocking RPC is made with no lock held, so a reply is used
in a different state from the one its request was built in; a crash falls
between any two system calls; group commit shares one fsync between threads;
edge-triggered epoll must lose no edge; stopping races with accepting.

## Modules

| Module | Models | Step |
|---|---|---|
| `RaftNode` | Raft layer, client entry points, RPC | one critical section under `RaftNode::mutex_` |
| `RaftStorage` | log file and `state.bin` of one node | one system call |
| `DurableStorage` | group commit, apply order, recovery | one critical section under the WAL's or the apply mutex |
| `DurableMap` | abstract: a write takes effect once, atomically, and stays | |
| `WalFile` | contents of a log file and reading them back | (operators) |
| `Clients` | clients, connections, framing | (shared actions) |
| `SessionServer` | both session servers; without workers it is `BlockingServer` | one call or one critical section |
| `EpollServer` | event loop and `Connection` | one event |
| `RequestService` | abstract: what every I/O model owes a client | |
| `RaftNodeProofs`, `RaftElectionProofs` | proofs | |
| `MC*` | symmetry sets and per-connection constants for TLC | |

Names follow the source.  `currentTerm`, `votedFor`, `commitIndex` and so on
are the members of that name; `th`, `req`, `resp` are a thread's locals, the
request it is blocked on and the reply.  `ballots`, `elected`, `committed`,
`promised`, `told`, `doubts` and `seen` are history variables; no action's guard
reads them, but that `Answer` is a step only while it changes `told`.
`PROJECT.json` gives the lines of every definition.  An operator marked as
a mutant is a definition with a plausible bug put in; it is no part of any
specification, and a property that fails with it shows what the property is
sensitive to.

### Abstractions

* Time: an election deadline may have passed, a heartbeat may be due, an
  acknowledgement may be too old, at any moment.
* Data: a write is its own value; a store is the sequence of writes applied.
* `RaftNode` takes appends, truncations and saves of term and vote as atomic
  and durable.  `RaftStorage` examines exactly that assumption, and finds it
  false in the `raftlog` cases listed below; results about `RaftNode` hold for
  executions without those.
* A crash in `RaftNode` ends a node and starts it again.  Its callers' requests may
  still be handled later (`late`).
* A record is intact or torn; a frame has two pieces; a response is one unit.
* Power loss in `DurableStorage` keeps a prefix of what was not synced,
  possibly with a torn item; `RaftStorage` keeps the set of possible contents.
* A connection of `EpollServer` stands for its descriptor.  `epoll_wait` reports a
  descriptor once and only its own event removes a connection, so no event of a
  batch is for a descriptor that an earlier one closed or an `accept()` reused,
  and `HandleEvent`'s `find()` always succeeds.
* `accept()` may fail (a bounded number of times in `EpollServer`, where the loop
  goes on; once in `SessionServer`, where `Run` returns the error), and so may
  `EPOLL_CTL_ADD` and the connection by which `Stop()` wakes `accept()`.
* The kernel side of sockets, epoll and files is external to the code and is
  modelled from how the code uses it.

## Runs that pass

| Run | Shows | Instance |
|---|---|---|
| `raft_leadership` | types; one leader per term; hints name it; a full confirm round proves leadership at the start of the GET | 3 nodes, 2 elections, a heartbeat round, a GET, a failed RPC, a restart, a late request |
| `raft_replication` | log matching, agreement and completeness of what is applied, committed entries stay, append-only leaders, what Ok means while the leader stays | 2 writes, 2 elections, a failed RPC, a late request; no GETs or restarts |
| `raft_three_terms` | committed entries stay when the vote's comparison of last terms matters | 2 writes, 3 elections |
| `wal_commit` | acknowledged writes survive, one flusher, log order, `synced_index_` honest; implements `DurableMap` | 4 writers, one power loss, one failed fsync |
| `wal_liveness` | every write returns | 3 writers, a kill, a failed write |
| `raftlog_crash` | log and file agree, promised entries and votes survive, indices increase | logs up to 3 entries, any two failures, of which two crashes, one failed fsync, one failed write |
| `session_service` | no task lost, run twice or slept through; implements `RequestService` | 2 connections with and without 2 workers; one sends 2 requests, the second malformed, the other 1 and may half-close or vanish; `accept()` and the wake-up may fail |
| `session_stop` | requests are answered; a server that stops, or whose `accept()` fails, drains | the same with well-formed requests, one each, and fair clients |
| `epoll_service` | no event lost; implements `RequestService`; pauses reading at the threshold | 2 connections, 2 requests each; one pipelines, the other waits, may send a malformed frame and may vanish; a failing accept |
| `epoll_loop` | no event lost, requests are answered, `Stop` ends `Run` | 1 connection, 3 requests, malformed frames, every way to leave, a failing accept |

Three nodes are the smallest cluster with a majority that is not everybody, and
two writes the fewest that can conflict at an index.  Two elections give a
deposed leader; the vote's comparison of last terms first matters with three.
Three writers give a flusher, a follower and a later arrival.  An `OutCapacity`
of one response makes every server block; a threshold of one or two responses
makes back-pressure happen.  Two crashes are the fewest with which a promise
made after a restart can be lost (three, without I/O errors and with logs of 2
entries, were also tried, with the same result).  A connection whose first request
is answered and whose second is malformed makes a server close on a client that
is still there.  Client operations, writers and pool workers are interchangeable,
so symmetry is used for them in safety runs; nodes are numbers that the code
compares and loops over in order, so it is not used for nodes.  Deadlock is not
checked: a bounded system stops when its budget is spent.

Some runs, and some properties, except a case on purpose, because the property
fails there; a configuration listed below shows each.

* `raft_replication` has no GETs (`raft_confirm_commit`) and no restarts
  (`raft_recovery_apply`).
* `wal_commit` has one power loss (`wal_torn_tail`), no kill (`wal_reopen`) and no
  failed write (`wal_short_write`).
* `EntriesStayContiguous`, `FileIsTheLog`, `PromisedSurvives` and `VoteSurvives`
  except I/O errors (`raftlog_failed_fsync`, `raftlog_failed_write`).
* `FileIsTheLog` and `PromisedSurvives` except a log with an entry appended behind
  the fragment that a crash left (`raftlog_torn_tail`).
* `PromisedSurvives` also excepts a crash inside `RewriteAll`
  (`raftlog_rewrite_crash`) and a success reply for entries that start-up found
  in the page cache only (`raftlog_reopen`); `VoteSurvives` excepts the like for
  the term and vote (`raftlog_vote_reopen`).  `doubts` records these cases.
* `StopDrains` excepts a `Stop()` whose connection to itself fails while `Run`
  waits in `accept()` (`blocking_deaf`).
* `EveryRequestAnswered` excepts a connection closed before it was served: pending
  when `Run` ends, or refused by `EPOLL_CTL_ADD`.
* The clients of `epoll_service` wait for their answers before they end the
  stream or send a malformed frame (`epoll_half_close`).

### Fairness

`DurableStorage`: each writer's own step, since a thread that can run will, and
a batch leader waits with a timeout.  `SessionServer` and `EpollServer`: each
server thread's step, and the second half of a `Stop()` already begun; a call that
may fail need not.  `EveryRequestAnswered` also needs clients that read their
responses, and in `session_stop` ones that finish the frame they began and then
leave, because a thread serves one connection to its end; `StopEndsRun` fails
without that (`blocking_stop`).

## Where the code and its documents disagree

Two runs are expected to fail, each on a sentence quoted in `PROJECT.json`:

* `raft_lost_ack`: `Propose` returns Ok for an index where another leader's
  entry was applied.
* `wal_torn_tail`: records appended behind a torn record are acknowledged, and
  lost at the next recovery.

Further configurations in this directory reproduce other limits.  TLC reports
the named property violated in each.

| Configuration | Property | What happens | Sentence it contradicts |
|---|---|---|---|
| `raft_lease_read` | `LeaseReadIsCurrent` | the recent-acknowledgement shortcut is taken after another leader was elected | `raft-design.md:126` |
| `raft_stale_read` | `ReadsReflectAcked` | a new leader, with nothing committed in its term, confirms and misses an acknowledged write | `raft-design.md:117` |
| `raft_confirm_commit` | `AppliedIsCommitted` | an empty AppendEntries with `leader_commit` makes a follower apply its own conflicting entry | `node.cpp:374` |
| `raft_recovery_apply` | `CommittedIsApplied` | start-up applies uncommitted entries; the committed ones at those indices are never applied | `raft-design.md:79` |
| `raft_lag` | `LagIsNotNegative` | `lag_entries()` wraps around after a restart | `node.h:56` |
| `wal_short_write` | `AckedSurvives` | a `write()` that fails half-way has the effect of a torn tail | `durable_storage.h:17` |
| `wal_reopen` | `SyncedIsDurable` | unsynced records found at open are counted as synced | `wal_writer.cpp:107` |
| `wal_failed_fsync` | `EarlierRecordsAreApplied` | after one failed fsync later writers wait forever | `durable_storage.cpp:44` |
| `wal_follower` | `FlushCoversFollowers` | a follower takes over a flush in a case the comment rules out | `wal_writer.cpp:163` |
| `raftlog_rewrite_crash` | `KeepsPromises` | a crash inside `RewriteAll` loses acknowledged entries | `failure-testing.md:41` |
| `raftlog_torn_tail` | `PromisedPastFragments` | an entry appended behind the fragment of an earlier crash is gone after the next start | `wal-design.md:93` |
| `raftlog_reopen` | `PromisedPastReopening` | a follower vouches for an entry it read back after a kill and never synced; power loss takes it | `wal_writer.cpp:107` |
| `raftlog_vote_reopen` | `KeepsVote` | the same for the term and vote | `raft-design.md:102` |
| `raftlog_failed_fsync` | `Contiguous` | after a failed fsync `entries_[i]` no longer holds index i + 1 | `log.h:44` |
| `raftlog_failed_write` | `KeepsPromises` | a follower reports success for an entry it could not store | `raft-design.md:57` |
| `raftlog_persist_crash` | `NodeStartsAgain` | a crash while saving `state.bin` leaves a node that does not start | `node.cpp:124` |
| `blocking_stop` | `StopEndsRun` | `Stop()` waits for an idle client | `blocking_server.h:22` |
| `blocking_deaf` | `StopEndsRun` | `Stop()` cannot connect to itself, and `Run` stays in `accept()` | `blocking_server.h:22` |
| `blocking_sigpipe` | `ErrorsEndOneSession` | a response to a reset connection ends the process | `connection_session.h:7` |
| `epoll_half_close` | `ImplementsRequestService` | responses owed to a half-closed client are dropped, as they are when a malformed frame follows | `architecture.md:31` |

## Proofs

All for any number of nodes `N >= 1`, any disjoint sets of writes and reads and
any bounds (`ConstantsAssumption` in `RaftNode`).

* `TypeCorrect` (`RaftNodeProofs`): `Spec => []TypeOK`.  `TypeOK` is not
  inductive: a reply is typed only if its thread is in the loop that asked for
  it, and `prev_log_index = next_index_ - 1` is a natural number only for a
  leader with `next_index_ >= 1`.  `TypeInv` adds `CallsWellFormed` and
  `LeadersWellFormed`.
* `AtMostOneLeaderPerTerm`, `HintNamesTheLeader` (`RaftElectionProofs`), from
  `ElectionInv`: a vote belongs to a term its voter has reached and, in the current
  one, to `voted_for_`; a voter backs one candidate per term; every vote a
  candidate counts was cast in the term of its candidacy; a winner has a
  majority of votes; every AppendEntries comes from a winner.  Two majorities
  intersect (`MajoritiesIntersect`).
* `LeadersOnlyAppend`: with one leader per term, the only code that truncates
  never runs against a leader of its own term.

Only model-checked: everything else above.  Liveness under fairness is out of
the prover's reach, and so is induction over data (recovery scans, folds over
the log).

## Not modelled

Encoding of fields and RPCs, checksums, status types, the three programs'
option handling, the load generator, and test support (fault injection, the
linearizability checker).  `ShardedKV`'s locks, `GetOrConnect` (unused) and
config parsing are left out of otherwise modelled parts.

## Plan

Done: the core above.  Order used: Raft, WAL, Raft storage, session servers, epoll.

1. Serving slots: Raft's RPCs composed with `BlockingServer`, whose single slot
   and the missing RPC timeout let an idle client hold up a cluster.
2. Client redirect on `kWrongLeader`, including a redirect that is out of date.
3. Raft progress: what a stable leader guarantees; single-node clusters;
   `replication_lag_entries`.
4. `LinearizabilityChecker` as an operator against a reference definition;
   `ClusterConfig` validation; `ShardedKV`.
5. Proofs of log matching and leader completeness, and of the invariants of
   `DurableStorage` and `SessionServer`.

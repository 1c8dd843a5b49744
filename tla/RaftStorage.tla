---------------------------- MODULE RaftStorage ----------------------------
(***************************************************************************)
(* What one Raft node keeps on disk and how it gets it back: raft::Log     *)
(* (src/src/raft/log.cpp) over WalWriter (persistence/wal_writer.cpp), and *)
(* the term and vote in raft/state.bin (raft/node.cpp, PersistStateLocked  *)
(* and LoadPersistedState).                                                *)
(*                                                                         *)
(* RaftNode::mutex_ serialises the callers, so one operation runs at a     *)
(* time; a step is one system call, because a crash falls between system   *)
(* calls.  `images` and `stateImages` hold every content that the two      *)
(* files may have after power is lost; an fsync leaves the current one.    *)
(***************************************************************************)
EXTENDS WalFile, FiniteSets

CONSTANTS
  MaxTerm,                 \* bounds on the entries' terms,
  MaxLog,                  \* on the length of the log,
  MaxFile,                 \* on the items in the file when a request arrives,
  MaxHard,                 \* on the changes of (term, voted_for)
  MaxCrashes,              \* and on what goes wrong,
  MaxFsyncFailures,
  MaxWriteFailures,
  MaxFailures              \* altogether

ASSUME ConstantsAssumption ==
  /\ {MaxTerm, MaxLog, MaxFile, MaxHard} \subseteq Nat \ {0}
  /\ {MaxCrashes, MaxFsyncFailures, MaxWriteFailures, MaxFailures} \subseteq Nat

VARIABLES
  phase,                   \* "up", "down", or "refused" to start
  at,                      \* the operation in progress
  file, images,            \* wal.log
  last_index,              \* WalWriter::last_index_
  entries,                 \* Log::entries_
  todo,                    \* terms of the entries still to be stored
  pos,                     \* index of the entry stored last
  own,                     \* the entry is this leader's own (Propose)
  claim,                   \* the log that a success reply vouches for
  promised,                \* the log this node has vouched for
  hard,                    \* version of (current_term_, voted_for_)
  stateFile, stateImages,  \* state.bin: a version, or TornState
  told,                    \* the version this node's replies rest on
  spent,                   \* failures so far
  doubts                   \* what has happened to the promises' footing

logDisk == <<file, images>>
stateDisk == <<stateFile, stateImages>>
request == <<todo, pos, own, claim>>
hardVars == <<hard, stateDisk, told>>
failVars == <<spent, doubts>>
vars == <<phase, at, logDisk, last_index, entries, request, promised, hardVars, failVars>>

-----------------------------------------------------------------------------

Term == 1..MaxTerm

Terms(log) == Payloads(log)

\* state.bin with fewer than 12 bytes.  A missing file is version 0.
TornState == -1

\* Log::Get: present, and at its own index.
Has(i) == i \in 1..Len(entries) /\ entries[i].index = i

Spend(what, limit) ==
  /\ spent[what] < limit
  /\ spent.crashes + spent.fsyncs + spent.writes < MaxFailures
  /\ spent' = [spent EXCEPT ![what] = @ + 1]

\* Mutant of Synced.
Unsynced == UNCHANGED images

\* A successful fsync: only the current content can come back.
Synced == images' = {file}

\* Bytes written behind `old`, complete or cut short.
Written(old, new) == images \cup {old, Append(old, Torn), new}

Rest == at' = "rest"

\* From now on a promise may rest on what a crash takes away: "rewrite", a crash
\* fell inside RewriteAll; "fragment", a record was appended behind a fragment;
\* "cache", the log that a reply vouches for was read back at start-up and not
\* synced since; "vote", the same of the term and vote.
Doubt(what, holds) == doubts' = doubts \cup {d \in {what} : holds}

HasFragment == Intact(file) # file

-----------------------------------------------------------------------------
(* Storing entries: HandleAppendEntries' loop, and Propose's Log::Append. *)

\* An AppendEntries whose previous entry matches, with entries of
\* nondecreasing terms.
Receive ==
  /\ phase = "up" /\ at = "rest"
  /\ Len(file) <= MaxFile
  /\ \E prev \in 0..Len(entries), es \in UNION {[1..n -> Term] : n \in 1..2} :
       /\ prev = 0 \/ Has(prev)
       /\ prev + Len(es) <= MaxLog
       /\ \A i, j \in 1..Len(es) : i < j => es[i] <= es[j]
       /\ prev > 0 => entries[prev].payload <= es[1]
       /\ todo' = es
       /\ pos' = prev
       /\ claim' = Terms(SubSeq(entries, 1, prev)) \o es
  /\ own' = FALSE
  /\ at' = "store"
  /\ UNCHANGED <<phase, logDisk, last_index, entries, promised, hardVars, failVars>>

\* Propose on the leader: one new entry of the current term.
Propose ==
  /\ phase = "up" /\ at = "rest"
  /\ Len(file) <= MaxFile
  /\ Len(entries) < MaxLog
  /\ \E t \in Term :
       /\ \A i \in 1..Len(entries) : entries[i].payload <= t
       /\ todo' = <<t>>
       /\ claim' = Append(Terms(entries), t)
  /\ pos' = Len(entries)
  /\ own' = TRUE
  /\ at' = "store"
  /\ UNCHANGED <<phase, logDisk, last_index, entries, promised, hardVars, failVars>>

\* An entry is dealt with, stored or not: the handler ignores the status that
\* Log::Append and Log::TruncateFrom return, Propose gives up.
EntryDone(stored) ==
  /\ pos' = pos + 1
  /\ todo' = IF own /\ ~stored THEN <<>> ELSE Tail(todo)
  /\ claim' = IF own /\ ~stored THEN <<>> ELSE claim
  /\ at' = "store"
  /\ UNCHANGED own

SkipExisting ==
  /\ phase = "up" /\ at = "store" /\ todo # <<>>
  /\ Has(pos + 1) /\ entries[pos + 1].payload = Head(todo)
  /\ EntryDone(TRUE)
  /\ UNCHANGED <<phase, logDisk, last_index, entries, promised, hardVars, failVars>>

\* WalWriter::Append's write().
AppendWrite ==
  /\ phase = "up" /\ at = "store" /\ todo # <<>>
  /\ ~Has(pos + 1)
  /\ file' = Append(file, Record(last_index + 1, Head(todo)))
  /\ images' = Written(file, file')
  /\ last_index' = last_index + 1
  /\ at' = "append"
  /\ Doubt("fragment", HasFragment)
  /\ UNCHANGED <<phase, entries, request, promised, hardVars, spent>>

AppendWriteFails ==
  /\ phase = "up" /\ at = "store" /\ todo # <<>>
  /\ ~Has(pos + 1)
  /\ Spend("writes", MaxWriteFailures)
  /\ file' \in {file, Append(file, Torn)}
  /\ images' = Written(file, file')
  /\ EntryDone(FALSE)
  /\ UNCHANGED <<phase, last_index, entries, promised, hardVars, doubts>>

\* WalWriter::Sync, then entries_.push_back.
AppendSync ==
  /\ phase = "up" /\ at = "append"
  /\ Synced
  /\ entries' = Append(entries, Record(last_index, Head(todo)))
  /\ EntryDone(TRUE)
  /\ UNCHANGED <<phase, file, last_index, promised, hardVars, failVars>>

\* The record stays in the log file, and counted in last_index_.
AppendSyncFails ==
  /\ phase = "up" /\ at = "append"
  /\ Spend("fsyncs", MaxFsyncFailures)
  /\ EntryDone(FALSE)
  /\ UNCHANGED <<phase, logDisk, last_index, entries, promised, hardVars, doubts>>

Longer(a, b) == IF IsPrefix(a, b) THEN b ELSE a

\* The success reply; the leader counts what it stands for.
Reply ==
  /\ phase = "up" /\ at = "store" /\ todo = <<>>
  /\ promised' = Longer(claim, promised)
  /\ claim' = <<>> /\ pos' = 0 /\ own' = FALSE
  /\ Doubt("cache", images # {file})
  /\ Rest
  /\ UNCHANGED <<phase, logDisk, last_index, entries, todo, hardVars, spent>>

-----------------------------------------------------------------------------
(* Log::TruncateFrom and WalWriter::RewriteAll. *)

DroppedAfter(i) == SelectSeq(entries, LAMBDA e : e.index <= i)

DroppedFrom(i) == SelectSeq(entries, LAMBDA e : e.index < i)

\* pop_back down to the conflict.  From here on this node no longer vouches for
\* the conflicting suffix.
DropConflict ==
  /\ phase = "up" /\ at = "store" /\ todo # <<>>
  /\ Has(pos + 1) /\ entries[pos + 1].payload # Head(todo)
  /\ entries' = DroppedFrom(pos + 1)
  /\ promised' = SubSeq(promised, 1, IF Len(promised) < pos THEN Len(promised) ELSE pos)

\* ftruncate(0).
TruncateConflict ==
  /\ DropConflict
  /\ file' = <<>>
  /\ images' = images \cup {<<>>}
  /\ at' = "rewrite"
  /\ UNCHANGED <<phase, last_index, request, hardVars, failVars>>

\* ftruncate fails: the file keeps the conflicting suffix, and last_index_
\* counts it.
TruncateFails ==
  /\ DropConflict
  /\ Spend("writes", MaxWriteFailures)
  /\ UNCHANGED <<phase, at, logDisk, last_index, request, hardVars, doubts>>

\* Mutant of Rewritten.
RewrittenButOne == Len(file) + 1 >= Len(entries)

Rewritten == Len(file) >= Len(entries)

RewriteRecord ==
  /\ phase = "up" /\ at = "rewrite" /\ ~Rewritten
  /\ file' = Append(file, entries[Len(file) + 1])
  /\ images' = Written(file, file')
  /\ UNCHANGED <<phase, at, last_index, entries, request, promised, hardVars, failVars>>

\* lseek, a write or the fsync fails: RewriteAll returns early and last_index_
\* keeps its old value; the handler goes on to append.
RewriteFails ==
  /\ phase = "up" /\ at = "rewrite"
  /\ at' = "store"
  /\ \/ /\ file = <<>>
        /\ Spend("writes", MaxWriteFailures)
        /\ UNCHANGED logDisk
     \/ /\ ~Rewritten
        /\ Spend("writes", MaxWriteFailures)
        /\ file' \in {file, Append(file, Torn)}
        /\ images' = Written(file, file')
     \/ /\ Rewritten
        /\ Spend("fsyncs", MaxFsyncFailures)
        /\ UNCHANGED logDisk
  /\ UNCHANGED <<phase, last_index, entries, request, promised, hardVars, doubts>>

\* Mutant of LastIndexRewritten.
LastIndexKept == last_index

\* Mutant of LastIndexRewritten.
LastIndexShort == LastIndexOf(entries) - 1

LastIndexRewritten == LastIndexOf(entries)

RewriteSync ==
  /\ phase = "up" /\ at = "rewrite" /\ Rewritten
  /\ Synced
  /\ last_index' = LastIndexRewritten
  /\ at' = "store"
  /\ UNCHANGED <<phase, file, entries, request, promised, hardVars, failVars>>

-----------------------------------------------------------------------------
(* PersistStateLocked: open with O_TRUNC, write 12 bytes, fsync. *)

PersistOpen ==
  /\ phase = "up" /\ at = "rest"
  /\ hard < MaxHard
  /\ hard' = hard + 1
  /\ stateFile' = TornState
  /\ stateImages' = stateImages \cup {TornState}
  /\ at' = "persist"
  /\ UNCHANGED <<phase, logDisk, last_index, entries, request, promised, told, failVars>>

\* open() fails and the new term or vote stays in memory only.
PersistSkipped ==
  /\ phase = "up" /\ at = "rest"
  /\ hard < MaxHard
  /\ Spend("writes", MaxWriteFailures)
  /\ hard' = hard + 1
  /\ told' = hard'
  /\ UNCHANGED <<phase, at, logDisk, last_index, entries, request, promised, stateDisk, doubts>>

\* write() breaks off with an error; the fsync that follows keeps the fragment.
PersistWrite ==
  /\ phase = "up" /\ at = "persist" /\ stateFile = TornState
  /\ \/ /\ stateFile' = hard
        /\ stateImages' = stateImages \cup {hard}
        /\ UNCHANGED <<at, told, spent>>
     \/ /\ Spend("writes", MaxWriteFailures)
        /\ stateImages' = {TornState}
        /\ told' = hard
        /\ Rest
        /\ UNCHANGED stateFile
  /\ UNCHANGED <<phase, logDisk, last_index, entries, request, promised, hard, doubts>>

\* Mutant of StateSynced.
StateUnsynced == UNCHANGED stateImages

StateSynced == stateImages' = {stateFile}

\* fsync's status is not looked at.
PersistSync ==
  /\ phase = "up" /\ at = "persist" /\ stateFile # TornState
  /\ \/ StateSynced /\ UNCHANGED spent
     \/ Spend("fsyncs", MaxFsyncFailures) /\ UNCHANGED stateImages
  /\ told' = hard
  /\ Rest
  /\ UNCHANGED <<phase, logDisk, last_index, entries, request, promised, hard, stateFile, doubts>>

\* HandleRequestVote and HandleAppendEntries answer with the term and vote that
\* start-up has read, and persist them only when they change.
Answer ==
  /\ phase = "up" /\ at = "rest"
  /\ told < hard
  /\ told' = hard
  /\ Doubt("vote", stateImages # {stateFile})
  /\ UNCHANGED <<phase, at, logDisk, last_index, entries, request, promised, hard, stateDisk, spent>>

-----------------------------------------------------------------------------
(* Crashes (external) and start-up. *)

StopNode ==
  /\ phase = "up"
  /\ phase' = "down"
  /\ Rest
  /\ entries' = <<>> /\ last_index' = 0
  /\ todo' = <<>> /\ pos' = 0 /\ own' = FALSE /\ claim' = <<>>
  /\ hard' = 0
  /\ Doubt("rewrite", at = "rewrite")
  /\ UNCHANGED <<promised, told>>

WriteInProgress ==
  \/ at = "store" /\ todo # <<>> /\ ~Has(pos + 1)
  \/ at = "rewrite" /\ ~Rewritten

\* The page cache survives the process; the write in progress may be cut short.
Kill ==
  /\ Spend("crashes", MaxCrashes)
  /\ StopNode
  /\ \/ UNCHANGED file
     \/ WriteInProgress /\ file' = Append(file, Torn)
  /\ images' = images \cup {file'}
  /\ UNCHANGED stateDisk

PowerLoss ==
  /\ Spend("crashes", MaxCrashes)
  /\ StopNode
  /\ file' \in images
  /\ images' = {file'}
  /\ stateFile' \in stateImages
  /\ stateImages' = {stateFile'}

\* DurableStorage::Open, LoadPersistedState and Log::Load.
Start ==
  /\ phase = "down"
  /\ \E scan \in Scans(file) :
       /\ phase' = IF scan.ok /\ stateFile # TornState THEN "up" ELSE "refused"
       /\ entries' = IF scan.ok THEN scan.records ELSE <<>>
       /\ last_index' = LastIndexOf(entries')
  /\ hard' = IF stateFile # TornState THEN stateFile ELSE 0
  /\ UNCHANGED <<at, logDisk, request, promised, stateDisk, told, failVars>>

-----------------------------------------------------------------------------

Init ==
  /\ phase = "up"
  /\ at = "rest"
  /\ file = <<>> /\ images = {<<>>}
  /\ last_index = 0
  /\ entries = <<>>
  /\ todo = <<>> /\ pos = 0 /\ own = FALSE /\ claim = <<>>
  /\ promised = <<>>
  /\ hard = 0
  /\ stateFile = 0 /\ stateImages = {0}
  /\ told = 0
  /\ spent = [crashes |-> 0, fsyncs |-> 0, writes |-> 0]
  /\ doubts = {}

Next ==
  \/ Receive \/ Propose \/ SkipExisting \/ Reply
  \/ AppendWrite \/ AppendWriteFails \/ AppendSync \/ AppendSyncFails
  \/ TruncateConflict \/ TruncateFails \/ RewriteRecord \/ RewriteFails \/ RewriteSync
  \/ PersistOpen \/ PersistSkipped \/ PersistWrite \/ PersistSync \/ Answer
  \/ Kill \/ PowerLoss \/ Start

Spec == Init /\ [][Next]_vars

-----------------------------------------------------------------------------
(* Properties. *)

LogRecord == [index : Nat \ {0}, payload : Term]

\* Types of the two files and of the in-memory log.
TypeOK ==
  /\ phase \in {"up", "down", "refused"}
  /\ at \in {"rest", "store", "append", "rewrite", "persist"}
  /\ file \in images
  /\ images \subseteq Seq(LogRecord \cup {Torn})
  /\ last_index \in Nat
  /\ entries \in Seq(LogRecord)
  /\ {todo, claim, promised} \subseteq Seq(Term)
  /\ pos \in 0..MaxLog
  /\ own \in BOOLEAN
  /\ {hard, told} \subseteq 0..MaxHard
  /\ stateFile \in stateImages
  /\ stateImages \subseteq (0..MaxHard) \cup {TornState}
  /\ spent \in [crashes : 0..MaxCrashes, fsyncs : 0..MaxFsyncFailures, writes : 0..MaxWriteFailures]
  /\ doubts \subseteq {"rewrite", "fragment", "cache", "vote"}

NoIoErrors == spent.fsyncs = 0 /\ spent.writes = 0

Contiguous ==
  phase = "up" => /\ \A i \in 1..Len(entries) : entries[i].index = i
                  /\ at = "rest" => last_index = Len(entries)

\* "entries stay contiguous" (log.cpp:87, log.h:44 "entries_[i] holds index
\* i+1"): Log::Get finds every entry at its own index, and WalWriter assigns
\* the index that follows it, through truncations and crashes at any point, as
\* long as no write or fsync reports an error.
EntriesStayContiguous == NoIoErrors => Contiguous

\* "raft::Log doesn't keep a separate log file - it is the WAL"
\* (raft-design.md:89): between two operations the file holds the entries the
\* running node works with, but for a fragment a crash left behind.  Once a record
\* has been appended behind a fragment the next start loses it (raftlog_torn_tail).
FileIsTheLog ==
  NoIoErrors /\ "fragment" \notin doubts /\ phase = "up" /\ at = "rest" =>
    SelectSeq(file, LAMBDA r : ~IsTorn(r)) = entries

Increasing(log) == \A i, j \in 1..Len(log) : i < j => log[i].index < log[j].index

\* "index: monotonic, assigned by WalWriter" (wal-design.md:19), which is what
\* TruncateFrom's loop relies on: also after failed writes, fsyncs and rewrites
\* the indices of the entries, and of the records a restart reads, increase.
IndicesIncrease ==
  /\ Increasing(entries)
  /\ Increasing(Intact(file))

\* A running node has every entry it vouched for in its log.
KeepsPromises == phase = "up" => IsPrefix(promised, Terms(entries))

\* An entry this node reported as stored (a success reply to AppendEntries, or
\* the leader's own entry it counts for a majority) is in its log until a
\* conflicting leader makes it drop the entry, through crashes and restarts at any
\* system call, with three exceptions, in each of which it fails: a crash inside
\* RewriteAll (raftlog_rewrite_crash), an entry appended behind the fragment of an
\* earlier crash (raftlog_torn_tail), and a reply that rests on records that
\* start-up found in the page cache (raftlog_reopen).
PromisedSurvives == NoIoErrors /\ doubts \subseteq {"vote"} => KeepsPromises

\* PromisedSurvives without its second exception: records that Append writes behind
\* a fragment, which OpenOrCreate leaves in the file, survive a restart.
PromisedPastFragments == NoIoErrors /\ doubts \subseteq {"vote", "fragment"} => KeepsPromises

\* PromisedSurvives without its third exception: "everything on disk at open time
\* is already durable" (wal_writer.cpp:107).
PromisedPastReopening == NoIoErrors /\ doubts \subseteq {"vote", "cache"} => KeepsPromises

\* A running node has a term and vote no older than any it answered with.
KeepsVote == phase = "up" => hard >= told

\* A restarted node comes back with a term and vote no older than any it
\* answered with, so it cannot vote twice in a term, unless it answered with a
\* term that start-up found in the page cache only (raftlog_vote_reopen).
VoteSurvives == NoIoErrors /\ "vote" \notin doubts => KeepsVote

\* "a lost persist just risks re-voting after a crash" (node.cpp:124): whatever
\* was persisted last, the node starts again.
NodeStartsAgain == phase # "refused"
=============================================================================

-------------------------- MODULE DurableStorage --------------------------
(***************************************************************************)
(* Single-node durability: DurableStorage::Set/Delete                      *)
(* (src/src/persistence/durable_storage.cpp) on top of WalWriter's group   *)
(* commit (wal_writer.cpp) and start-up recovery (recovery.cpp).           *)
(*                                                                         *)
(* Each writer is a server thread inside one Set or Delete.  A step is one *)
(* critical section under WalWriter::mutex_ or DurableStorage::            *)
(* apply_mutex_.  A thread in a condition-variable wait is in `asleep`     *)
(* until somebody notifies that variable; awake, it re-evaluates its       *)
(* predicate under the lock.  The batch leader waits with a timeout, so it *)
(* may flush at any moment, after any number of other threads' steps.      *)
(*                                                                         *)
(* kv_ is abstracted to the sequence of the writes applied to it.          *)
(***************************************************************************)
EXTENDS WalFile, FiniteSets

CONSTANTS
  Writer,                  \* one Set or Delete each
  GroupCommitMaxRecords,   \* kGroupCommitMaxRecords
  MaxKills,                \* bounds on what goes wrong
  MaxPowerLosses,
  MaxFsyncFailures,
  MaxWriteFailures

ASSUME ConstantsAssumption ==
  /\ IsFiniteSet(Writer)
  /\ GroupCommitMaxRecords \in Nat \ {0}
  /\ {MaxKills, MaxPowerLosses, MaxFsyncFailures, MaxWriteFailures} \subseteq Nat

VARIABLES
  file,                    \* wal.log as the running system reads it
  durable,                 \* how many of its items are known to be on disk
  phase,                   \* "up", "down", or "refused": Open returned an error
  last_index,              \* WalWriter::last_index_
  synced_index,            \* WalWriter::synced_index_
  flush_in_progress,       \* WalWriter::flush_in_progress_
  kv,                      \* the writes applied to *kv_, in order
  last_applied_index,      \* DurableStorage::last_applied_index_
  pc,                      \* where each writer is
  index,                   \* the index each writer's record got
  asleep,                  \* writers waiting for a notification
  spent                    \* failures so far

disk == <<file, durable>>
wal == <<last_index, synced_index, flush_in_progress>>
memory == <<kv, last_applied_index>>
threads == <<pc, index, asleep>>
vars == <<disk, phase, wal, memory, threads, spent>>

-----------------------------------------------------------------------------

\* cv_->notify_all() and apply_cv_->notify_all().
Notified(place) == asleep \ {w \in Writer : pc[w] = place}

GoTo(w, place) == pc' = [pc EXCEPT ![w] = place]

Spend(what, limit) ==
  /\ spent[what] < limit
  /\ spent' = [spent EXCEPT ![what] = @ + 1]

-----------------------------------------------------------------------------
(* WalWriter::Append, the first half of Set and Delete. *)

\* Mutant of NextIndex.
IndexAfterGap == last_index + 2

NextIndex == last_index + 1

AppendRecord(w) ==
  /\ phase = "up"
  /\ pc[w] = "idle"
  /\ file' = Append(file, Record(NextIndex, w))
  /\ last_index' = NextIndex
  /\ index' = [index EXCEPT ![w] = NextIndex]
  /\ asleep' = Notified("wait")
  /\ GoTo(w, "sync")
  /\ UNCHANGED <<durable, phase, synced_index, flush_in_progress, memory, spent>>

\* write() fails, possibly after some of the bytes; nothing takes them back.
AppendFails(w) ==
  /\ phase = "up"
  /\ pc[w] = "idle"
  /\ Spend("writes", MaxWriteFailures)
  /\ file' \in {file, Append(file, Torn)}
  /\ GoTo(w, "error")
  /\ UNCHANGED <<durable, phase, wal, memory, index, asleep>>

-----------------------------------------------------------------------------
(* WalWriter::Sync. *)

\* Mutant of Covered.
CoveredUpToPrevious(w) == synced_index + 1 >= index[w]

Covered(w) == synced_index >= index[w]

\* Mutant of SyncedAfter.
SyncedDespiteFailure(ok) == last_index

SyncedAfter(ok) == IF ok THEN last_index ELSE synced_index

\* Mutant of WakeFollowers.
WakeNobody == asleep

WakeFollowers == Notified("wait")

\* FsyncNow with what follows it, in one critical section.
Flush(w) ==
  \E ok \in BOOLEAN :
    /\ IF ok THEN UNCHANGED spent ELSE Spend("fsyncs", MaxFsyncFailures)
    /\ durable' = IF ok THEN Len(file) ELSE durable
    /\ synced_index' = SyncedAfter(ok)
    /\ flush_in_progress' = FALSE
    /\ asleep' = WakeFollowers
    /\ GoTo(w, IF ok THEN "apply" ELSE "error")
    /\ UNCHANGED <<file, phase, last_index, memory, index>>

\* The caller becomes the batch leader.  With a full batch pending it flushes
\* without giving the lock up, otherwise it waits for more appends.
Lead(w) ==
  \/ /\ last_index - synced_index >= GroupCommitMaxRecords
     /\ Flush(w)
  \/ /\ last_index - synced_index < GroupCommitMaxRecords
     /\ flush_in_progress' = TRUE
     /\ GoTo(w, "lead")
     /\ UNCHANGED <<disk, phase, last_index, synced_index, memory, index, asleep, spent>>

Sync(w) ==
  /\ phase = "up"
  /\ pc[w] = "sync"
  /\ \/ /\ Covered(w)
        /\ GoTo(w, "apply")
        /\ UNCHANGED <<disk, phase, wal, memory, index, asleep, spent>>
     \/ /\ ~Covered(w)
        /\ flush_in_progress
        /\ GoTo(w, "wait")
        /\ asleep' = asleep \cup {w}
        /\ UNCHANGED <<disk, phase, wal, memory, index, spent>>
     \/ /\ ~Covered(w)
        /\ ~flush_in_progress
        /\ Lead(w)

LeaderFlushes(w) ==
  /\ phase = "up"
  /\ pc[w] = "lead"
  /\ Flush(w)

\* Mutant of WakePredicate.
WakesOnAnyNotification(w) == TRUE

WakePredicate(w) == Covered(w) \/ ~flush_in_progress

FollowerWakes(w) ==
  /\ phase = "up"
  /\ pc[w] = "wait"
  /\ w \notin asleep
  /\ \/ /\ ~WakePredicate(w)
        /\ asleep' = asleep \cup {w}
        /\ UNCHANGED <<disk, phase, wal, memory, pc, index, spent>>
     \/ /\ WakePredicate(w)
        /\ Covered(w)
        /\ GoTo(w, "apply")
        /\ UNCHANGED <<disk, phase, wal, memory, index, asleep, spent>>
     \/ /\ WakePredicate(w)
        /\ ~Covered(w)
        /\ Lead(w)

-----------------------------------------------------------------------------
(* The second half of Set and Delete: apply in WAL order. *)

\* Mutant of MyTurn.
AnyTurn(w) == TRUE

MyTurn(w) == last_applied_index = index[w] - 1

WaitForTurn(w) ==
  /\ phase = "up"
  /\ pc[w] = "apply"
  /\ w \notin asleep
  /\ ~MyTurn(w)
  /\ asleep' = asleep \cup {w}
  /\ UNCHANGED <<disk, phase, wal, memory, pc, index, spent>>

Apply(w) ==
  /\ phase = "up"
  /\ pc[w] = "apply"
  /\ w \notin asleep
  /\ MyTurn(w)
  /\ kv' = Append(kv, w)
  /\ last_applied_index' = index[w]
  /\ GoTo(w, "notify")
  /\ UNCHANGED <<disk, phase, wal, index, asleep, spent>>

\* apply_cv_->notify_all() after the unlock, then the call returns Ok.
Acknowledge(w) ==
  /\ phase = "up"
  /\ pc[w] = "notify"
  /\ asleep' = Notified("apply")
  /\ GoTo(w, "ok")
  /\ UNCHANGED <<disk, phase, wal, memory, index, spent>>

-----------------------------------------------------------------------------
(* Crashes (external) and start-up. *)

InFlight == {"sync", "wait", "lead", "apply", "notify"}

StopServer ==
  /\ phase' = "down"
  /\ kv' = <<>>
  /\ last_applied_index' = 0
  /\ last_index' = 0
  /\ synced_index' = 0
  /\ flush_in_progress' = FALSE
  /\ pc' = [w \in Writer |-> IF pc[w] \in InFlight THEN "lost" ELSE pc[w]]
  /\ index' = [w \in Writer |-> 0]
  /\ asleep' = {}

\* The process dies; the page cache keeps what it wrote, up to a write in
\* progress.
Kill ==
  /\ phase = "up"
  /\ Spend("kills", MaxKills)
  /\ StopServer
  /\ file' \in {file} \cup {Append(file, Torn) : w \in {v \in Writer : pc[v] = "idle"}}
  /\ UNCHANGED durable

PowerLoss ==
  /\ phase = "up"
  /\ Spend("powerLosses", MaxPowerLosses)
  /\ StopServer
  /\ file' \in AfterPowerLoss(file, durable)
  /\ durable' = Len(file')

\* WalWriter::OpenOrCreate's scan, then RecoverFromWal's replay.
Open ==
  /\ phase = "down"
  /\ \E scan \in Scans(file) :
       /\ phase' = IF scan.ok THEN "up" ELSE "refused"
       /\ last_index' = LastIndexOf(scan.records)
       /\ synced_index' = IF scan.ok THEN LastIndexOf(scan.records) ELSE 0
       /\ kv' = Payloads(scan.records)
       /\ last_applied_index' = LastIndexOf(scan.records)
  /\ UNCHANGED <<disk, flush_in_progress, threads, spent>>

-----------------------------------------------------------------------------

Init ==
  /\ file = <<>>
  /\ durable = 0
  /\ phase = "up"
  /\ last_index = 0
  /\ synced_index = 0
  /\ flush_in_progress = FALSE
  /\ kv = <<>>
  /\ last_applied_index = 0
  /\ pc = [w \in Writer |-> "idle"]
  /\ index = [w \in Writer |-> 0]
  /\ asleep = {}
  /\ spent = [kills |-> 0, powerLosses |-> 0, fsyncs |-> 0, writes |-> 0]

Step(w) ==
  \/ AppendRecord(w)
  \/ AppendFails(w)
  \/ Sync(w)
  \/ LeaderFlushes(w)
  \/ FollowerWakes(w)
  \/ WaitForTurn(w)
  \/ Apply(w)
  \/ Acknowledge(w)

Next ==
  \/ \E w \in Writer : Step(w)
  \/ Kill
  \/ PowerLoss
  \/ Open

Spec == Init /\ [][Next]_vars

\* A runnable server thread is eventually scheduled, and a timed wait ends.
Fairness == \A w \in Writer : WF_vars(Step(w))

FairSpec == Spec /\ Fairness

-----------------------------------------------------------------------------
(* Properties. *)

Place == InFlight \cup {"idle", "ok", "error", "lost"}

\* Types of the disk, of WalWriter's and DurableStorage's fields and of the
\* writer threads; indices stay within the number of records ever appended.
TypeOK ==
  /\ file \in Seq({Torn} \cup [index : 1..Cardinality(Writer), payload : Writer])
  /\ durable \in 0..Len(file)
  /\ phase \in {"up", "down", "refused"}
  /\ last_index \in 0..Cardinality(Writer)
  /\ synced_index \in 0..last_index
  /\ flush_in_progress \in BOOLEAN
  /\ kv \in Seq(Writer)
  /\ last_applied_index \in 0..last_index
  /\ pc \in [Writer -> Place]
  /\ index \in [Writer -> 0..Cardinality(Writer)]
  /\ asleep \subseteq {w \in Writer : pc[w] \in {"wait", "apply"}}
  /\ spent \in [kills : 0..MaxKills, powerLosses : 0..MaxPowerLosses,
                fsyncs : 0..MaxFsyncFailures, writes : 0..MaxWriteFailures]

\* WalWriter::Sync elects one batch leader at a time, and flush_in_progress_
\* is set exactly while there is one: two threads never group-commit at once,
\* also when a flush fails and several followers are woken to take over.
OneFlusher ==
  Cardinality({w \in Writer : pc[w] = "lead"}) = IF flush_in_progress THEN 1 ELSE 0

\* "an acknowledged write survives a crash" (durable_storage.h:17): whenever
\* the storage is open, or refused to open, each write whose Set or Delete
\* returned Ok is in the store.
AckedSurvives ==
  phase # "down" => \A w \in Writer : pc[w] = "ok" => w \in ToSet(kv)

\* The apply barrier of Set and Delete: the store is the replay of the first
\* last_applied_index_ records of the log, so a restart replays the writes in
\* the order the running server applied them.
AppliesInWalOrder ==
  phase = "up" => /\ Len(kv) = last_applied_index
                  /\ IsPrefix(kv, Payloads(SelectSeq(file, LAMBDA r : ~IsTorn(r))))

\* "everything on disk at open time is already durable" (wal_writer.cpp:107),
\* and what Sync reports: records up to synced_index_ are on disk.
SyncedIsDurable ==
  phase = "up" =>
    \A k \in 1..Len(file) : ~IsTorn(file[k]) /\ file[k].index <= synced_index => k <= durable

\* The store seen by callers: while the server is down, what recovery will
\* replay.
Store == IF phase = "down" THEN Payloads(Intact(file)) ELSE kv

Result(w) ==
  CASE pc[w] = "idle" -> "none"
    [] pc[w] \in InFlight -> "pending"
    [] pc[w] = "lost" -> "unknown"
    [] OTHER -> pc[w]

Abstract == INSTANCE DurableMap WITH store <- Store, result <- [w \in Writer |-> Result(w)]

\* DurableStorage implements the durable map: each write takes effect at one
\* moment, readers see only effects that no crash takes back, and a crash
\* decides the unacknowledged writes one way or the other.
ImplementsDurableMap == Abstract!Spec

\* While no fsync fails every Set and Delete that has its record in the log
\* returns, unless the process dies: no wake-up is lost between the two
\* condition variables and no writer waits for a turn that never comes.
EveryWriteReturns == \A w \in Writer : pc[w] = "sync" ~> pc[w] \in {"ok", "lost"}

\* "wait for every earlier record to be applied first" (durable_storage.cpp:44)
\* presumes that every earlier record is applied some day.
EarlierRecordsAreApplied ==
  \A w \in Writer : pc[w] = "apply" ~> (last_applied_index >= index[w] \/ phase # "up")

\* "can only happen if this WalWriter's open_status_ turned bad mid-flush"
\* (wal_writer.cpp:163): with the log open, a follower that finds no flush in
\* progress is covered by the one it waited for.
FlushCoversFollowers ==
  \A w \in Writer : pc[w] = "wait" /\ ~flush_in_progress => Covered(w)
=============================================================================

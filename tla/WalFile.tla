------------------------------ MODULE WalFile ------------------------------
(***************************************************************************)
(* The write-ahead log file data_dir/wal/wal.log as the code in            *)
(* src/persistence writes and reads it: a sequence of records, in which a  *)
(* write that was cut short (by a crash, or by a write() that failed       *)
(* half-way) leaves a fragment.  A record is abstracted to its index and   *)
(* its payload; term, op, key and value are the payload's.                 *)
(***************************************************************************)
EXTENDS Integers, Sequences, SequencesExt

Record(index, payload) == [index |-> index, payload |-> payload]

\* The bytes of a record whose write stopped before the end.
Torn == [index |-> 0]

IsTorn(item) == item = Torn

\* The records in front of the first fragment.
Intact(file) ==
  LET first == SelectInSeq(file, IsTorn)
  IN  IF first = 0 THEN file ELSE SubSeq(file, 1, first - 1)

\* What reading records from the start to the end reports.  A fragment at the
\* end of the file is a short read, "no more records".  A fragment with bytes
\* behind it is read together with those bytes: either they still do not fill
\* the lengths it declares (a short read again), or the length check or the
\* checksum fails.
Scans(file) ==
  {[ok |-> ok, records |-> Intact(file)] :
     ok \in IF Len(Intact(file)) + 1 < Len(file) THEN BOOLEAN ELSE {TRUE}}

LastIndexOf(records) ==
  IF records = <<>> THEN 0 ELSE records[Len(records)].index

Payloads(records) == [k \in 1..Len(records) |-> records[k].payload]

\* The file system (external).  Of the bytes after the last fsync any prefix
\* may have reached the disk when power is lost, a part of a record included.
AfterPowerLoss(file, durable) ==
  {SubSeq(file, 1, k) : k \in durable..Len(file)}
    \cup {Append(SubSeq(file, 1, k), Torn) : k \in durable..(Len(file) - 1)}
=============================================================================

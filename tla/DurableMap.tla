---------------------------- MODULE DurableMap ----------------------------
(***************************************************************************)
(* What DurableStorage promises its callers (durable_storage.h): a store   *)
(* that a write changes at one moment between its call and its return, and *)
(* that a crash never takes anything back from.  `store` is the sequence   *)
(* of the writes that took effect, which is what every GET reads.          *)
(***************************************************************************)
EXTENDS Integers, Sequences, SequencesExt

CONSTANT Writer          \* one write each

VARIABLES store, result

Init ==
  /\ store = <<>>
  /\ result = [w \in Writer |-> "none"]

Begin(w) ==
  /\ result[w] = "none"
  /\ result' = [result EXCEPT ![w] = "pending"]
  /\ UNCHANGED store

TakeEffect(w) ==
  /\ result[w] = "pending"
  /\ w \notin ToSet(store)
  /\ store' = Append(store, w)
  /\ UNCHANGED result

ReturnOk(w) ==
  /\ result[w] = "pending"
  /\ w \in ToSet(store)
  /\ result' = [result EXCEPT ![w] = "ok"]
  /\ UNCHANGED store

\* The write reports an error before it has taken effect.
ReturnError(w) ==
  /\ result[w] \in {"none", "pending"}
  /\ w \notin ToSet(store)
  /\ result' = [result EXCEPT ![w] = "error"]
  /\ UNCHANGED store

\* A crash decides the writes that are neither acknowledged nor visible: they
\* take effect, in some order, or they do not.  Their callers learn nothing.
Crash ==
  /\ store' \in {store \o s : s \in
       {q \in SeqOf({w \in Writer : result[w] \in {"pending", "error", "unknown"}}
                       \ ToSet(store), Cardinality(Writer)) : IsInjective(q)}}
  /\ result' = [w \in Writer |-> IF result[w] = "pending" THEN "unknown" ELSE result[w]]

Next ==
  \/ \E w \in Writer : Begin(w) \/ TakeEffect(w) \/ ReturnOk(w) \/ ReturnError(w)
  \/ Crash

Spec == Init /\ [][Next]_<<store, result>>
=============================================================================

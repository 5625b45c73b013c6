----------------------------- MODULE TableIndex -----------------------------
(***************************************************************************)
(* The indices of the tables (database/db.h): a table keeps std::multimaps *)
(* from the value of a column to the uid of a record, by hand, beside the  *)
(* map of its records.  A multimap is the sequence of its entries in key   *)
(* order, equal keys in insertion order.  Keys are numbers: times, uids,   *)
(* weeks, or the rank of a string in the string order.                     *)
(***************************************************************************)
EXTENDS Integers, SequencesExt

Entry == [key : Nat, uid : Nat]

\* Position of the first entry whose key is not less than k; Len + 1 is end().
LowerBound(idx, k) ==
    Min({p \in 1 .. Len(idx) + 1 : p = Len(idx) + 1 \/ idx[p].key >= k})

\* Position of the first entry whose key is greater than k.
UpperBound(idx, k) ==
    Min({p \in 1 .. Len(idx) + 1 : p = Len(idx) + 1 \/ idx[p].key > k})

AddIndex(idx, uid, key) ==
    InsertAt(idx, UpperBound(idx, key), [key |-> key, uid |-> uid])

\* Only the first entry of the uid goes.
RemoveIndex(idx, uid) == RemoveFirstMatch(idx, LAMBDA e : e.uid = uid)

\* Mutant of MoveEntry: the entry under the old value stays.
KeepEntry(idx, uid, key) == AddIndex(idx, uid, key)

\* The update of a record: its entry goes under the new value.
MoveEntry(idx, uid, key) == AddIndex(RemoveIndex(idx, uid), uid, key)

-----------------------------------------------------------------------------
(* What a reader of an index relies on. *)

\* The multimap is in key order.
Sorted(idx) ==
    \A p, q \in DOMAIN idx : p < q => idx[p].key <= idx[q].key

\* Every entry of the index of a column stands for a record, under its value.
EntriesMatch(idx, recs, c) ==
    \A p \in DOMAIN idx : /\ idx[p].uid \in DOMAIN recs
                          /\ idx[p].key = recs[idx[p].uid][c]

\* Every record has exactly one entry.
EntriesComplete(idx, recs) ==
    /\ \A u \in DOMAIN recs : \E p \in DOMAIN idx : idx[p].uid = u
    /\ \A p, q \in DOMAIN idx : idx[p].uid = idx[q].uid => p = q

\* The index lists exactly the records of recs, in key order.
Coherent(idx, recs, c) ==
    /\ Sorted(idx)
    /\ EntriesMatch(idx, recs, c)
    /\ EntriesComplete(idx, recs)
=============================================================================

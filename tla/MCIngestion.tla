---------------------------- MODULE MCIngestion ----------------------------
(***************************************************************************)
(* Small instances of Ingestion for TLC.  Meetings share no state, so one  *)
(* meeting and every interleaving of its jobs is what there is to check.   *)
(***************************************************************************)
EXTENDS Ingestion, TLC

CONSTANT m1

MCTarget == [j \in Job |-> m1]

\* Jobs of one kind and people are interchangeable.
Alike == Permutations(Task) \union Permutations(Request) \union Permutations(Person)

=============================================================================

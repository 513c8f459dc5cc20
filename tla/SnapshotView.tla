----------------------------- MODULE SnapshotView -----------------------------
(***************************************************************************)
(* What a snapshot for a moment t is to show of a list of observations and *)
(* of a set of disruptions (processing/snapshot.py), stated without the    *)
(* loops that compute it.  An observation is a record with fields key and  *)
(* observed_at; the key is (trip_id, stop_id) for transit and detector_id  *)
(* for traffic.  The instants are integers.                                *)
(***************************************************************************)
EXTENDS Integers, Sequences

(* The bound of a validity interval a disruption does not have. *)
NoTime == -1

(* The positions of the first n observations of key k known by t. *)
Known(observations, n, t, k) ==
  {i \in 1..n : observations[i].key = k /\ observations[i].observed_at <= t}

(* Position i is the latest known, and the first of those equally late. *)
IsLatest(observations, n, t, k, i) ==
  /\ i \in Known(observations, n, t, k)
  /\ \A j \in Known(observations, n, t, k) :
        \/ observations[j].observed_at < observations[i].observed_at
        \/ observations[j].observed_at = observations[i].observed_at /\ i <= j

(* The observations a snapshot for t shows. *)
Latest(observations, t) ==
  {observations[i] : i \in
     {i \in DOMAIN observations :
        IsLatest(observations, Len(observations), t, observations[i].key, i)}}

(* Mutant: the end of the validity is exclusive. *)
Active_EndExclusive(disruption, t) ==
  /\ disruption.valid_from = NoTime \/ disruption.valid_from <= t
  /\ disruption.valid_until = NoTime \/ disruption.valid_until > t

Active(disruption, t) ==
  /\ disruption.valid_from = NoTime \/ disruption.valid_from <= t
  /\ disruption.valid_until = NoTime \/ disruption.valid_until >= t

=============================================================================

-------------------------- MODULE LastGoodSnapshot --------------------------
(***************************************************************************)
(* What a refresher promises to the collectors and the readiness probe     *)
(* that read it concurrently (refresher.go, Snapshot and Ready): the last  *)
(* good snapshot, never taken back nor replaced by an older one, and a     *)
(* health that is raised only after data was published.                    *)
(*                                                                         *)
(* Refresher implements this specification (Refresher!ServesLastGood).     *)
(***************************************************************************)
EXTENDS Integers

CONSTANTS
  Sources,
  Attempts      \* the numbers of the attempts of each source

ASSUME AttemptsAssumption == Attempts \in [Sources -> SUBSET (Nat \ {0})]

VARIABLES
  snapshot,     \* the attempt that fetched the published snapshot, 0 for nil
  up,           \* source_up
  announcing    \* a snapshot was published and the source not yet marked up

AnyAttempt == UNION {Attempts[s] : s \in Sources}

lgsVars == <<snapshot, up, announcing>>

LgsTypeOK ==
  /\ snapshot \in [Sources -> AnyAttempt \cup {0}]
  /\ up \in [Sources -> {0, 1}]
  /\ announcing \in [Sources -> BOOLEAN]

LgsInit ==
  /\ snapshot = [s \in Sources |-> 0]
  /\ up = [s \in Sources |-> 0]
  /\ announcing = [s \in Sources |-> FALSE]

(* Faulty: an older snapshot may replace a newer one. *)
PublishAny(s) ==
  /\ ~ announcing[s]
  /\ \E n \in Attempts[s] : n # snapshot[s] /\ snapshot' = [snapshot EXCEPT ![s] = n]
  /\ announcing' = [announcing EXCEPT ![s] = TRUE]
  /\ UNCHANGED up

PublishNewer(s) ==
  /\ ~ announcing[s]
  /\ \E n \in Attempts[s] : n > snapshot[s] /\ snapshot' = [snapshot EXCEPT ![s] = n]
  /\ announcing' = [announcing EXCEPT ![s] = TRUE]
  /\ UNCHANGED up

ReportUp(s) ==
  /\ announcing[s]
  /\ up' = [up EXCEPT ![s] = 1]
  /\ announcing' = [announcing EXCEPT ![s] = FALSE]
  /\ UNCHANGED snapshot

ReportDown(s) ==
  /\ ~ announcing[s]
  /\ up' = [up EXCEPT ![s] = 0]
  /\ UNCHANGED <<snapshot, announcing>>

LgsNext == \E s \in Sources : PublishNewer(s) \/ ReportUp(s) \/ ReportDown(s)

(* A published snapshot is announced. *)
LgsSpec == LgsInit /\ [][LgsNext]_lgsVars /\ \A s \in Sources : WF_lgsVars(ReportUp(s))
=============================================================================

------------------------------ MODULE SyncClaim ------------------------------
(***************************************************************************)
(* The claim on one repository's sync: a conditional update of             *)
(* scm_connection.syncing_since that the API's button and the workers'     *)
(* clock both go through, honoured for a lease and given back at the end.  *)
(* Times are kept as ages, which stop growing once past the lease.         *)
(***************************************************************************)
EXTENDS Integers

CONSTANTS Syncer,    \* callers of syncProjectIssues: requests and workers
          Lease,     \* A_SYNC_CANNOT_RUN_LONGER_THAN_MS, in ticks
          Overruns   \* whether a sync may still be running when its lease is over

ASSUME LeaseAssumption == Lease \in Nat

ASSUME OverrunsAssumption == Overruns \in BOOLEAN

VARIABLES syncingFor,  \* the age of syncing_since, or Unset
          failedFor,   \* the age of sync_failed_at, or Unset
          running      \* the age of each caller's sync, or Unset

claimVars == <<syncingFor, failedFor, running>>

Unset == -1

Age == 0 .. Lease + 1

Older(age) == IF age \in 0 .. Lease THEN age + 1 ELSE age

Running == {s \in Syncer : running[s] # Unset}

ClaimInit ==
  /\ syncingFor = Unset
  /\ failedFor = Unset
  /\ running = [s \in Syncer |-> Unset]

(* Mutants: a lease a moment short, and a claim that never lapses.          *)
IsFreeTooSoon == syncingFor = Unset \/ syncingFor >= Lease

IsFreeOnlyIfReleased == syncingFor = Unset

(* syncing_since is null, or earlier than a lease ago.                      *)
IsFree == syncingFor = Unset \/ syncingFor > Lease

(* A caller that finds it taken is told SyncAlreadyRunning and changes      *)
(* nothing.                                                                 *)
ClaimTheSync(s) ==
  /\ running[s] = Unset
  /\ IsFree
  /\ syncingFor' = 0
  /\ running' = [running EXCEPT ![s] = 0]
  /\ UNCHANGED failedFor

(* Given back by connection id.  Nothing asks whose claim it is by now.     *)
GiveBack(s) ==
  /\ s \in Running
  /\ syncingFor' = Unset
  /\ running' = [running EXCEPT ![s] = Unset]

ReleaseTheSync(s) ==
  /\ GiveBack(s)
  /\ failedFor' = Unset

(* The first failure of a streak keeps its date.                            *)
ReleaseTheSyncAsFailed(s) ==
  /\ GiveBack(s)
  /\ failedFor' = IF failedFor = Unset THEN 0 ELSE failedFor

(* The process is killed, or cannot reach the database to give it back.     *)
Die(s) ==
  /\ s \in Running
  /\ running' = [running EXCEPT ![s] = Unset]
  /\ UNCHANGED <<syncingFor, failedFor>>

Tick ==
  /\ ~Overruns => \A s \in Running : running[s] < Lease
  /\ syncingFor' = Older(syncingFor)
  /\ failedFor' = Older(failedFor)
  /\ running' = [s \in Syncer |-> Older(running[s])]

ClaimNext ==
  \/ \E s \in Syncer :
       ClaimTheSync(s) \/ ReleaseTheSync(s) \/ ReleaseTheSyncAsFailed(s) \/ Die(s)
  \/ Tick

ClaimSpec == ClaimInit /\ [][ClaimNext]_claimVars

-----------------------------------------------------------------------------

ClaimTypeOK ==
  /\ syncingFor \in {Unset} \union Age
  /\ failedFor \in {Unset} \union Age
  /\ running \in [Syncer -> {Unset} \union Age]

(* "One sync of a repository at a time": with every sync over before its    *)
(* lease is, a dead one's claim included, no two run together.              *)
OneSyncAtATime == \A s, t \in Running : s = t

(* A claim nobody is left to give back does not hold the repository for     *)
(* ever: it is given back or another sync takes it over.                    *)
DeadClaimsAreTaken ==
  (syncingFor # Unset /\ Running = {}) ~> (syncingFor = Unset \/ Running # {})

(* "How long has this been broken": a retry that fails again, or one that is *)
(* killed, never makes a failure look more recent than its first.           *)
FailureKeepsItsDate ==
  [][failedFor # Unset /\ failedFor' # Unset => failedFor' >= failedFor]_claimVars
=============================================================================

----------------------------- MODULE WorkerLoop -----------------------------
(***************************************************************************)
(* The worker's loop around one repository's claim: pass after pass it     *)
(* reads deliveries, syncs what is due, sweeps the bin when it is time and *)
(* drains the outbox; a pass that throws is waited out; and the heartbeat  *)
(* is touched at the top of a pass if the one before got all the way       *)
(* round.  The button of the API asks for the same claim.                  *)
(*                                                                         *)
(* A tick is long next to a sleep and to every step but a sync: time       *)
(* passes between two passes, or while a worker syncs.                     *)
(***************************************************************************)
EXTENDS SyncClaim

CONSTANTS Worker,      \* the callers that are workers
          Longest,     \* how long a worker's sync takes at the most, in ticks
          PurgeEvery,  \* PURGE_INTERVAL_MS, in ticks
          HealthyFor,  \* how old a heartbeat the healthcheck takes, in ticks
          MostFaults   \* bound: workers killed and outages

ASSUME WorkerLoopAssumption ==
  /\ Worker \subseteq Syncer
  /\ Longest \in Nat /\ PurgeEvery \in Nat /\ HealthyFor \in Nat /\ MostFaults \in Nat

VARIABLES step,      \* where each worker is in its pass
          late,      \* whether a tick has passed since its last pass
          busy,      \* whether this pass found deliveries
          finished,  \* lastPassFinished
          sweptFor,  \* the age of purge.lastRunAt
          beatFor,   \* the age of the heartbeat file, or Unset
          doneFor,   \* how long ago a pass last finished, or Unset
          waiting,   \* whether events wait in the outbox
          refusing,  \* whether the database refuses every statement
          binRefuses, \* whether the bin holds what cannot be thrown away
          faults

pass == <<step, late, busy, finished>>
ages == <<sweptFor, beatFor, doneFor>>
around == <<waiting, refusing, binRefuses, faults>>
loopVars == <<syncingFor, failedFor, running, step, late, busy, finished, sweptFor, beatFor, doneFor,
              waiting, refusing, binRefuses, faults>>

Step == {"top", "ingest", "sync", "syncing", "sweep", "drain", "resting"}

LoopInit ==
  /\ ClaimInit
  /\ step = [w \in Worker |-> "top"] /\ late = [w \in Worker |-> FALSE]
  /\ busy = [w \in Worker |-> FALSE] /\ finished = [w \in Worker |-> FALSE]
  /\ sweptFor = [w \in Worker |-> PurgeEvery]
  /\ beatFor = [w \in Worker |-> Unset] /\ doneFor = [w \in Worker |-> Unset]
  /\ waiting = FALSE /\ refusing = FALSE /\ binRefuses \in BOOLEAN /\ faults = 0

At(w, here) == step[w] = here

GoTo(w, there) == step' = [step EXCEPT ![w] = there]

(* The catch: reported, and waited out.                                     *)
Throw(w) ==
  /\ GoTo(w, "resting")
  /\ finished' = [finished EXCEPT ![w] = FALSE]
  /\ busy' = [busy EXCEPT ![w] = FALSE]

-----------------------------------------------------------------------------
(* Mutant: the heartbeat says the loop came round, however it went.         *)
BeginPassWithABeat(w) ==
  /\ At(w, "top")
  /\ GoTo(w, "ingest")
  /\ late' = [late EXCEPT ![w] = FALSE]
  /\ beatFor' = [beatFor EXCEPT ![w] = 0]
  /\ UNCHANGED <<claimVars, busy, finished, sweptFor, doneFor, around>>

(* A heartbeat that cannot be written is done without.                      *)
BeginPass(w) ==
  /\ At(w, "top")
  /\ GoTo(w, "ingest")
  /\ late' = [late EXCEPT ![w] = FALSE]
  /\ \/ finished[w] /\ beatFor' = [beatFor EXCEPT ![w] = 0]
     \/ UNCHANGED beatFor
  /\ UNCHANGED <<claimVars, busy, finished, sweptFor, doneFor, around>>

(* A delivery nobody can read is counted with the others.                   *)
Ingest(w) ==
  /\ At(w, "ingest")
  /\ \/ refusing /\ Throw(w)
     \/ /\ ~refusing /\ GoTo(w, "sync")
        /\ \E found \in BOOLEAN : busy' = [busy EXCEPT ![w] = found]
        /\ UNCHANGED finished
  /\ UNCHANGED <<claimVars, late, ages, around>>

(* Nothing is due, another has the claim, or the claim itself was refused,  *)
(* which is caught; a refused reading of what is due is not.                *)
SyncNothing(w) ==
  /\ At(w, "sync")
  /\ \/ refusing /\ Throw(w)
     \/ GoTo(w, "sweep") /\ UNCHANGED <<busy, finished>>
  /\ UNCHANGED <<claimVars, late, ages, around>>

BeginSync(w) ==
  /\ At(w, "sync") /\ ~refusing
  /\ ClaimTheSync(w)
  /\ GoTo(w, "syncing")
  /\ UNCHANGED <<late, busy, finished, ages, around>>

(* It worked, or failed and the pass goes on; when the database does not    *)
(* answer, the claim is left behind.                                        *)
EndSync(w) ==
  /\ At(w, "syncing")
  /\ IF refusing THEN Die(w) ELSE ReleaseTheSync(w) \/ ReleaseTheSyncAsFailed(w)
  /\ GoTo(w, "sweep")
  /\ UNCHANGED <<late, busy, finished, ages, around>>

(* Mutant: the sweep is dated when it is over.                              *)
SweepAndThenDate(w) ==
  /\ At(w, "sweep")
  /\ IF sweptFor[w] < PurgeEvery
     THEN GoTo(w, "drain") /\ UNCHANGED <<busy, finished, sweptFor>>
     ELSE IF refusing \/ binRefuses
          THEN Throw(w) /\ UNCHANGED sweptFor
          ELSE /\ GoTo(w, "drain") /\ UNCHANGED <<busy, finished>>
               /\ sweptFor' = [sweptFor EXCEPT ![w] = 0]
  /\ UNCHANGED <<claimVars, late, beatFor, doneFor, around>>

(* sweepTheBin: dated before it is tried.                                   *)
Sweep(w) ==
  /\ At(w, "sweep")
  /\ IF sweptFor[w] < PurgeEvery
     THEN GoTo(w, "drain") /\ UNCHANGED <<busy, finished, sweptFor>>
     ELSE /\ sweptFor' = [sweptFor EXCEPT ![w] = 0]
          /\ IF refusing \/ binRefuses
             THEN Throw(w)
             ELSE GoTo(w, "drain") /\ UNCHANGED <<busy, finished>>
  /\ UNCHANGED <<claimVars, late, beatFor, doneFor, around>>

(* No sleep after a pass that met anything.                                 *)
Drain(w) ==
  /\ At(w, "drain")
  /\ IF refusing
     THEN Throw(w) /\ UNCHANGED <<doneFor, waiting>>
     ELSE /\ waiting' = FALSE
          /\ finished' = [finished EXCEPT ![w] = TRUE]
          /\ doneFor' = [doneFor EXCEPT ![w] = 0]
          /\ IF busy[w] \/ waiting THEN GoTo(w, "top") ELSE GoTo(w, "resting")
          /\ busy' = [busy EXCEPT ![w] = FALSE]
  /\ UNCHANGED <<claimVars, late, sweptFor, beatFor, refusing, binRefuses, faults>>

Wake(w) ==
  /\ At(w, "resting")
  /\ GoTo(w, "top")
  /\ UNCHANGED <<claimVars, late, busy, finished, ages, around>>

Pass(w) ==
  \/ BeginPass(w) \/ Ingest(w) \/ SyncNothing(w) \/ BeginSync(w) \/ EndSync(w) \/ Sweep(w)
  \/ Drain(w) \/ Wake(w)

(* Started again by the container: it remembers no pass and no sweep, and   *)
(* finds the heartbeat it left.                                             *)
Kill(w) ==
  /\ faults < MostFaults
  /\ faults' = faults + 1
  /\ IF w \in Running THEN Die(w) ELSE UNCHANGED claimVars
  /\ GoTo(w, "top")
  /\ finished' = [finished EXCEPT ![w] = FALSE]
  /\ sweptFor' = [sweptFor EXCEPT ![w] = PurgeEvery]
  /\ busy' = [busy EXCEPT ![w] = FALSE]
  /\ UNCHANGED <<late, beatFor, doneFor, waiting, refusing, binRefuses>>

-----------------------------------------------------------------------------
(* The rest of the install.                                                 *)

Button(s) ==
  /\ \/ ClaimTheSync(s) \/ ReleaseTheSync(s) \/ ReleaseTheSyncAsFailed(s) \/ Die(s)
  /\ UNCHANGED <<pass, ages, around>>

Say ==
  /\ waiting' = TRUE
  /\ UNCHANGED <<claimVars, pass, ages, refusing, binRefuses, faults>>

Outage ==
  /\ faults < MostFaults
  /\ faults' = faults + 1
  /\ refusing' = TRUE
  /\ UNCHANGED <<claimVars, pass, ages, waiting, binRefuses>>

Recover ==
  /\ refusing
  /\ refusing' = FALSE
  /\ UNCHANGED <<claimVars, pass, ages, waiting, binRefuses, faults>>

Later(age, last) == IF age \in 0 .. last - 1 THEN age + 1 ELSE age

TimePasses ==
  /\ Tick
  /\ \A w \in Worker :
       \/ step[w] \in {"resting", "top"} /\ ~late[w]
       \/ At(w, "syncing") /\ running[w] < Longest
  /\ late' = [w \in Worker |-> step[w] \in {"resting", "top"}]
  /\ sweptFor' = [w \in Worker |-> Later(sweptFor[w], PurgeEvery)]
  /\ beatFor' = [w \in Worker |-> Later(beatFor[w], HealthyFor + 2)]
  /\ doneFor' = [w \in Worker |-> Later(doneFor[w], HealthyFor + 2)]
  /\ UNCHANGED <<step, busy, finished, around>>

LoopNext ==
  \/ \E w \in Worker : Pass(w) \/ Kill(w)
  \/ \E s \in Syncer \ Worker : Button(s)
  \/ Say \/ Outage \/ Recover \/ TimePasses

(* The loop goes on for as long as the process does, the database comes     *)
(* back, time passes, and the repository is due again and again, by the     *)
(* clock of its project.                                                    *)
LoopSpec ==
  /\ LoopInit /\ [][LoopNext]_loopVars
  /\ \A w \in Worker : WF_loopVars(Pass(w)) /\ SF_loopVars(BeginSync(w))
  /\ WF_loopVars(Recover)
  /\ SF_loopVars(TimePasses)

-----------------------------------------------------------------------------
LoopTypeOK ==
  /\ ClaimTypeOK
  /\ step \in [Worker -> Step]
  /\ late \in [Worker -> BOOLEAN] /\ busy \in [Worker -> BOOLEAN] /\ finished \in [Worker -> BOOLEAN]
  /\ sweptFor \in [Worker -> 0 .. PurgeEvery]
  /\ beatFor \in [Worker -> {Unset} \union 0 .. HealthyFor + 2]
  /\ doneFor \in [Worker -> {Unset} \union 0 .. HealthyFor + 2]
  /\ waiting \in BOOLEAN /\ refusing \in BOOLEAN /\ binRefuses \in BOOLEAN
  /\ faults \in 0 .. MostFaults
  /\ \A w \in Worker : At(w, "syncing") <=> w \in Running

(* "A loop going round and failing every time is not doing its job": a      *)
(* worker whose heartbeat is young enough for the healthcheck finished a    *)
(* pass no longer than a sleep before it, whatever has been killed, refused *)
(* or swept since.                                                          *)
AHeartbeatMeansWork ==
  \A w \in Worker : beatFor[w] \in 0 .. HealthyFor => doneFor[w] \in 0 .. beatFor[w] + 1

(* "A worker exists to keep going": what is said in the outbox is drained,  *)
(* through outages and restarts, and though every sweep throws for as long  *)
(* as the bin holds something that cannot be thrown away.                   *)
TheOutboxIsDrained == waiting ~> ~waiting
=============================================================================

---------------------------- MODULE SyncSchedule ----------------------------
(***************************************************************************)
(* Which repositories the worker syncs, and when.  On every pass it reads  *)
(* a few connections that are due (the project's clock came round, or the  *)
(* forge has spoken since), leaves out those it saw fail a moment ago, and *)
(* syncs the rest one after another, while the button on a board may sync  *)
(* any of them from another process.  Times are kept as ages, which stop   *)
(* growing once nothing asks how much older they are.                      *)
(***************************************************************************)
EXTENDS Integers, FiniteSets, Sequences, SequencesExt

CONSTANTS Connection,
          Refusing,      \* connections whose sync always fails
          Off,           \* connections whose project has sync_every_seconds null
          NeverSynced,   \* connections whose issues_synced_at is null to begin with
          Every,         \* sync_every_seconds of the others, in ticks
          Backoff,       \* AFTER_A_FAILURE_MS, in ticks
          MostPerPass,   \* MOST_PER_PASS
          Pressed        \* connections somebody presses the button of

ASSUME ScheduleAssumption ==
  /\ Refusing \subseteq Connection /\ Off \subseteq Connection /\ NeverSynced \subseteq Connection
  /\ Every \in Nat /\ Backoff \in Nat
  /\ MostPerPass \in Nat \ {0}
  /\ Pressed \subseteq Connection

VARIABLES syncedFor,  \* the age of issues_synced_at, or Unset
          order,      \* the connections by issues_synced_at, nulls first
          spokeLast,  \* whether forge_spoke_at > issues_synced_at: not if either is null
          failedFor,  \* the age of the failure this worker remembers, or Unset
          pass,       \* the connections this pass has still to sync
          passFor,    \* how long ago it read them
          syncing,    \* who has the connection: "nobody", "worker" or "button"
          unheard     \* the forge has spoken and no sync has begun since

scheduleVars == <<syncedFor, order, spokeLast, failedFor, pass, passFor, syncing, unheard>>

Unset == -1
Longest == IF Every > Backoff THEN Every + 1 ELSE Backoff + 1

Older(age) == IF age \in 0 .. Longest - 1 THEN age + 1 ELSE age

ScheduleInit ==
  /\ syncedFor = [c \in Connection |-> IF c \in NeverSynced THEN Unset ELSE 0]
  /\ order \in {o \in SetToSeqs(Connection) :
                  \A i, j \in DOMAIN o : o[i] \in NeverSynced /\ o[j] \notin NeverSynced => i < j}
  /\ spokeLast = [c \in Connection |-> FALSE]
  /\ failedFor = [c \in Connection |-> Unset]
  /\ pass = {} /\ passFor = 0
  /\ syncing = [c \in Connection |-> "nobody"]
  /\ unheard = [c \in Connection |-> FALSE]

Idle == pass = {} /\ \A c \in Connection : syncing[c] # "worker"

(* A delivery is read, by the same worker between two passes.               *)
ForgeSpeaks(c) ==
  /\ Idle
  /\ spokeLast' = [spokeLast EXCEPT ![c] = syncedFor[c] # Unset]
  /\ unheard' = [unheard EXCEPT ![c] = TRUE]
  /\ UNCHANGED <<syncedFor, order, failedFor, pass, passFor, syncing>>

(* Mutants: only a forge that spoke makes a connection due, or a null is    *)
(* compared like any date.                                                  *)
DueWhenSpokenTo(c) == syncing[c] = "nobody" /\ spokeLast[c]

DueOnceSynced(c) ==
  /\ syncing[c] = "nobody"
  /\ (c \notin Off /\ syncedFor[c] > Every) \/ spokeLast[c]

Due(c) ==
  /\ syncing[c] = "nobody"
  /\ \/ c \notin Off /\ (syncedFor[c] = Unset \/ syncedFor[c] > Every)
     \/ spokeLast[c]

Before(c, d) == \E i, j \in DOMAIN order : i < j /\ order[i] = c /\ order[j] = d

(* Mutant: what has just failed is not left out.                            *)
ReadDueAndFailed ==
  LET due == {c \in Connection : Due(c)}
  IN {c \in due : Cardinality({d \in due : Before(d, c)}) < MostPerPass}

(* The limit is the query's; what has just failed is left out afterwards.   *)
ReadDueProjects ==
  LET due == {c \in Connection : Due(c)}
      read == {c \in due : Cardinality({d \in due : Before(d, c)}) < MostPerPass}
  IN {c \in read : failedFor[c] = Unset \/ failedFor[c] > Backoff}

BeginPass ==
  /\ Idle
  /\ ReadDueProjects # {}
  /\ pass' = ReadDueProjects
  /\ passFor' = 0
  /\ UNCHANGED <<syncedFor, order, spokeLast, failedFor, syncing, unheard>>

(* The claim and the reading of the repository that follows it.             *)
Begin(c, who) ==
  /\ syncing[c] = "nobody"
  /\ syncing' = [syncing EXCEPT ![c] = who]
  /\ unheard' = [unheard EXCEPT ![c] = FALSE]
  /\ UNCHANGED <<syncedFor, order, spokeLast, failedFor, pass, passFor>>

(* The stamp and the release; a sync that throws stamps nothing.            *)
End(c) ==
  /\ syncing' = [syncing EXCEPT ![c] = "nobody"]
  /\ IF c \in Refusing THEN UNCHANGED <<syncedFor, order, spokeLast>>
     ELSE /\ syncedFor' = [syncedFor EXCEPT ![c] = 0]
          /\ order' = Append(RemoveFirst(order, c), c)
          /\ spokeLast' = [spokeLast EXCEPT ![c] = FALSE]
  /\ UNCHANGED <<passFor, unheard>>

WorkerBegins(c) ==
  /\ c \in pass
  /\ \A d \in Connection : syncing[d] # "worker"
  /\ Begin(c, "worker")

(* SyncAlreadyRunning: neither done nor a failure.                          *)
WorkerIsTurnedAway(c) ==
  /\ c \in pass
  /\ syncing[c] = "button"
  /\ pass' = pass \ {c}
  /\ UNCHANGED <<syncedFor, order, spokeLast, failedFor, passFor, syncing, unheard>>

(* A failure is dated by the pass that met it.                              *)
WorkerEnds(c) ==
  /\ syncing[c] = "worker"
  /\ End(c)
  /\ failedFor' = [failedFor EXCEPT ![c] = IF c \in Refusing THEN passFor ELSE Unset]
  /\ pass' = pass \ {c}

ButtonBegins(c) == c \in Pressed /\ Begin(c, "button")

ButtonEnds(c) ==
  /\ syncing[c] = "button"
  /\ End(c)
  /\ UNCHANGED <<failedFor, pass>>

Tick ==
  /\ syncedFor' = [c \in Connection |-> Older(syncedFor[c])]
  /\ failedFor' = [c \in Connection |-> Older(failedFor[c])]
  /\ passFor' = IF Idle THEN 0 ELSE Older(passFor)
  /\ UNCHANGED <<order, spokeLast, pass, syncing, unheard>>

Work ==
  \/ BeginPass
  \/ \E c \in Connection : WorkerBegins(c) \/ WorkerIsTurnedAway(c) \/ WorkerEnds(c)

ScheduleNext ==
  \/ Work
  \/ \E c \in Connection : ForgeSpeaks(c) \/ ButtonBegins(c) \/ ButtonEnds(c)
  \/ Tick

(* Time passes, the worker's loop goes round, and a request that syncs      *)
(* ends.                                                                    *)
ScheduleSpec ==
  /\ ScheduleInit /\ [][ScheduleNext]_scheduleVars
  /\ WF_scheduleVars(Tick) /\ WF_scheduleVars(Work)
  /\ \A c \in Connection : WF_scheduleVars(ButtonEnds(c))

-----------------------------------------------------------------------------

ScheduleTypeOK ==
  /\ syncedFor \in [Connection -> Unset .. Longest]
  /\ order \in Seq(Connection) /\ Len(order) = Cardinality(Connection) /\ ToSet(order) = Connection
  /\ spokeLast \in [Connection -> BOOLEAN]
  /\ failedFor \in [Connection -> Unset .. Longest]
  /\ pass \subseteq Connection /\ passFor \in 0 .. Longest
  /\ syncing \in [Connection -> {"nobody", "worker", "button"}]
  /\ unheard \in [Connection -> BOOLEAN]

(* A repository that refuses is not asked again until the back-off is over, *)
(* however often the worker's loop comes round.                             *)
BackoffIsKept ==
  [][\A c \in Connection :
       syncing[c] # "worker" /\ syncing'[c] = "worker"
         => failedFor[c] = Unset \/ failedFor[c] > Backoff]_scheduleVars

(* "One project nobody can sync must not stop the ones behind it": whatever *)
(* else refuses, a connection with a clock is synced again and again.       *)
HealthyIsSynced ==
  \A c \in Connection \ (Refusing \union Off) : []<>(syncedFor[c] = 0)

(* "A connection the forge has spoken to since its last reconcile is due    *)
(* whatever the clock says, and whatever the setting says": what it said is *)
(* read by a sync that begins afterwards.                                   *)
SpokenIsHeard ==
  \A c \in Connection \ Refusing : unheard[c] ~> ~unheard[c]
=============================================================================

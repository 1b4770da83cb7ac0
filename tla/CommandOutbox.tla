---------------------------- MODULE CommandOutbox ----------------------------
(***************************************************************************)
(* Every write of the server goes through executeCommand: one transaction  *)
(* holding the command_log row, the handler's change and its domain_event  *)
(* rows.  Workers drain those rows with FOR UPDATE SKIP LOCKED and hand     *)
(* each to every consumer.  Callers may send a command again with the same *)
(* id, handlers may throw, connections and workers may die at any step.    *)
(***************************************************************************)
EXTENDS Naturals, FiniteSets

CONSTANTS Command,     \* command ids
          Attempt,     \* requests: one sending of one command
          CommandOf,   \* the command id an attempt carries
          Event,       \* rows a command's handler appends
          OwnerOf,     \* the command that appends an event
          Worker,      \* worker processes
          Consumers,   \* consumers registered with a worker, in order 1 .. Consumers
          BatchSize,   \* rows a drain claims at most (100 in the code)
          MaxCrashes   \* bound: drains that end in a rollback

ASSUME RequestsAssumption ==
  /\ CommandOf \in [Attempt -> Command]
  /\ OwnerOf \in [Event -> Command]

ASSUME DrainAssumption ==
  /\ Consumers \in Nat
  /\ BatchSize \in Nat \ {0}
  /\ MaxCrashes \in Nat

VARIABLES commandLog,  \* committed command_log rows
          writes,      \* how often a command's change is in the database
          request,     \* where each attempt has got to
          opened,      \* when the transaction of an attempt began
          clock,       \* now(): transactions begun so far
          event,       \* a row's state: "none", "waiting" or "processed"
          occurredAt,  \* a row's stamp, now() of its transaction
          batch,       \* the rows a worker's open drain has locked
          tried,       \* the <<event, consumer>> pairs that drain has been through
          offers,      \* how often a pair was handed to its consumer
          crashes      \* drains rolled back so far

requestVars == <<commandLog, writes, request, opened, clock>>
drainVars == <<batch, tried, offers, crashes>>
vars == <<commandLog, writes, request, opened, clock, event, occurredAt,
          batch, tried, offers, crashes>>

Consumer == 1 .. Consumers

EventsOf(c) == {e \in Event : OwnerOf[e] = c}

(* An attempt with a transaction open: its log row is inserted, and nobody  *)
(* else can insert the same key until the transaction ends.                 *)
Open == {"recorded", "ran"}

Succeeded == {"applied", "duplicate"}

RequestState ==
  {"unsent", "sent", "committed", "failed", "lost"} \union Open \union Succeeded

Init ==
  /\ commandLog = {}
  /\ writes = [c \in Command |-> 0]
  /\ request = [a \in Attempt |-> "unsent"]
  /\ opened = [a \in Attempt |-> 0]
  /\ clock = 0
  /\ event = [e \in Event |-> "none"]
  /\ occurredAt = [e \in Event |-> 0]
  /\ batch = [w \in Worker |-> {}]
  /\ tried = [w \in Worker |-> {}]
  /\ offers = [p \in Event \X Consumer |-> 0]
  /\ crashes = 0

-----------------------------------------------------------------------------
(* The request.                                                             *)

To(a, s) == request' = [request EXCEPT ![a] = s]

(* The request arrives and BEGINs: now() is this moment until it ends.      *)
Send(a) ==
  /\ request[a] = "unsent"
  /\ clock' = clock + 1
  /\ opened' = [opened EXCEPT ![a] = clock + 1]
  /\ To(a, "sent")
  /\ UNCHANGED <<commandLog, writes, event, occurredAt, drainVars>>

(* Mutant: a rollback that leaves the advisory hold on its key behind.      *)
KeyHeldByTheFailed(a) ==
  \A b \in Attempt \ {a} :
    CommandOf[b] = CommandOf[a] => request[b] \notin Open \union {"failed"}

(* The primary key makes an insert wait for an open transaction that has    *)
(* inserted the same key, and only then decide.                             *)
KeyIsFree(a) ==
  \A b \in Attempt \ {a} : CommandOf[b] = CommandOf[a] => request[b] \notin Open

Record(a) ==
  /\ request[a] = "sent"
  /\ KeyIsFree(a)
  /\ CommandOf[a] \notin commandLog
  /\ To(a, "recorded")
  /\ UNCHANGED <<commandLog, writes, opened, clock, event, occurredAt, drainVars>>

(* A unique violation on command_log_pkey: answered as a success.           *)
Repeat(a) ==
  /\ request[a] = "sent"
  /\ KeyIsFree(a)
  /\ CommandOf[a] \in commandLog
  /\ To(a, "duplicate")
  /\ UNCHANGED <<commandLog, writes, opened, clock, event, occurredAt, drainVars>>

Run(a) ==
  /\ request[a] = "recorded"
  /\ To(a, "ran")
  /\ UNCHANGED <<commandLog, writes, opened, clock, event, occurredAt, drainVars>>

(* The insert of the key, the handler, the append or the connection throws: *)
(* everything the transaction held is gone, the key included.               *)
Rollback(a) ==
  /\ request[a] \in {"sent"} \union Open
  /\ To(a, "failed")
  /\ UNCHANGED <<commandLog, writes, opened, clock, event, occurredAt, drainVars>>

(* Mutant: the handler commits and the log row is forgotten.                *)
CommitWithoutTheKey(a) ==
  LET c == CommandOf[a] IN
  /\ request[a] = "ran"
  /\ writes' = [writes EXCEPT ![c] = @ + 1]
  /\ event' = [e \in Event |-> IF e \in EventsOf(c) THEN "waiting" ELSE event[e]]
  /\ occurredAt' = [e \in Event |-> IF e \in EventsOf(c) THEN opened[a] ELSE occurredAt[e]]
  /\ To(a, "committed")
  /\ UNCHANGED <<commandLog, opened, clock, drainVars>>

Commit(a) ==
  LET c == CommandOf[a] IN
  /\ request[a] = "ran"
  /\ commandLog' = commandLog \union {c}
  /\ writes' = [writes EXCEPT ![c] = @ + 1]
  /\ event' = [e \in Event |-> IF e \in EventsOf(c) THEN "waiting" ELSE event[e]]
  /\ occurredAt' = [e \in Event |-> IF e \in EventsOf(c) THEN opened[a] ELSE occurredAt[e]]
  /\ To(a, "committed")
  /\ UNCHANGED <<opened, clock, drainVars>>

(* The answer reaches the caller, or it is lost on the way.                 *)
Answer(a) ==
  /\ request[a] = "committed"
  /\ \E s \in {"applied", "lost"} : To(a, s)
  /\ UNCHANGED <<commandLog, writes, opened, clock, event, occurredAt, drainVars>>

-----------------------------------------------------------------------------
(* The drain.                                                               *)

(* Mutant: a claim that does not skip locked rows.                          *)
LockedToo == {e \in Event : event[e] = "waiting"}

Unlocked == {e \in Event : event[e] = "waiting" /\ \A w \in Worker : e \notin batch[w]}

(* The oldest rows nobody has locked, as many as a batch holds.             *)
OldestUnlocked(S) ==
  /\ S \subseteq Unlocked
  /\ S # {}
  /\ Cardinality(S) <= BatchSize
  /\ S # Unlocked => Cardinality(S) = BatchSize
  /\ \A e \in S, f \in Unlocked \ S : occurredAt[e] <= occurredAt[f]

Claim(w) ==
  /\ batch[w] = {}
  /\ \E S \in SUBSET Event :
       /\ OldestUnlocked(S)
       /\ batch' = [batch EXCEPT ![w] = S]
  /\ UNCHANGED <<requestVars, event, occurredAt, tried, offers, crashes>>

(* The batch in order, and for each event the consumers in order.           *)
IsNext(w, e, k) ==
  /\ e \in batch[w]
  /\ <<e, k>> \notin tried[w]
  /\ \A j \in 1 .. k - 1 : <<e, j>> \in tried[w]
  /\ \A f \in batch[w] : occurredAt[f] < occurredAt[e] => {f} \X Consumer \subseteq tried[w]

(* One call of a consumer.  What it throws is caught and reported, so the   *)
(* drain goes on the same way whether the call worked or not.               *)
Handle(w, e, k) ==
  /\ IsNext(w, e, k)
  /\ tried' = [tried EXCEPT ![w] = @ \union {<<e, k>>}]
  /\ offers' = [offers EXCEPT ![<<e, k>>] = @ + 1]
  /\ UNCHANGED <<requestVars, event, occurredAt, batch, crashes>>

MarkProcessed(w) ==
  /\ batch[w] # {}
  /\ batch[w] \X Consumer \subseteq tried[w]
  /\ event' = [e \in Event |-> IF e \in batch[w] THEN "processed" ELSE event[e]]
  /\ batch' = [batch EXCEPT ![w] = {}]
  /\ tried' = [tried EXCEPT ![w] = {}]
  /\ UNCHANGED <<requestVars, occurredAt, offers, crashes>>

(* Mutant: rows taken off the table when claimed, and lost with the worker. *)
CrashLosingTheBatch(w) ==
  /\ batch[w] # {}
  /\ crashes < MaxCrashes
  /\ crashes' = crashes + 1
  /\ event' = [e \in Event |-> IF e \in batch[w] THEN "none" ELSE event[e]]
  /\ batch' = [batch EXCEPT ![w] = {}]
  /\ tried' = [tried EXCEPT ![w] = {}]
  /\ UNCHANGED <<requestVars, occurredAt, offers>>

(* The worker dies or loses its connection: the locks go, and the rows are  *)
(* unprocessed still, whatever the consumers have already been told.        *)
Crash(w) ==
  /\ batch[w] # {}
  /\ crashes < MaxCrashes
  /\ crashes' = crashes + 1
  /\ batch' = [batch EXCEPT ![w] = {}]
  /\ tried' = [tried EXCEPT ![w] = {}]
  /\ UNCHANGED <<requestVars, event, occurredAt, offers>>

-----------------------------------------------------------------------------

Drain(w) == Claim(w) \/ (\E e \in Event, k \in Consumer : Handle(w, e, k)) \/ MarkProcessed(w)

Serve(a) == Record(a) \/ Repeat(a) \/ Run(a) \/ Commit(a) \/ Answer(a)

Next ==
  \/ \E a \in Attempt : Send(a) \/ Serve(a) \/ Rollback(a)
  \/ \E w \in Worker : Drain(w) \/ Crash(w)

(* The API finishes what it has started; each worker's loop comes round     *)
(* again, after a pass that threw too (runOutboxLoop).                      *)
Fairness ==
  /\ \A a \in Attempt : WF_vars(Serve(a))
  /\ \A w \in Worker : WF_vars(Drain(w))

SafeSpec == Init /\ [][Next]_vars

Spec == SafeSpec /\ Fairness

-----------------------------------------------------------------------------
(* Properties.                                                              *)

TypeOK ==
  /\ commandLog \subseteq Command
  /\ writes \in [Command -> Nat]
  /\ request \in [Attempt -> RequestState]
  /\ opened \in [Attempt -> Nat]
  /\ clock \in Nat
  /\ event \in [Event -> {"none", "waiting", "processed"}]
  /\ occurredAt \in [Event -> Nat]
  /\ batch \in [Worker -> SUBSET Event]
  /\ tried \in [Worker -> SUBSET (Event \X Consumer)]
  /\ offers \in [Event \X Consumer -> Nat]
  /\ crashes \in Nat

(* A caller who hears "done", on the first sending or on a repeat, hears it *)
(* of a change that is in the database, once (execute-command.ts).          *)
SuccessMeansWritten ==
  \A a \in Attempt :
    request[a] \in Succeeded =>
      CommandOf[a] \in commandLog /\ writes[CommandOf[a]] = 1

(* No event for a write that never happened, no write nothing downstream    *)
(* hears about, and no write twice (execute-command.ts, its doc comment).   *)
WriteLogAndEventsAgree ==
  \A c \in Command :
    /\ writes[c] = IF c \in commandLog THEN 1 ELSE 0
    /\ \A e \in EventsOf(c) : event[e] # "none" <=> c \in commandLog

(* Two workers never hold the same row, and hold only rows still to be      *)
(* processed (drainDomainEvents: each claims a disjoint batch).             *)
ClaimsAreDisjoint ==
  /\ \A w \in Worker : \A e \in batch[w] : event[e] = "waiting"
  /\ \A v, w \in Worker : v # w => batch[v] \intersect batch[w] = {}

(* A row is marked only after every consumer was handed it, though others   *)
(* threw and drains were lost on the way (fanOutToConsumers).               *)
ProcessedWasOffered ==
  \A e \in Event : event[e] = "processed" => \A k \in Consumer : offers[<<e, k>>] > 0

(* A consumer sees an event again only because a drain was lost: the number *)
(* of drains rolled back bounds the repeats, whatever the workers overlap.  *)
RepeatsNeedACrash ==
  \A p \in Event \X Consumer : offers[p] <= 1 + crashes

(* Nothing follows a mark: a processed row stays processed and is handed to *)
(* nobody again.                                                            *)
ProcessedIsFinal ==
  [][\A e \in Event : event[e] = "processed" =>
       /\ event'[e] = "processed"
       /\ \A k \in Consumer : offers'[<<e, k>>] = offers[<<e, k>>]]_vars

(* Every change somebody made is announced in the end: its rows are all     *)
(* processed, across lost drains (the outbox's whole purpose).              *)
EveryWriteIsAnnounced ==
  \A c \in Command :
    c \in commandLog ~> \A e \in EventsOf(c) : event[e] = "processed"

(* No sending waits for ever on another of the same command.                *)
EverySendingIsAnswered ==
  \A a \in Attempt :
    request[a] = "sent" ~> request[a] \in Succeeded \union {"failed", "lost"}

-----------------------------------------------------------------------------
(* The detailed system implements the abstract promise.                     *)

Promise == INSTANCE CommandsOnce WITH
  effects <- writes,
  told <- {CommandOf[a] : a \in {b \in Attempt : request[b] \in Succeeded}},
  announced <- {e \in Event : event[e] # "none"},
  offered <- {p \in Event \X Consumer : offers[p] > 0},
  settled <- {e \in Event : event[e] = "processed"}

(* Requests, repeats, overlapping workers and crashes add up to commands    *)
(* that happen once and events settled after every consumer had them.       *)
KeepsThePromise == Promise!Spec
=============================================================================

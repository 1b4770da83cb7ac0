---------------------------- MODULE CommandsOnce ----------------------------
(***************************************************************************)
(* What the command log and the outbox promise together, with no attempt,  *)
(* transaction, worker or crash in sight: a command takes effect once, its *)
(* events appear in the same instant, a caller is told of an effect only   *)
(* when there is one, and an event is settled after every consumer had it. *)
(***************************************************************************)
EXTENDS Naturals

CONSTANTS Command,    \* the command ids callers make up
          Event,      \* the domain events those commands append
          Consumers,  \* how many consumers an event is fanned out to
          OwnerOf     \* which command an event belongs to

VARIABLES effects,    \* how often a command's change was made
          told,       \* the commands some caller was told had succeeded
          announced,  \* the events there are
          offered,    \* the <<event, consumer>> pairs that were handed over
          settled     \* the events nobody will hand over again

vars == <<effects, told, announced, offered, settled>>

EventsOf(c) == {e \in Event : OwnerOf[e] = c}

Init ==
  /\ effects = [c \in Command |-> 0]
  /\ told = {}
  /\ announced = {}
  /\ offered = {}
  /\ settled = {}

Apply(c) ==
  /\ effects[c] = 0
  /\ effects' = [effects EXCEPT ![c] = 1]
  /\ announced' = announced \union EventsOf(c)
  /\ UNCHANGED <<told, offered, settled>>

Tell(c) ==
  /\ effects[c] = 1
  /\ told' = told \union {c}
  /\ UNCHANGED <<effects, announced, offered, settled>>

Offer(e, k) ==
  /\ e \in announced \ settled
  /\ offered' = offered \union {<<e, k>>}
  /\ UNCHANGED <<effects, told, announced, settled>>

Settle(S) ==
  /\ S \subseteq announced
  /\ S \X (1 .. Consumers) \subseteq offered
  /\ settled' = settled \union S
  /\ UNCHANGED <<effects, told, announced, offered>>

Next ==
  \/ \E c \in Command : Apply(c) \/ Tell(c)
  \/ \E e \in Event, k \in 1 .. Consumers : Offer(e, k)
  \/ \E S \in SUBSET Event : Settle(S)

Spec == Init /\ [][Next]_vars
=============================================================================

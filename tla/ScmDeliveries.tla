---------------------------- MODULE ScmDeliveries ----------------------------
(***************************************************************************)
(* The deliveries a forge posts to the webhook, kept as they arrive and    *)
(* read by the workers a batch at a time.  The SELECT ... FOR UPDATE that  *)
(* takes a batch runs outside any transaction, so its locks end with it,   *)
(* and each delivery is then read in a transaction of its own.             *)
(***************************************************************************)
EXTENDS Naturals, FiniteSets

CONSTANTS Delivery,    \* what a forge may send
          Link,        \* what a delivery may be about: a commit or a pull request on a card
          LinkOf,      \* the link each delivery says something about
          WantsSync,   \* deliveries that say the issue list has moved
          Poison,      \* deliveries whose reading throws, every time
          Worker,
          BatchSize,   \* DEFAULT_BATCH_SIZE
          MaxCrashes,  \* bound: workers that die with a batch in hand
          Unsaid       \* a link nothing has been said about

ASSUME DeliveryAssumption ==
  /\ LinkOf \in [Delivery -> Link]
  /\ WantsSync \subseteq Delivery /\ Poison \subseteq Delivery
  /\ Unsaid \notin Delivery
  /\ BatchSize \in Nat \ {0} /\ MaxCrashes \in Nat

VARIABLES arrived,    \* received_at of each scm_event_raw row, 0 for none
          storing,    \* the rows whose webhook transaction is still open
          processed,  \* the rows with processed_at
          links,      \* scm_link: the delivery whose words each row holds
          announced,  \* how often each delivery's scm.linked event was appended
          spoke,      \* the deliveries that stamped forge_spoke_at
          batch,      \* what each worker took and has not been through
          crashes

deliveryVars == <<arrived, storing, processed, links, announced, spoke, batch, crashes>>

Arrived == {d \in Delivery : arrived[d] > 0}
Unread == Arrived \ (storing \union processed)

DeliveryInit ==
  /\ arrived = [d \in Delivery |-> 0]
  /\ storing = {}
  /\ processed = {}
  /\ links = [l \in Link |-> Unsaid]
  /\ announced = [d \in Delivery |-> 0]
  /\ spoke = {}
  /\ batch = [w \in Worker |-> {}]
  /\ crashes = 0

(* The webhook begins to store it: received_at is now() of this moment.     *)
Receive(d) ==
  /\ d \notin Arrived
  /\ arrived' = [arrived EXCEPT ![d] = Cardinality(Arrived) + 1]
  /\ storing' = storing \union {d}
  /\ UNCHANGED <<processed, links, announced, spoke, batch, crashes>>

(* It commits and answers.  One that rolls back never came, and the same    *)
(* delivery sent again changes nothing (ON CONFLICT DO NOTHING).            *)
Store(d) ==
  /\ d \in storing
  /\ storing' = storing \ {d}
  /\ UNCHANGED <<arrived, processed, links, announced, spoke, batch, crashes>>

Oldest(S, d) == d \in S /\ \A e \in S : arrived[d] <= arrived[e]

(* The oldest rows not processed and not locked at that moment.             *)
Claimed(locked) ==
  LET free == Unread \ locked
  IN {d \in free : Cardinality({e \in free : arrived[e] < arrived[d]}) < BatchSize}

(* SKIP LOCKED passes over the rows another worker is taking or writing    *)
(* just then, and, as the rows of scm_connection are locked with them, any  *)
(* while a webhook writes there.  A row in hand is locked no more.          *)
MayBeLocked(w) ==
  IF storing # {} THEN Unread ELSE UNION {batch[v] : v \in Worker \ {w}}

ClaimDeliveries(w) ==
  /\ batch[w] = {}
  /\ \E locked \in SUBSET MayBeLocked(w) :
       /\ Claimed(locked) # {}
       /\ batch' = [batch EXCEPT ![w] = Claimed(locked)]
  /\ UNCHANGED <<arrived, storing, processed, links, announced, spoke, crashes>>

Take(w, d) ==
  /\ Oldest(batch[w], d)
  /\ batch' = [batch EXCEPT ![w] = @ \ {d}]

(* The link and the event, unless the key it names is no card's.            *)
Tell(d) ==
  \/ /\ links' = [links EXCEPT ![LinkOf[d]] = d]
     /\ announced' = [announced EXCEPT ![d] = @ + 1]
  \/ UNCHANGED <<links, announced>>

(* Mutant: the mark is a transaction of its own, and may not come.          *)
RecordUnmarked(w, d) ==
  /\ Take(w, d)
  /\ d \notin Poison
  /\ Tell(d)
  /\ spoke' = spoke \union ({d} \intersect WantsSync)
  /\ processed' \in {processed, processed \union {d}}
  /\ UNCHANGED <<arrived, storing, crashes>>

(* One transaction: the link, the announcement, the stamp and the mark.     *)
RecordDelivery(w, d) ==
  /\ Take(w, d)
  /\ d \notin Poison
  /\ Tell(d)
  /\ spoke' = spoke \union ({d} \intersect WantsSync)
  /\ processed' = processed \union {d}
  /\ UNCHANGED <<arrived, storing, crashes>>

(* Mutant: the first that cannot be read ends the batch.                    *)
SkipStopping(w, d) ==
  /\ d \in Poison
  /\ Oldest(batch[w], d)
  /\ batch' = [batch EXCEPT ![w] = {}]
  /\ UNCHANGED <<arrived, storing, processed, links, announced, spoke, crashes>>

(* It throws: reported, rolled back, and still unprocessed.                 *)
SkipDelivery(w, d) ==
  /\ Take(w, d)
  /\ d \in Poison
  /\ UNCHANGED <<arrived, storing, processed, links, announced, spoke, crashes>>

Crash(w) ==
  /\ batch[w] # {}
  /\ crashes < MaxCrashes
  /\ crashes' = crashes + 1
  /\ batch' = [batch EXCEPT ![w] = {}]
  /\ UNCHANGED <<arrived, storing, processed, links, announced, spoke>>

Ingest(w) ==
  ClaimDeliveries(w) \/ \E d \in Delivery : RecordDelivery(w, d) \/ SkipDelivery(w, d)

DeliveryNext ==
  \/ \E d \in Delivery : Receive(d) \/ Store(d)
  \/ \E w \in Worker : Ingest(w) \/ Crash(w)

(* A webhook's transaction ends, and the worker's loop comes round again,   *)
(* whatever a pass met.                                                     *)
DeliverySpec ==
  /\ DeliveryInit /\ [][DeliveryNext]_deliveryVars
  /\ \A d \in Delivery : WF_deliveryVars(Store(d))
  /\ \A w \in Worker : WF_deliveryVars(Ingest(w))

-----------------------------------------------------------------------------

DeliveryTypeOK ==
  /\ arrived \in [Delivery -> 0 .. Cardinality(Delivery)]
  /\ storing \subseteq Arrived
  /\ processed \subseteq Arrived \ (Poison \union storing)
  /\ links \in [Link -> Delivery \union {Unsaid}]
  /\ announced \in [Delivery -> Nat]
  /\ spoke \subseteq processed
  /\ batch \in [Worker -> SUBSET (Arrived \ storing)]
  /\ crashes \in 0 .. MaxCrashes

(* "Two workers drain the same queue without both reading the same          *)
(* delivery" (claimDeliveries).                                             *)
ReadByOneWorker ==
  \A v, w \in Worker : v # w => batch[v] \intersect batch[w] = {}

(* A card is told of a delivery once, whatever crashed on the way: the mark *)
(* commits with the event.                                                  *)
AnnouncedOnce == \A d \in Delivery : announced[d] <= 1

(* "One delivery nobody can read must not stop the ones behind it"          *)
(* (ingestScmDeliveries).                                                   *)
EveryDeliveryIsRead ==
  \A d \in Delivery \ Poison : d \in Arrived ~> d \in processed
=============================================================================

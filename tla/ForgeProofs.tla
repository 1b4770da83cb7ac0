----------------------------- MODULE ForgeProofs -----------------------------
(***************************************************************************)
(* Proofs about what comes from the forge: when its repositories are asked *)
(* (SyncSchedule), its deliveries (ScmDeliveries) and its releases         *)
(* (Releases).  The three keep apart, each with variables of its own.      *)
(***************************************************************************)
EXTENDS SyncSchedule, ScmDeliveries, Releases, SequenceTheorems, FiniteInduction

-----------------------------------------------------------------------------
(* The schedule, for any connections, any clock, any back-off and any limit *)
(* of a pass.                                                               *)

MayBeAsked(c) == failedFor[c] = Unset \/ failedFor[c] > Backoff

(* A pass was read when nothing in it was being backed off from, and until  *)
(* a connection's turn comes only time passes for it: the failures noted    *)
(* meanwhile are of connections that have left the pass.                    *)
PassMayBeAsked ==
  /\ failedFor \in [Connection -> Unset .. Longest]
  /\ passFor \in 0 .. Longest
  /\ pass \subseteq Connection
  /\ \A c \in pass : MayBeAsked(c)

LEMMA LongestIsLongEnough == Longest \in Nat /\ Longest > Backoff /\ Backoff \in Nat
  BY ScheduleAssumption DEF Longest

LEMMA PassIsKept ==
  ASSUME PassMayBeAsked, [ScheduleNext]_scheduleVars
  PROVE  PassMayBeAsked'
<1> USE LongestIsLongEnough DEF PassMayBeAsked, MayBeAsked, Unset
<1>1. ASSUME BeginPass PROVE PassMayBeAsked'
  BY <1>1 DEF BeginPass, ReadDueProjects
<1>2. ASSUME NEW c \in Connection,
             WorkerBegins(c) \/ ButtonBegins(c) \/ WorkerIsTurnedAway(c) \/ ForgeSpeaks(c)
      PROVE  PassMayBeAsked'
  BY <1>2 DEF WorkerBegins, ButtonBegins, Begin, WorkerIsTurnedAway, ForgeSpeaks
<1>3. ASSUME NEW c \in Connection, WorkerEnds(c) PROVE PassMayBeAsked'
  BY <1>3 DEF WorkerEnds, End
<1>4. ASSUME NEW c \in Connection, ButtonEnds(c) PROVE PassMayBeAsked'
  BY <1>4 DEF ButtonEnds, End
<1>5. ASSUME Tick PROVE PassMayBeAsked'
  BY <1>5 DEF Tick, Older
<1>6. CASE UNCHANGED scheduleVars
  BY <1>6 DEF scheduleVars
<1> QED
  BY <1>1, <1>2, <1>3, <1>4, <1>5, <1>6 DEF ScheduleNext, Work

(* Only a connection of the pass comes into the worker's hands.             *)
LEMMA WorkerTakesFromThePass ==
  ASSUME ScheduleNext, NEW c \in Connection, syncing[c] # "worker", syncing'[c] = "worker",
         syncing \in [Connection -> {"nobody", "worker", "button"}]
  PROVE  c \in pass
<1>1. ASSUME NEW d \in Connection, WorkerBegins(d) PROVE c \in pass
  BY <1>1 DEF WorkerBegins, Begin
<1>2. ASSUME NEW d \in Connection, ButtonBegins(d) PROVE FALSE
  BY <1>2 DEF ButtonBegins, Begin
<1>3. ASSUME NEW d \in Connection, WorkerEnds(d) \/ ButtonEnds(d) PROVE FALSE
  BY <1>3 DEF WorkerEnds, ButtonEnds, End
<1>4. ASSUME UNCHANGED syncing PROVE FALSE
  BY <1>4
<1> QED
  BY <1>1, <1>2, <1>3, <1>4 DEF ScheduleNext, Work, BeginPass, WorkerIsTurnedAway, ForgeSpeaks, Tick

LEMMA HandsAreTyped ==
  ASSUME syncing \in [Connection -> {"nobody", "worker", "button"}], [ScheduleNext]_scheduleVars
  PROVE  syncing' \in [Connection -> {"nobody", "worker", "button"}]
  BY DEF ScheduleNext, Work, BeginPass, WorkerBegins, ButtonBegins, Begin, WorkerEnds, ButtonEnds, End,
         WorkerIsTurnedAway, ForgeSpeaks, Tick, scheduleVars

(* A repository that refuses is left alone until the back-off is over,      *)
(* whoever presses its button meanwhile and however often the loop comes    *)
(* round (SyncSchedule.BackoffIsKept).                                      *)
THEOREM BackoffIsRespected == ScheduleSpec => BackoffIsKept
<1> DEFINE Typed == syncing \in [Connection -> {"nobody", "worker", "button"}]
           Kept == \A c \in Connection :
                     syncing[c] # "worker" /\ syncing'[c] = "worker" => MayBeAsked(c)
<1>1. ScheduleInit => PassMayBeAsked /\ Typed
  BY LongestIsLongEnough DEF ScheduleInit, PassMayBeAsked, Unset
<1>2. PassMayBeAsked /\ Typed /\ [ScheduleNext]_scheduleVars => PassMayBeAsked' /\ Typed'
  BY PassIsKept, HandsAreTyped
<1>3. PassMayBeAsked /\ Typed /\ [ScheduleNext]_scheduleVars => [Kept]_scheduleVars
  BY WorkerTakesFromThePass DEF PassMayBeAsked
<1>4. BackoffIsKept <=> [][Kept]_scheduleVars
  BY PTL DEF BackoffIsKept, MayBeAsked
<1> QED
  BY <1>1, <1>2, <1>3, <1>4, PTL DEF ScheduleSpec

(* The order of the connections, with one put last.                         *)

LEMMA OneTakenOut ==
  ASSUME NEW Thing, NEW s \in Seq(Thing), NEW k \in 1 .. Len(s)
  PROVE  LET u == RemoveAt(s, k) IN
         /\ u \in Seq(Thing) /\ Len(u) = Len(s) - 1
         /\ \A i \in 1 .. Len(s) : i # k => \E j \in 1 .. Len(s) - 1 : u[j] = s[i]
<1> DEFINE front == SubSeq(s, 1, k - 1)
           back == SubSeq(s, k + 1, Len(s))
<1>1. Len(s) \in Nat /\ \A i \in 1 .. Len(s) : s[i] \in Thing
  OBVIOUS
<1>2. /\ front \in Seq(Thing) /\ Len(front) = k - 1
      /\ \A i \in 1 .. k - 1 : front[i] = s[i]
  <2>1. \A i \in 1 .. k - 1 : s[i] \in Thing
    BY <1>1
  <2> QED
    BY <1>1, <2>1, SubSeqProperties, Z3
<1>3. /\ back \in Seq(Thing) /\ Len(back) = Len(s) - k
      /\ \A i \in 1 .. Len(s) - k : back[i] = s[k + i]
  <2>1. \A i \in k + 1 .. Len(s) : s[i] \in Thing
    BY <1>1
  <2> QED
    BY <1>1, <2>1, SubSeqProperties, Z3
<1> HIDE DEF front, back
<1>4. RemoveAt(s, k) = front \o back
  BY DEF RemoveAt, front, back
<1> DEFINE u == front \o back
<1>5. /\ u \in Seq(Thing) /\ Len(u) = Len(front) + Len(back)
      /\ \A j \in 1 .. Len(front) + Len(back) : u[j] = IF j <= Len(front) THEN front[j] ELSE back[j - Len(front)]
  BY <1>2, <1>3, ConcatProperties
<1> HIDE DEF u
<1>6. Len(u) = Len(s) - 1
  BY <1>1, <1>2, <1>3, <1>5
<1>7. ASSUME NEW i \in 1 .. Len(s), i # k PROVE \E j \in 1 .. Len(s) - 1 : u[j] = s[i]
  <2>1. CASE i < k
    <3>1. i \in 1 .. Len(s) - 1 /\ i \in 1 .. Len(front) + Len(back) /\ i <= Len(front) /\ i \in 1 .. k - 1
      BY <1>1, <1>2, <1>3, <2>1
    <3> QED
      BY <1>2, <1>5, <3>1
  <2>2. CASE i > k
    <3>1. /\ i - 1 \in 1 .. Len(s) - 1 /\ i - 1 \in 1 .. Len(front) + Len(back) /\ ~(i - 1 <= Len(front))
          /\ i - 1 - Len(front) = i - k /\ i - k \in 1 .. Len(s) - k /\ k + (i - k) = i
      BY <1>1, <1>2, <1>3, <2>2
    <3>2. u[i - 1] = back[i - k]
      BY <1>5, <3>1
    <3> QED
      BY <1>3, <3>1, <3>2
  <2> QED
    BY <1>1, <1>7, <2>1, <2>2
<1>8. RemoveAt(s, k) = u
  BY <1>4 DEF u
<1> QED
  BY <1>5, <1>6, <1>7, <1>8

(* Every connection is in the order, and only once.                         *)
InOrderOnce(o) == o \in Seq(Connection) /\ Len(o) = Cardinality(Connection) /\ ToSet(o) = Connection

LEMMA FirstOrder ==
  ASSUME IsFiniteSet(Connection), NEW o \in SetToSeqs(Connection)
  PROVE  InOrderOnce(o)
<1> DEFINE n == Cardinality(Connection)
<1>1. n \in Nat
  BY FS_CardinalityType
<1>2. o \in [1 .. n -> Connection] /\ \A i, j \in 1 .. n : i # j => o[i] # o[j]
  BY DEF SetToSeqs
<1> HIDE DEF n
<1>3. o \in Seq(Connection) /\ Len(o) = n
  BY <1>1, <1>2, LenProperties
<1>4. \A c \in Connection : \E i \in 1 .. n : o[i] = c
  <2>1. IsFiniteSet(1 .. n) /\ Cardinality(1 .. n) = n
    BY <1>1, FS_Interval
  <2>2. o \in Injection(1 .. n, Connection)
    BY <1>2 DEF Injection, IsInjective
  <2>3. o \in Surjection(1 .. n, Connection)
    BY <1>1, <2>1, <2>2, FS_Injection DEF n
  <2> QED
    BY <2>3 DEF Surjection
<1> QED
  BY <1>2, <1>3, <1>4 DEF InOrderOnce, ToSet, n

(* The place a connection is found at.                                      *)
LEMMA FoundInOrder ==
  ASSUME NEW o, InOrderOnce(o), NEW c \in Connection
  PROVE  \E k \in 1 .. Len(o) : o[k] = c /\ RemoveFirst(o, c) = RemoveAt(o, k)
<1> DEFINE I == {i \in 1 .. Len(o) : o[i] = c}
           k == SelectInSeq(o, LAMBDA v : v = c)
<1>1. \E i \in 1 .. Len(o) : o[i] = c
  BY DEF InOrderOnce, ToSet
<1>2. RemoveFirst(o, c) = RemoveAt(o, k)
  BY <1>1 DEF RemoveFirst
<1>3. k = IF I # {} THEN Min(I) ELSE 0
  BY DEF SelectInSeq
<1>4. I # {} /\ I \in SUBSET Nat /\ \A i \in I : i \in 1 .. Len(o) /\ o[i] = c
  BY <1>1
<1> HIDE DEF I, k
<1>5. Min(I) \in I
  BY <1>4, LeastNumber DEF Min
<1> QED
  BY <1>2, <1>3, <1>4, <1>5

LEMMA PutLast ==
  ASSUME IsFiniteSet(Connection), NEW o, InOrderOnce(o), NEW c \in Connection
  PROVE  InOrderOnce(Append(RemoveFirst(o, c), c))
<1>1. PICK k \in 1 .. Len(o) : o[k] = c /\ RemoveFirst(o, c) = RemoveAt(o, k)
  BY FoundInOrder
<1> DEFINE u == RemoveAt(o, k)
           p == Append(u, c)
<1>2. o \in Seq(Connection) /\ Len(o) \in Nat /\ Len(o) = Cardinality(Connection) /\ ToSet(o) = Connection
  BY DEF InOrderOnce
<1>3. /\ u \in Seq(Connection) /\ Len(u) = Len(o) - 1
      /\ \A i \in 1 .. Len(o) : i # k => \E j \in 1 .. Len(o) - 1 : u[j] = o[i]
  BY <1>2, OneTakenOut
<1> HIDE DEF u
<1>4. /\ p \in Seq(Connection) /\ Len(p) = Len(o) /\ DOMAIN p = 1 .. Len(o)
      /\ p[Len(o)] = c /\ \A j \in 1 .. Len(o) - 1 : p[j] = u[j]
  BY <1>2, <1>3, AppendProperties
<1> HIDE DEF p
<1>5. ASSUME NEW d \in Connection PROVE \E j \in 1 .. Len(o) : p[j] = d
  <2>1. PICK i \in 1 .. Len(o) : o[i] = d
    BY <1>2 DEF ToSet
  <2>2. CASE i = k
    <3>1. Len(o) \in 1 .. Len(o) /\ p[Len(o)] = d
      BY <1>1, <1>2, <1>4, <2>1, <2>2
    <3> QED
      BY <3>1
  <2>3. CASE i # k
    <3>1. PICK j \in 1 .. Len(o) - 1 : u[j] = o[i]
      BY <1>3, <2>3
    <3>2. j \in 1 .. Len(o)
      BY <1>2
    <3> QED
      BY <1>4, <2>1, <3>1, <3>2
  <2> QED
    BY <2>2, <2>3
<1>6. ToSet(p) = Connection
  BY <1>4, <1>5 DEF ToSet
<1> QED
  BY <1>1, <1>2, <1>4, <1>6 DEF InOrderOnce, p, u

(* Type correctness of every behaviour, for any finite set of connections:  *)
(* the worker's order by issues_synced_at keeps each of them once           *)
(* (SyncSchedule.ScheduleTypeOK).                                           *)
THEOREM TheScheduleIsTyped ==
  ASSUME IsFiniteSet(Connection)
  PROVE  ScheduleSpec => []ScheduleTypeOK
<1>1. ScheduleInit => ScheduleTypeOK
  <2> SUFFICES ASSUME ScheduleInit PROVE ScheduleTypeOK
    OBVIOUS
  <2>1. InOrderOnce(order)
    BY FirstOrder DEF ScheduleInit
  <2> QED
    BY <2>1, LongestIsLongEnough DEF ScheduleInit, ScheduleTypeOK, InOrderOnce, Unset
<1>2. ScheduleTypeOK /\ [ScheduleNext]_scheduleVars => ScheduleTypeOK'
  <2> SUFFICES ASSUME ScheduleTypeOK, [ScheduleNext]_scheduleVars PROVE ScheduleTypeOK'
    OBVIOUS
  <2> USE LongestIsLongEnough DEF ScheduleTypeOK, Unset
  <2>1. ASSUME BeginPass PROVE ScheduleTypeOK'
    BY <2>1 DEF BeginPass, ReadDueProjects
  <2>2. ASSUME NEW c \in Connection,
               WorkerBegins(c) \/ ButtonBegins(c) \/ WorkerIsTurnedAway(c) \/ ForgeSpeaks(c)
        PROVE  ScheduleTypeOK'
    BY <2>2 DEF WorkerBegins, ButtonBegins, Begin, WorkerIsTurnedAway, ForgeSpeaks
  <2>3. ASSUME NEW c \in Connection, End(c)
        PROVE  /\ syncedFor' \in [Connection -> Unset .. Longest] /\ InOrderOnce(order)'
               /\ spokeLast' \in [Connection -> BOOLEAN]
               /\ syncing' \in [Connection -> {"nobody", "worker", "button"}]
               /\ passFor' \in 0 .. Longest /\ unheard' \in [Connection -> BOOLEAN]
    <3>1. InOrderOnce(order)'
      <4>1. InOrderOnce(Append(RemoveFirst(order, c), c)) /\ InOrderOnce(order)
        BY PutLast DEF InOrderOnce
      <4> QED
        BY <2>3, <4>1 DEF End, InOrderOnce
    <3>2. 0 \in Unset .. Longest
      OBVIOUS
    <3>3. syncedFor' \in [Connection -> Unset .. Longest]
      <4>1. CASE c \in Refusing
        BY <2>3, <4>1 DEF End
      <4>2. CASE c \notin Refusing
        BY <2>3, <3>2, <4>2 DEF End
      <4> QED
        BY <4>1, <4>2
    <3>4. spokeLast' \in [Connection -> BOOLEAN]
      BY <2>3, Zenon DEF End
    <3>5. /\ syncing' \in [Connection -> {"nobody", "worker", "button"}]
          /\ passFor' \in 0 .. Longest /\ unheard' \in [Connection -> BOOLEAN]
      BY <2>3 DEF End
    <3> QED
      BY <3>1, <3>3, <3>4, <3>5
  <2>4. ASSUME NEW c \in Connection, WorkerEnds(c) PROVE ScheduleTypeOK'
    BY <2>3, <2>4 DEF WorkerEnds, InOrderOnce
  <2>5. ASSUME NEW c \in Connection, ButtonEnds(c) PROVE ScheduleTypeOK'
    BY <2>3, <2>5 DEF ButtonEnds, InOrderOnce
  <2>6. ASSUME Tick PROVE ScheduleTypeOK'
    BY <2>6 DEF Tick, Older
  <2>7. CASE UNCHANGED scheduleVars
    BY <2>7 DEF scheduleVars
  <2> QED
    BY <2>1, <2>2, <2>4, <2>5, <2>6, <2>7 DEF ScheduleNext, Work
<1> QED
  BY <1>1, <1>2, PTL DEF ScheduleSpec

-----------------------------------------------------------------------------
(* Deliveries, for any of them, any batch size and any number of crashes,   *)
(* with one worker where the property asks for it.                          *)

(* A new delivery is numbered after those there are, which is a number no   *)
(* larger than that of all there may be.                                    *)
LEMMA NextNumber ==
  ASSUME IsFiniteSet(Delivery), NEW d \in Delivery, d \notin Arrived
  PROVE  Cardinality(Arrived) + 1 \in 1 .. Cardinality(Delivery)
<1>1. Arrived \union {d} \subseteq Delivery /\ IsFiniteSet(Arrived)
  BY FS_Subset DEF Arrived
<1>2. Cardinality(Arrived \union {d}) = Cardinality(Arrived) + 1
  BY <1>1, FS_AddElement
<1>3. Cardinality(Arrived \union {d}) <= Cardinality(Delivery)
  BY <1>1, FS_Subset
<1> QED
  BY <1>1, <1>2, <1>3, FS_CardinalityType

(* Each action keeps its part of the type: a worker holds, and marks, only  *)
(* what has been received and stored.                                       *)
LEMMA DeliveryTypeStep ==
  ASSUME IsFiniteSet(Delivery), DeliveryTypeOK, [DeliveryNext]_deliveryVars
  PROVE  DeliveryTypeOK'
<1> USE DeliveryAssumption DEF DeliveryTypeOK
<1>1. ASSUME NEW d \in Delivery, Receive(d) PROVE DeliveryTypeOK'
  <2> DEFINE n == Cardinality(Arrived) + 1
  <2>1. n \in 1 .. Cardinality(Delivery) /\ Cardinality(Delivery) \in Nat
    BY <1>1, NextNumber, FS_CardinalityType DEF Receive
  <2>2. arrived' = [arrived EXCEPT ![d] = n]
    BY <1>1 DEF Receive
  <2> HIDE DEF n
  <2>3. arrived' \in [Delivery -> 0 .. Cardinality(Delivery)]
    BY <2>1, <2>2
  <2>4. Arrived' = Arrived \union {d}
    BY <2>1, <2>2 DEF Arrived
  <2> QED
    BY <1>1, <2>3, <2>4 DEF Receive
<1>2. ASSUME NEW d \in Delivery, Store(d) PROVE DeliveryTypeOK'
  BY <1>2 DEF Store, Arrived
<1>3. ASSUME NEW w \in Worker, ClaimDeliveries(w) PROVE DeliveryTypeOK'
  BY <1>3 DEF ClaimDeliveries, Claimed, Unread, Arrived
<1>4. ASSUME NEW w \in Worker, NEW d \in Delivery, RecordDelivery(w, d) PROVE DeliveryTypeOK'
  BY <1>4 DEF RecordDelivery, Tell, Take, Oldest, Arrived
<1>5. ASSUME NEW w \in Worker, NEW d \in Delivery, SkipDelivery(w, d) PROVE DeliveryTypeOK'
  BY <1>5 DEF SkipDelivery, Take, Arrived
<1>6. ASSUME NEW w \in Worker, Crash(w) PROVE DeliveryTypeOK'
  BY <1>6 DEF Crash, Arrived
<1>7. CASE UNCHANGED deliveryVars
  BY <1>7 DEF deliveryVars, Arrived
<1> QED
  BY <1>1, <1>2, <1>3, <1>4, <1>5, <1>6, <1>7 DEF DeliveryNext, Ingest

(* Type correctness of every behaviour, whatever finite set of deliveries   *)
(* the forge may send and however many workers read them                    *)
(* (ScmDeliveries.DeliveryTypeOK).                                          *)
THEOREM DeliveriesAreTyped ==
  ASSUME IsFiniteSet(Delivery)
  PROVE  DeliverySpec => []DeliveryTypeOK
<1>1. DeliveryInit => DeliveryTypeOK
  BY DeliveryAssumption, FS_CardinalityType DEF DeliveryInit, DeliveryTypeOK, Arrived
<1>2. DeliveryTypeOK /\ [DeliveryNext]_deliveryVars => DeliveryTypeOK'
  BY DeliveryTypeStep
<1> QED
  BY <1>1, <1>2, PTL DEF DeliverySpec

-----------------------------------------------------------------------------

OneWorker == \A v, w \in Worker : v = w

(* The event and the mark are one transaction, so a delivery is announced   *)
(* when it is marked, or never, and not before; and what a worker holds is  *)
(* not marked yet, which only a second worker could make untrue.            *)
AnnouncedWhenMarked ==
  /\ announced \in [Delivery -> Nat]
  /\ \A d \in Delivery : announced[d] <= IF d \in processed THEN 1 ELSE 0
  /\ batch \in [Worker -> SUBSET (Delivery \ processed)]

(* The claim takes only unmarked rows, and marking takes a row from the     *)
(* hand of the only worker there is.                                        *)
LEMMA MarkAndEventAreOne ==
  ASSUME OneWorker, AnnouncedWhenMarked, [DeliveryNext]_deliveryVars
  PROVE  AnnouncedWhenMarked'
<1> USE DEF AnnouncedWhenMarked
<1>1. ASSUME NEW d \in Delivery, Receive(d) \/ Store(d) PROVE AnnouncedWhenMarked'
  BY <1>1 DEF Receive, Store
<1>2. ASSUME NEW w \in Worker, ClaimDeliveries(w) PROVE AnnouncedWhenMarked'
  BY <1>2 DEF ClaimDeliveries, Claimed, Unread, Arrived
<1>3. ASSUME NEW w \in Worker, NEW d \in Delivery, RecordDelivery(w, d)
      PROVE AnnouncedWhenMarked'
  <2>1. d \in batch[w] /\ batch' = [batch EXCEPT ![w] = @ \ {d}]
    BY <1>3 DEF RecordDelivery, Take, Oldest
  <2>2. /\ processed' = processed \union {d}
        /\ announced' = [announced EXCEPT ![d] = @ + 1] \/ announced' = announced
    BY <1>3 DEF RecordDelivery, Tell
  <2>3. /\ announced' \in [Delivery -> Nat]
        /\ \A e \in Delivery : announced'[e] <= IF e \in processed' THEN 1 ELSE 0
    BY <2>1, <2>2
  <2>4. batch' \in [Worker -> SUBSET (Delivery \ processed')]
    BY <2>1, <2>2 DEF OneWorker
  <2> QED
    BY <2>2, <2>3, <2>4
<1>4. ASSUME NEW w \in Worker, NEW d \in Delivery, SkipDelivery(w, d)
      PROVE AnnouncedWhenMarked'
  BY <1>4 DEF SkipDelivery, Take
<1>5. ASSUME NEW w \in Worker, Crash(w) PROVE AnnouncedWhenMarked'
  BY <1>5 DEF Crash
<1>6. CASE UNCHANGED deliveryVars
  BY <1>6 DEF deliveryVars
<1> QED
  BY <1>1, <1>2, <1>3, <1>4, <1>5, <1>6 DEF DeliveryNext, Ingest

(* Where one worker reads the queue, no delivery is announced twice, however *)
(* often that worker dies with a batch in hand (ScmDeliveries.AnnouncedOnce). *)
THEOREM NoneIsAnnouncedTwice ==
  ASSUME OneWorker
  PROVE  DeliverySpec => []AnnouncedOnce
<1>1. DeliveryInit => AnnouncedWhenMarked
  BY DEF DeliveryInit, AnnouncedWhenMarked
<1>2. AnnouncedWhenMarked /\ [DeliveryNext]_deliveryVars => AnnouncedWhenMarked'
  BY MarkAndEventAreOne
<1>3. AnnouncedWhenMarked => AnnouncedOnce
  BY DEF AnnouncedWhenMarked, AnnouncedOnce
<1> QED
  BY <1>1, <1>2, <1>3, PTL DEF DeliverySpec

-----------------------------------------------------------------------------
(* Releases, for any forge, any page and any people syncing at once.        *)

Row == Says(Issued \union {Hand})
Slot == Row \union {Nothing}
Half == [rows : [Release -> Slot] \union {Refused}, added : SUBSET Tag]

(* The row a release of the forge has, if it has one.                       *)
Mine(f) == {r \in Held(rows) : rows[r].from = f}

(* What the rows are when a sync's transaction begins.                      *)
RowsFit == rows \in [Release -> Slot] /\ binned \in [Release -> Slot] /\ Fits(rows)

LEMMA OneOfThePage ==
  ASSUME NEW page, IsAPage(page), NEW f \in DOMAIN page
  PROVE  /\ AsTheForgeSays(page, f) \in Row /\ AsTheForgeSays(page, f) # Nothing
         /\ AsTheForgeSays(page, f).from = f /\ AsTheForgeSays(page, f).tag = page[f].tag
         /\ page[f].tag \in Tag /\ f \in Issued /\ f # Hand
  BY ReleasesAssumption DEF AsTheForgeSays, IsAPage, Row, Says

(* Where a release has a row, it has one.                                   *)
LEMMA OneRowOfEach ==
  ASSUME RowsFit, NEW f \in Issued, NEW r \in Mine(f)
  PROVE  Mine(f) = {r} /\ r \in Held(rows) /\ rows[r].from = f
  BY ReleasesAssumption DEF RowsFit, Mine, Fits

(* What writing one release of the page may do, and why it may be refused.  *)
Refreshes(page, w, f, r, v) ==
  /\ r \in Mine(f)
  /\ LET rs == [w.rows EXCEPT ![r] = AsTheForgeSays(page, f)] IN
     \/ Fits(rs) /\ v.rows = rs /\ v.added = w.added
     \/ ~Fits(rs) /\ v.rows = Refused

Leaves(page, w, f, v) ==
  /\ Mine(f) = {}
  /\ \/ \E s \in Held(rows) : rows[s].tag = page[f].tag /\ rows[s].from = Hand
     \/ page[f].tag \in w.added
  /\ v = w

IsNew(page, w, f) ==
  /\ Mine(f) = {}
  /\ \/ page[f].tag \notin w.added /\ \A s \in Held(rows) : rows[s].tag # page[f].tag
     \/ \E s \in Held(rows) : rows[s].tag = page[f].tag /\ rows[s].from # Hand

Adds(page, w, f, r, v) ==
  /\ IsNew(page, w, f)
  /\ r \in Free /\ w.rows[r] = Nothing
  /\ LET rs == [w.rows EXCEPT ![r] = AsTheForgeSays(page, f)] IN
     \/ Fits(rs) /\ v.rows = rs /\ v.added = w.added \union {page[f].tag}
     \/ ~Fits(rs) /\ v.rows = Refused

FindsNoRow(page, w, f, v) ==
  /\ IsNew(page, w, f)
  /\ \A r \in Free : w.rows[r] # Nothing
  /\ v.rows = Refused

LEMMA WritingOne ==
  ASSUME RowsFit, NEW page, IsAPage(page), NEW f \in DOMAIN page,
         NEW w \in Half
  PROVE  LET v == WriteOne(rows, page, w, f) IN
         /\ v \in Half
         /\ w.rows = Refused => v = w
         /\ w.rows # Refused =>
              \/ \E r \in Release : Refreshes(page, w, f, r, v) \/ Adds(page, w, f, r, v)
              \/ Leaves(page, w, f, v) \/ FindsNoRow(page, w, f, v)
<1> DEFINE as == AsTheForgeSays(page, f)
           free == {r \in Free : w.rows[r] = Nothing}
           held == \E s \in Held(rows) : rows[s].tag = page[f].tag /\ rows[s].from = Hand
           taken == page[f].tag \in (Tags(rows, Issued \union {Hand}) \union w.added) \ Tags(rows, Issued)
           v == WriteOne(rows, page, w, f)
<1>1. as \in Row /\ page[f].tag \in Tag
  BY OneOfThePage
<1>2. \A r \in Held(rows) : rows[r].from \in Issued \union {Hand}
  BY DEF RowsFit, Held, Slot, Row, Says
<1>3. v = IF w.rows = Refused THEN w
          ELSE IF Mine(f) # {} THEN Put(w, CHOOSE r \in Mine(f) : TRUE, as, {})
          ELSE IF taken THEN w
          ELSE IF free = {} THEN [w EXCEPT !.rows = Refused]
          ELSE Put(w, CHOOSE r \in free : TRUE, as, {page[f].tag})
  BY DEF WriteOne, Mine
<1>4. CASE w.rows = Refused
  BY <1>3, <1>4
<1>5. CASE w.rows # Refused
  <2>1. /\ w.rows \in [Release -> Slot] /\ w.added \in SUBSET Tag
        /\ [w EXCEPT !.rows = Refused] \in Half /\ [w EXCEPT !.rows = Refused].rows = Refused
    BY <1>5 DEF Half
  <2>2. ASSUME NEW r \in Release, NEW more \in SUBSET Tag
        PROVE  LET p == Put(w, r, as, more)
                   rs == [w.rows EXCEPT ![r] = as]
               IN /\ p \in Half
                  /\ \/ Fits(rs) /\ p.rows = rs /\ p.added = w.added \union more
                     \/ ~Fits(rs) /\ p.rows = Refused
    <3>1. [w.rows EXCEPT ![r] = as] \in [Release -> Slot]
      BY <1>1, <2>1 DEF Slot
    <3> HIDE DEF as
    <3> QED
      BY <2>1, <3>1 DEF Put, Half
  <2>3. CASE Mine(f) # {}
    <3>1. PICK r \in Mine(f) : v = Put(w, r, as, {})
      BY <1>3, <1>5, <2>3
    <3>2. r \in Release
      BY <3>1 DEF Mine, Held
    <3> HIDE DEF v, as
    <3>3. v \in Half /\ LET rs == [w.rows EXCEPT ![r] = as] IN
             \/ Fits(rs) /\ v.rows = rs /\ v.added = w.added \union {}
             \/ ~Fits(rs) /\ v.rows = Refused
      BY <2>2, <3>1, <3>2
    <3>4. Refreshes(page, w, f, r, v)
      BY <3>1, <3>3 DEF Refreshes, as
    <3> QED
      BY <1>5, <3>2, <3>3, <3>4 DEF v
  <2>4. CASE Mine(f) = {} /\ taken
    <3>1. v = w
      BY <1>3, <1>5, <2>4
    <3>2. held \/ page[f].tag \in w.added
      BY <1>2, <2>4 DEF Tags
    <3> HIDE DEF v
    <3>3. Leaves(page, w, f, v)
      BY <2>4, <3>1, <3>2 DEF Leaves
    <3> QED
      BY <1>5, <3>1, <3>3 DEF v
  <2>5. CASE Mine(f) = {} /\ ~taken
    <3>1. IsNew(page, w, f)
      BY <1>2, <2>5, ReleasesAssumption DEF IsNew, Tags
    <3>2. CASE free = {}
      <4>1. v = [w EXCEPT !.rows = Refused] /\ \A r \in Free : w.rows[r] # Nothing
        BY <1>3, <1>5, <2>5, <3>2
      <4> HIDE DEF v
      <4>2. FindsNoRow(page, w, f, v)
        BY <2>1, <3>1, <4>1 DEF FindsNoRow
      <4> QED
        BY <1>5, <2>1, <4>1, <4>2 DEF v
    <3>3. CASE free # {}
      <4>1. PICK r \in free : v = Put(w, r, as, {page[f].tag})
        BY <1>3, <1>5, <2>5, <3>3
      <4>2. r \in Release /\ r \in Free /\ w.rows[r] = Nothing
        BY <4>1 DEF Free
      <4> HIDE DEF v, as, free
      <4>3. v \in Half /\ LET rs == [w.rows EXCEPT ![r] = as] IN
               \/ Fits(rs) /\ v.rows = rs /\ v.added = w.added \union {page[f].tag}
               \/ ~Fits(rs) /\ v.rows = Refused
        BY <1>1, <2>2, <4>1, <4>2
      <4>4. Adds(page, w, f, r, v)
        BY <3>1, <4>2, <4>3 DEF Adds, as
      <4> QED
        BY <1>5, <4>2, <4>3, <4>4 DEF v
    <3> QED
      BY <3>2, <3>3
  <2> QED
    BY <2>3, <2>4, <2>5
<1> HIDE DEF v
<1> QED
  BY <1>4, <1>5 DEF v

(* What stands while a page is written, with the releases of X written.     *)
Settled(page, X, w) ==
  /\ Fits(w.rows)
  /\ \A r \in Held(rows) :
       w.rows[r] = IF rows[r].from \in X THEN AsTheForgeSays(page, rows[r].from) ELSE rows[r]
  /\ \A r \in Held(w.rows) \ Held(rows) :
       \E g \in X : w.rows[r] = AsTheForgeSays(page, g) /\ Mine(g) = {}
  /\ w.added \subseteq {page[g].tag : g \in X}

Landed(page, X, w) ==
  \A f \in X :
    \/ \E r \in Held(w.rows) : w.rows[r] = AsTheForgeSays(page, f) /\ Mine(f) \subseteq {r}
    \/ /\ Mine(f) = {}
       /\ \/ \E r \in Held(rows) : rows[r].tag = page[f].tag /\ rows[r].from = Hand
          \/ \E g \in DOMAIN page : g # f /\ page[g].tag = page[f].tag

(* Nobody on the page shares a tag with another, a new one with a synced    *)
(* row, or a known one with any row but its own.                            *)
NoTwoMeet(page) ==
  /\ \A f, g \in DOMAIN page : page[f].tag = page[g].tag => f = g
  /\ \A f \in DOMAIN page : \A r \in Held(rows) :
       rows[r].tag = page[f].tag /\ rows[r].from # f => rows[r].from = Hand /\ Mine(f) = {}

(* The rows of others say other things than what is being written.          *)
LEMMA OthersSayOtherThings ==
  ASSUME RowsFit, NEW page, IsAPage(page), NEW X \in SUBSET DOMAIN page, NEW f \in X,
         NEW w \in Half, Settled(page, X \ {f}, w), NEW s \in Held(w.rows), s \notin Mine(f)
  PROVE  /\ w.rows[s].from # f
         /\ NoTwoMeet(page) /\ (Mine(f) # {} \/ \A q \in Held(rows) : rows[q].tag # page[f].tag)
              => w.rows[s].tag # page[f].tag
<1>1. \/ \E g \in X \ {f} : w.rows[s] = AsTheForgeSays(page, g)
      \/ s \in Held(rows) /\ w.rows[s] = rows[s] /\ rows[s].from # f
  BY DEF Settled, Mine
<1>2. CASE \E g \in X \ {f} : w.rows[s] = AsTheForgeSays(page, g)
  BY <1>2, OneOfThePage DEF NoTwoMeet
<1>3. CASE s \in Held(rows) /\ w.rows[s] = rows[s] /\ rows[s].from # f
  BY <1>3 DEF NoTwoMeet
<1> QED
  BY <1>1, <1>2, <1>3

LEMMA OneMoreFits ==
  ASSUME NEW t \in [Release -> Slot], Fits(t), NEW r \in Release, NEW row \in Row,
         \A s \in Held(t) \ {r} : t[s].tag # row.tag /\ t[s].from # row.from
  PROVE  Fits([t EXCEPT ![r] = row])
<1> DEFINE rs == [t EXCEPT ![r] = row]
<1>1. rs[r] = row /\ \A s \in Release \ {r} : rs[s] = t[s]
  OBVIOUS
<1> HIDE DEF rs
<1>2. Held(rs) \subseteq Held(t) \union {r}
  BY <1>1 DEF Held
<1>3. \A s \in Held(rs) \ {r} : s \in Held(t) /\ rs[s] = t[s] /\ rs[s].tag # row.tag /\ rs[s].from # row.from
  BY <1>1, <1>2 DEF Held
<1>4. Fits(rs)
  BY <1>1, <1>3 DEF Fits
<1> QED
  BY <1>4 DEF rs

LEMMA Refreshing ==
  ASSUME RowsFit, NEW page, IsAPage(page), NEW X \in SUBSET DOMAIN page, NEW f \in X,
         NEW w \in Half, w.rows # Refused, Settled(page, X \ {f}, w), Landed(page, X \ {f}, w),
         NEW v \in Half, NEW r \in Release, Refreshes(page, w, f, r, v)
  PROVE  /\ v.rows # Refused => Settled(page, X, v) /\ Landed(page, X, v)
         /\ v.rows = Refused => ~NoTwoMeet(page)
<1> DEFINE as == AsTheForgeSays(page, f)
           rs == [w.rows EXCEPT ![r] = as]
<1>0. f \in DOMAIN page
  OBVIOUS
<1>1. as \in Row /\ as # Nothing /\ as.from = f /\ as.tag = page[f].tag /\ f \in Issued /\ f # Hand
  BY <1>0, OneOfThePage
<1>2. w.rows \in [Release -> Slot] /\ rs \in [Release -> Slot]
  BY <1>0, OneOfThePage DEF Half, Slot
<1>3. Mine(f) = {r} /\ r \in Held(rows) /\ rows[r].from = f
  BY <1>1, OneRowOfEach DEF Refreshes
<1>4. \A s \in Held(rows) : rows[s].from = f => s = r
  BY <1>3 DEF Mine
<1>5. rs[r] = as /\ \A s \in Release \ {r} : rs[s] = w.rows[s]
  BY <1>2
<1>6. \/ Fits(rs) /\ v.rows = rs /\ v.added = w.added
      \/ ~Fits(rs) /\ v.rows = Refused
  BY DEF Refreshes
<1>7. \A s \in Held(w.rows) \ {r} :
        /\ w.rows[s].from # f
        /\ NoTwoMeet(page) => w.rows[s].tag # page[f].tag
  <2>1. Mine(f) # {} /\ \A s \in Held(w.rows) \ {r} : s \notin Mine(f)
    BY <1>3
  <2> QED
    BY <2>1, OthersSayOtherThings
<1> HIDE DEF as
<1>8. ASSUME NoTwoMeet(page) PROVE Fits(rs)
  <2>1. Fits(w.rows)
    BY DEF Settled
  <2>2. \A s \in Held(w.rows) \ {r} : w.rows[s].tag # as.tag /\ w.rows[s].from # as.from
    BY <1>1, <1>7, <1>8
  <2> HIDE DEF rs
  <2>3. Fits([w.rows EXCEPT ![r] = as])
    BY <1>1, <1>2, <2>1, <2>2, OneMoreFits
  <2> QED
    BY <2>3 DEF rs
<1>9. rs # Refused
  BY <1>2, ReleasesAssumption DEF Slot, Row
<1> HIDE DEF rs
<1>10. Held(rs) = Held(w.rows) \union {r}
  BY <1>1, <1>5, <1>3 DEF Held
<1>11. ASSUME v.rows # Refused PROVE Settled(page, X, v)
  <2>1. Fits(v.rows) /\ v.rows = rs /\ v.added = w.added
    BY <1>6, <1>11
  <2>2. ASSUME NEW s \in Held(rows)
        PROVE  rs[s] = IF rows[s].from \in X THEN AsTheForgeSays(page, rows[s].from) ELSE rows[s]
    <3>1. CASE s = r
      BY <1>3, <1>5, <3>1 DEF as
    <3>2. CASE s # r
      BY <1>4, <1>5, <3>2 DEF Settled, Held
    <3> QED
      BY <3>1, <3>2
  <2>3. \A s \in Held(rs) \ Held(rows) :
          \E g \in X : rs[s] = AsTheForgeSays(page, g) /\ Mine(g) = {}
    BY <1>3, <1>5, <1>10 DEF Settled, Held
  <2> QED
    BY <2>1, <2>2, <2>3 DEF Settled
<1>12. ASSUME v.rows # Refused PROVE Landed(page, X, v)
  <2>1. v.rows = rs
    BY <1>6, <1>12
  <2>2. \E q \in Held(rs) : rs[q] = AsTheForgeSays(page, f) /\ Mine(f) \subseteq {q}
    BY <1>3, <1>5, <1>10 DEF as
  <2>3. ASSUME NEW g \in X \ {f}, NEW q \in Held(w.rows),
               w.rows[q] = AsTheForgeSays(page, g) , Mine(g) \subseteq {q}
        PROVE  q \in Held(rs) /\ rs[q] = AsTheForgeSays(page, g)
    <3>1. w.rows[r] = rows[r] /\ rows[r].from = f
      BY <1>3 DEF Settled
    <3>2. q # r
      BY <2>3, <3>1, OneOfThePage
    <3> QED
      BY <1>5, <1>10, <2>3, <3>2 DEF Held
  <2> QED
    BY <2>1, <2>2, <2>3 DEF Landed
<1> QED
  BY <1>6, <1>8, <1>9, <1>11, <1>12

LEMMA Adding ==
  ASSUME RowsFit, NEW page, IsAPage(page), NEW X \in SUBSET DOMAIN page, NEW f \in X,
         NEW w \in Half, w.rows # Refused, Settled(page, X \ {f}, w), Landed(page, X \ {f}, w),
         NEW v \in Half, NEW r \in Release, Adds(page, w, f, r, v)
  PROVE  /\ v.rows # Refused => Settled(page, X, v) /\ Landed(page, X, v)
         /\ v.rows = Refused => ~NoTwoMeet(page)
<1> DEFINE as == AsTheForgeSays(page, f)
           rs == [w.rows EXCEPT ![r] = as]
<1>0. f \in DOMAIN page
  OBVIOUS
<1>1. as \in Row /\ as # Nothing /\ as.from = f /\ as.tag = page[f].tag /\ f \in Issued /\ f # Hand
  BY <1>0, OneOfThePage
<1>2. w.rows \in [Release -> Slot] /\ rs \in [Release -> Slot]
  BY <1>0, OneOfThePage DEF Half, Slot
<1>3. Mine(f) = {} /\ IsNew(page, w, f) /\ w.rows[r] = Nothing /\ r \notin Held(rows)
  BY DEF Adds, IsNew, Free, Held
<1>4. \A s \in Held(rows) : rows[s].from # f
  BY <1>3 DEF Mine
<1>5. rs[r] = as /\ \A s \in Release \ {r} : rs[s] = w.rows[s]
  BY <1>2
<1>6. \/ Fits(rs) /\ v.rows = rs /\ v.added = w.added \union {page[f].tag}
      \/ ~Fits(rs) /\ v.rows = Refused
  BY DEF Adds
<1>7. ASSUME NoTwoMeet(page) PROVE \A s \in Held(rows) : rows[s].tag # page[f].tag
  BY <1>0, <1>3, <1>4, <1>7 DEF NoTwoMeet, IsNew
<1>8. \A s \in Held(w.rows) \ {r} :
        /\ w.rows[s].from # f
        /\ NoTwoMeet(page) => w.rows[s].tag # page[f].tag
  BY <1>3, <1>7, OthersSayOtherThings
<1> HIDE DEF as
<1>9. ASSUME NoTwoMeet(page) PROVE Fits(rs)
  <2>1. Fits(w.rows)
    BY DEF Settled
  <2>2. \A s \in Held(w.rows) \ {r} : w.rows[s].tag # as.tag /\ w.rows[s].from # as.from
    BY <1>1, <1>8, <1>9
  <2> HIDE DEF rs
  <2>3. Fits([w.rows EXCEPT ![r] = as])
    BY <1>1, <1>2, <2>1, <2>2, OneMoreFits
  <2> QED
    BY <2>3 DEF rs
<1>10. rs # Refused
  BY <1>2, ReleasesAssumption DEF Slot, Row
<1> HIDE DEF rs
<1>11. Held(rs) = Held(w.rows) \union {r}
  BY <1>1, <1>5 DEF Held
<1>12. ASSUME v.rows # Refused PROVE Settled(page, X, v)
  <2>1. Fits(v.rows) /\ v.rows = rs /\ v.added = w.added \union {page[f].tag}
    BY <1>6, <1>12
  <2>2. \A s \in Held(rows) :
          rs[s] = IF rows[s].from \in X THEN AsTheForgeSays(page, rows[s].from) ELSE rows[s]
    BY <1>3, <1>4, <1>5 DEF Settled, Held
  <2>3. \A s \in Held(rs) \ Held(rows) :
          \E g \in X : rs[s] = AsTheForgeSays(page, g) /\ Mine(g) = {}
    BY <1>3, <1>5, <1>11 DEF Settled, Held, as
  <2>4. v.added \subseteq {page[g].tag : g \in X}
    BY <2>1 DEF Settled
  <2> QED
    BY <2>1, <2>2, <2>3, <2>4 DEF Settled
<1>13. ASSUME v.rows # Refused PROVE Landed(page, X, v)
  <2>1. v.rows = rs
    BY <1>6, <1>13
  <2>2. \E q \in Held(rs) : rs[q] = AsTheForgeSays(page, f) /\ Mine(f) \subseteq {q}
    BY <1>3, <1>5, <1>11 DEF as
  <2>3. ASSUME NEW g \in X \ {f}, NEW q \in Held(w.rows),
               w.rows[q] = AsTheForgeSays(page, g) , Mine(g) \subseteq {q}
        PROVE  q \in Held(rs) /\ rs[q] = AsTheForgeSays(page, g)
    BY <1>3, <1>5, <1>11, <2>3 DEF Held
  <2> QED
    BY <2>1, <2>2, <2>3 DEF Landed
<1> QED
  BY <1>6, <1>9, <1>10, <1>12, <1>13

LEMMA Leaving ==
  ASSUME RowsFit, NEW page, IsAPage(page), NEW X \in SUBSET DOMAIN page, NEW f \in X,
         NEW w \in Half, Settled(page, X \ {f}, w), Landed(page, X \ {f}, w),
         Leaves(page, w, f, w)
  PROVE  Settled(page, X, w) /\ Landed(page, X, w)
<1>1. \A s \in Held(rows) : rows[s].from # f
  BY DEF Leaves, Mine
<1>2. page[f].tag \in w.added => \E g \in X \ {f} : page[g].tag = page[f].tag
  BY DEF Settled
<1>3. Settled(page, X, w)
  BY <1>1 DEF Settled
<1>4. Landed(page, X, w)
  BY <1>2 DEF Landed, Leaves
<1> QED
  BY <1>3, <1>4

FewBinned == Cardinality(Held(binned)) <= MostBinned

(* There are rows enough for every tag there may be, and for the bin.       *)
LEMMA ARowIsLeft ==
  ASSUME RowsFit, FewBinned, NEW t \in [Release -> Slot], Fits(t), NEW tag \in Tag,
         \A s \in Held(t) : t[s].tag # tag
  PROVE  \E r \in Release : t[r] = Nothing /\ binned[r] = Nothing
<1> DEFINE others == Tag \ {tag}
           of == [s \in Held(t) |-> t[s].tag]
<1>1. IsFiniteSet(others) /\ Cardinality(others) = Cardinality(Tag) - 1 /\ Cardinality(Tag) \in Nat
  BY ReleasesAssumption, FS_RemoveElement, FS_CardinalityType
<1>2. of \in Injection(Held(t), others)
  <2>1. \A s \in Held(t) : t[s] \in Row
    BY DEF Held, Slot
  <2>2. of \in [Held(t) -> others]
    BY <2>1 DEF Row, Says
  <2>3. \A r, s \in Held(t) : r # s => of[r] # of[s]
    BY DEF Fits
  <2> QED
    BY <2>2, <2>3 DEF Injection, IsInjective
<1> HIDE DEF of, others
<1>3. IsFiniteSet(Held(t)) /\ Cardinality(Held(t)) <= Cardinality(Tag) - 1
  BY <1>1, <1>2, FS_Injection
<1>4. IsFiniteSet(Held(binned)) /\ Cardinality(Held(binned)) \in Nat
  BY ReleasesAssumption, FS_Subset, FS_CardinalityType DEF Held
<1>5. /\ Cardinality(Held(t) \union Held(binned)) =
           Cardinality(Held(t)) + Cardinality(Held(binned)) - Cardinality(Held(t) \intersect Held(binned))
      /\ Cardinality(Held(t)) \in Nat /\ Cardinality(Held(t) \intersect Held(binned)) \in Nat
  <2>1. IsFiniteSet(Held(t) \intersect Held(binned))
    BY <1>3, FS_Intersection
  <2>2. /\ Cardinality(Held(t)) \in Nat /\ Cardinality(Held(t) \intersect Held(binned)) \in Nat
    BY <1>3, <2>1, FS_CardinalityType
  <2>3. Cardinality(Held(t) \union Held(binned)) =
           Cardinality(Held(t)) + Cardinality(Held(binned)) - Cardinality(Held(t) \intersect Held(binned))
    BY <1>3, <1>4, FS_Union
  <2> QED
    BY <2>2, <2>3
<1> DEFINE both == Held(t) \union Held(binned)
<1>6. Cardinality(both) < Cardinality(Release)
  <2>1. Cardinality(both) <= Cardinality(Held(t)) + Cardinality(Held(binned))
    BY <1>4, <1>5
  <2>2. IsFiniteSet(both)
    BY <1>3, <1>4, FS_Union
  <2> HIDE DEF both
  <2>3. Cardinality(both) \in Nat /\ Cardinality(Release) \in Nat
    BY <2>2, ReleasesAssumption, FS_CardinalityType
  <2> QED
    BY <1>1, <1>3, <1>4, <1>5, <2>1, <2>3, ReleasesAssumption DEF FewBinned
<1>7. both # Release
  <2> HIDE DEF both
  <2> QED
    BY <1>6, ReleasesAssumption, FS_CardinalityType
<1>8. both \subseteq Release
  BY DEF Held
<1> QED
  BY <1>7, <1>8 DEF Held

LEMMA FindingNoRow ==
  ASSUME RowsFit, FewBinned, NEW page, IsAPage(page), NEW X \in SUBSET DOMAIN page, NEW f \in X,
         NEW w \in Half, w.rows # Refused, Settled(page, X \ {f}, w),
         NEW v, FindsNoRow(page, w, f, v)
  PROVE  ~NoTwoMeet(page)
<1> SUFFICES ASSUME NoTwoMeet(page) PROVE FALSE
  OBVIOUS
<1>0. f \in DOMAIN page /\ page[f].tag \in Tag
  BY OneOfThePage
<1>1. Mine(f) = {} /\ IsNew(page, w, f) /\ \A r \in Free : w.rows[r] # Nothing
  BY DEF FindsNoRow, IsNew
<1>2. \A s \in Held(rows) : rows[s].from # f
  BY <1>1 DEF Mine
<1>3. \A s \in Held(rows) : rows[s].tag # page[f].tag
  BY <1>0, <1>1, <1>2 DEF NoTwoMeet, IsNew
<1>4. \A s \in Held(w.rows) : w.rows[s].tag # page[f].tag
  BY <1>1, <1>3, OthersSayOtherThings
<1>5. w.rows \in [Release -> Slot] /\ Fits(w.rows)
  BY DEF Half, Settled
<1>6. PICK r \in Release : w.rows[r] = Nothing /\ binned[r] = Nothing
  BY <1>0, <1>4, <1>5, ARowIsLeft
<1>7. r \in Held(rows)
  BY <1>1, <1>6 DEF Free, Held
<1>8. rows[r] # Nothing /\ \A g \in X : AsTheForgeSays(page, g) # Nothing
  BY <1>7, OneOfThePage DEF Held
<1> QED
  BY <1>6, <1>7, <1>8 DEF Settled

(* The whole page, the highest number last.                                 *)
LEMMA MinOfAPage ==
  ASSUME NEW page, IsAPage(page), NEW X \in SUBSET DOMAIN page, X # {}
  PROVE  Min(X) \in X
<1>1. X \in SUBSET Nat
  BY ReleasesAssumption DEF IsAPage, Issued
<1>2. \E n \in X : \A m \in X : n <= m
  BY <1>1, LeastNumber
<1> QED
  BY <1>2 DEF Min

Stands(page, X, w) ==
  /\ w.rows # Refused => Settled(page, X, w) /\ Landed(page, X, w)
  /\ w.rows = Refused => ~NoTwoMeet(page)

(* One more release written, whichever way it goes.                         *)
LEMMA OneMoreStands ==
  ASSUME RowsFit, FewBinned, NEW page, IsAPage(page), NEW X \in SUBSET DOMAIN page, NEW f \in X,
         NEW w \in Half, Stands(page, X \ {f}, w)
  PROVE  Stands(page, X, WriteOne(rows, page, w, f))
<1> DEFINE v == WriteOne(rows, page, w, f)
<1>1. /\ v \in Half
      /\ w.rows = Refused => v = w
      /\ w.rows # Refused =>
           \/ \E r \in Release : Refreshes(page, w, f, r, v) \/ Adds(page, w, f, r, v)
           \/ Leaves(page, w, f, v) \/ FindsNoRow(page, w, f, v)
  BY WritingOne
<1> HIDE DEF v
<1>2. CASE w.rows = Refused
  BY <1>1, <1>2 DEF Stands, v
<1>3. ASSUME w.rows # Refused, NEW r \in Release, Refreshes(page, w, f, r, v) PROVE Stands(page, X, v)
  BY <1>1, <1>3, Refreshing DEF Stands
<1>4. ASSUME w.rows # Refused, NEW r \in Release, Adds(page, w, f, r, v) PROVE Stands(page, X, v)
  BY <1>1, <1>4, Adding DEF Stands
<1>5. ASSUME w.rows # Refused, Leaves(page, w, f, v) PROVE Stands(page, X, v)
  <2>1. v = w /\ Leaves(page, w, f, w)
    BY <1>5 DEF Leaves
  <2> QED
    BY <1>5, <2>1, Leaving DEF Stands
<1>6. ASSUME w.rows # Refused, FindsNoRow(page, w, f, v) PROVE Stands(page, X, v)
  <2>1. v.rows = Refused
    BY <1>6 DEF FindsNoRow
  <2>2. ~NoTwoMeet(page)
    BY <1>6, FindingNoRow DEF Stands
  <2> QED
    BY <2>1, <2>2 DEF Stands
<1> QED
  BY <1>1, <1>2, <1>3, <1>4, <1>5, <1>6 DEF v

LEMMA ThePageIsWritten ==
  ASSUME RowsFit, FewBinned, NEW page, IsAPage(page)
  PROVE  \E w \in Half : Written(rows, page) = w.rows /\ Stands(page, DOMAIN page, w)
<1> DEFINE D == DOMAIN page
           base == [rows |-> rows, added |-> {}]
           pick == [X \in SUBSET D |-> Min(X)]
           op == [p \in D \X Half |-> WriteOne(rows, page, p[2], p[1])]
           Step(g, X) == IF X = {} THEN base ELSE WriteOne(rows, page, g[X \ {Min(X)}], Min(X))
           IsWriting(g) == g = [X \in SUBSET D |-> Step(g, X)]
<1>1. IsFiniteSet(D) /\ base \in Half /\ Picks(pick, D)
  <2>1. IsFiniteSet(Issued) /\ D \in SUBSET Issued
    BY FS_Interval, ReleasesAssumption DEF Issued, IsAPage
  <2> QED
    BY <2>1, FS_Subset, MinOfAPage DEF Picks, RowsFit, Half
<1>2. op \in [D \X Half -> Half]
  <2>1. ASSUME NEW f \in D, NEW w \in Half PROVE WriteOne(rows, page, w, f) \in Half
    BY WritingOne
  <2> QED
    BY <2>1
<1>3. \A X \in SUBSET D, w \in Half : X # {} =>
        pick[X] = Min(X) /\ pick[X] \in X /\ op[<<pick[X], w>>] = WriteOne(rows, page, w, pick[X])
  BY <1>1 DEF Picks
<1> HIDE DEF pick, op
<1>4. PICK g : IsFold(g, D, Half, base, pick, op)
  BY <1>1, <1>2, AFoldExists
<1>5. g \in [SUBSET D -> Half] /\ \A X \in SUBSET D : g[X] = Step(g, X)
  BY <1>3, <1>4 DEF IsFold
<1>6. IsWriting(g)
  <2> HIDE DEF Step
  <2> QED
    BY <1>5
<1>7. ASSUME NEW h, IsWriting(h) PROVE h = g
  <2>0. h = [X \in SUBSET D |-> h[X]]
    BY <1>7
  <2>1. \A X \in SUBSET D : h[X] = Step(h, X)
    BY <1>7
  <2>2. h[{}] = base
    BY <2>1
  <2>3. \A X \in SUBSET D : X # {} /\ h[X \ {pick[X]}] \in Half =>
          h[X] = op[<<pick[X], h[X \ {pick[X]}]>>]
    BY <1>3, <2>1
  <2>4. Unfolds(h, D, Half, base, pick, op)
    BY <2>0, <2>2, <2>3 DEF Unfolds
  <2> HIDE DEF Step, IsWriting
  <2> QED
    BY <1>1, <1>4, <2>4, AFoldIsTheOnlyOne
<1>8. Written(rows, page) = (CHOOSE h : IsWriting(h))[D].rows
  BY DEF Written, MapThenFoldSet
<1>9. Written(rows, page) = g[D].rows
  <2> HIDE DEF IsWriting
  <2> QED
    BY <1>6, <1>7, <1>8
<1> HIDE DEF IsWriting
<1> DEFINE T == {X \in SUBSET D : Stands(page, X, g[X])}
<1>10. Stands(page, {}, base)
  <2>1. rows # Refused
    BY ReleasesAssumption DEF RowsFit, Slot, Row
  <2> QED
    BY <2>1 DEF Stands, Settled, Landed, RowsFit
<1>11. \A X \in SUBSET D : X # {} /\ X \ {pick[X]} \in T => X \in T
  <2>1. ASSUME NEW X \in SUBSET D, X # {}, Stands(page, X \ {pick[X]}, g[X \ {pick[X]}])
        PROVE  Stands(page, X, g[X])
    <3>1. pick[X] \in X /\ g[X \ {pick[X]}] \in Half
      BY <1>3, <1>5, <2>1
    <3>2. g[X] = WriteOne(rows, page, g[X \ {pick[X]}], pick[X])
      BY <1>3, <1>5, <2>1, <3>1
    <3> QED
      BY <2>1, <3>1, <3>2, OneMoreStands
  <2> QED
    BY <2>1
<1>12. {} \in T /\ T \in SUBSET SUBSET D
  BY <1>5, <1>10
<1> HIDE DEF T
<1>13. T = SUBSET D
  BY <1>1, <1>11, <1>12, OneElementAtATime
<1>14. Stands(page, D, g[D]) /\ g[D] \in Half
  BY <1>5, <1>13 DEF T
<1> QED
  BY <1>9, <1>14

LEMMA WhatIsWritten ==
  ASSUME RowsFit, FewBinned, NEW page, IsAPage(page)
  PROVE  LET after == Written(rows, page) IN
         /\ after # Refused =>
              /\ after \in [Release -> Slot] /\ Fits(after)
              /\ \A r \in Held(rows) :
                   after[r] = IF rows[r].from \in DOMAIN page THEN AsTheForgeSays(page, rows[r].from) ELSE rows[r]
              /\ \A f \in DOMAIN page :
                   \/ \E r \in Held(after) : after[r] = AsTheForgeSays(page, f) /\ Mine(f) \subseteq {r}
                   \/ /\ Mine(f) = {}
                      /\ \/ \E r \in Held(rows) : rows[r].tag = page[f].tag /\ rows[r].from = Hand
                         \/ \E g \in DOMAIN page : g # f /\ page[g].tag = page[f].tag
         /\ after = Refused => ~NoTwoMeet(page)
  BY ThePageIsWritten DEF Stands, Settled, Landed, Half

ReleasesInv ==
  /\ RowsFit /\ FewBinned
  /\ archived \in BOOLEAN
  /\ forge \in [Issued -> [tag : Tag, words : Words] \union {Nothing}]
  /\ issued \in 0 .. LastIssued
  /\ DOMAIN found = Person
  /\ \A u \in Person : found[u] = Nothing \/ IsAPage(found[u])

LEMMA ThePageIsAPage ==
  ASSUME ReleasesInv
  PROVE  IsAPage(Page)
  BY DEF ReleasesInv, Page, IsAPage

LEMMA ReleasesInvInit == Init => ReleasesInv
<1> SUFFICES ASSUME Init PROVE ReleasesInv
  OBVIOUS
<1>1. Held(binned) = {} /\ Held(rows) = {}
  BY DEF Init, Held
<1>2. FewBinned
  BY <1>1, FS_EmptySet, ReleasesAssumption DEF FewBinned
<1>3. RowsFit
  BY <1>1 DEF Init, RowsFit, Slot, Fits
<1>4. 0 \in 0 .. LastIssued
  BY ReleasesAssumption
<1> QED
  BY <1>2, <1>3, <1>4 DEF Init, ReleasesInv

LEMMA ReleasesInvStep ==
  ASSUME ReleasesInv, [Next]_vars
  PROVE  ReleasesInv'
<1> USE DEF ReleasesInv
<1>0. RowsFit /\ FewBinned
  OBVIOUS
<1>1. ASSUME NEW r \in Release, NEW t \in Tag, NEW w \in Words, RecordRelease(r, t, w)
      PROVE  ReleasesInv'
  <2>1. [tag |-> t, words |-> w, from |-> Hand] \in Row
    BY DEF Row, Says
  <2>2. rows' = [rows EXCEPT ![r] = [tag |-> t, words |-> w, from |-> Hand]] /\ Fits(rows')
    BY <1>1 DEF RecordRelease, Change
  <2>3. rows' \in [Release -> Slot]
    BY <2>1, <2>2 DEF RowsFit, Slot
  <2> QED
    BY <1>1, <2>2, <2>3 DEF RecordRelease, Change, RowsFit, FewBinned, Fits, Held
<1>2. ASSUME NEW r \in Release, NEW t \in Tag, NEW w \in Words, UpdateRelease(r, t, w)
      PROVE  ReleasesInv'
  <2>1. rows[r] \in Row
    BY <1>2 DEF UpdateRelease, RowsFit, Slot
  <2>2. rows' = [rows EXCEPT ![r].tag = t, ![r].words = w] /\ Fits(rows')
    BY <1>2 DEF UpdateRelease, Change
  <2>3. rows' \in [Release -> Slot]
    BY <2>1, <2>2 DEF RowsFit, Slot, Row, Says
  <2> QED
    BY <1>2, <2>2, <2>3 DEF UpdateRelease, Change, RowsFit, FewBinned, Fits, Held
<1>3. ASSUME NEW r \in Release, DeleteRelease(r) PROVE ReleasesInv'
  <2>1. /\ rows' = [rows EXCEPT ![r] = Nothing] /\ Fits(rows')
        /\ binned' = [binned EXCEPT ![r] = rows[r]] /\ Cardinality(Held(binned)) < MostBinned
    BY <1>3 DEF DeleteRelease, Change
  <2>2. rows' \in [Release -> Slot] /\ binned' \in [Release -> Slot]
    BY <2>1 DEF RowsFit, Slot
  <2>3. Held(binned') \subseteq Held(binned) \union {r}
    BY <2>1 DEF RowsFit, Held
  <2>4. IsFiniteSet(Held(binned)) /\ Cardinality(Held(binned)) \in Nat
    BY ReleasesAssumption, FS_Subset, FS_CardinalityType DEF Held
  <2>5. /\ IsFiniteSet(Held(binned) \union {r})
        /\ Cardinality(Held(binned) \union {r}) <= Cardinality(Held(binned)) + 1
    <3>1. /\ IsFiniteSet(Held(binned) \union {r})
          /\ Cardinality(Held(binned) \union {r}) =
               IF r \in Held(binned) THEN Cardinality(Held(binned)) ELSE Cardinality(Held(binned)) + 1
      BY <2>4, FS_AddElement
    <3> QED
      BY <2>4, <3>1
  <2>6. /\ Cardinality(Held(binned')) <= Cardinality(Held(binned) \union {r})
        /\ Cardinality(Held(binned')) \in Nat /\ Cardinality(Held(binned) \union {r}) \in Nat
    BY <2>3, <2>5, FS_Subset, FS_CardinalityType
  <2>7. Cardinality(Held(binned')) <= MostBinned
    BY <2>1, <2>4, <2>5, <2>6, ReleasesAssumption
  <2> QED
    BY <1>3, <2>1, <2>2, <2>7 DEF DeleteRelease, Change, RowsFit, FewBinned, Fits, Held
<1>4. ASSUME NEW r \in Release, RestoreRelease(r) \/ PurgeRelease(r) PROVE ReleasesInv'
  <2>1. /\ rows' = [rows EXCEPT ![r] = binned[r]] \/ rows' = rows
        /\ Fits(rows') /\ binned' = [binned EXCEPT ![r] = Nothing]
    BY <1>4 DEF RestoreRelease, PurgeRelease, RowsFit
  <2>2. rows' \in [Release -> Slot] /\ binned' \in [Release -> Slot]
    BY <2>1 DEF RowsFit, Slot
  <2>3. Held(binned') \in SUBSET Held(binned)
    BY <2>1 DEF RowsFit, Held
  <2>4. IsFiniteSet(Held(binned)) /\ Cardinality(Held(binned)) \in Nat
    BY ReleasesAssumption, FS_Subset, FS_CardinalityType DEF Held
  <2>5. Cardinality(Held(binned')) <= Cardinality(Held(binned)) /\ Cardinality(Held(binned')) \in Nat
    BY <2>3, <2>4, FS_Subset, FS_CardinalityType
  <2>6. Cardinality(Held(binned')) <= MostBinned
    BY <2>4, <2>5, ReleasesAssumption DEF FewBinned
  <2> QED
    BY <1>4, <2>1, <2>2, <2>6 DEF RestoreRelease, PurgeRelease, RowsFit, FewBinned, Fits, Held
<1>5. ASSUME NEW on \in BOOLEAN, ArchiveProject(on) PROVE ReleasesInv'
  BY <1>5 DEF ArchiveProject, RowsFit, FewBinned, Fits, Held
<1>6. ASSUME NEW t \in Tag, NEW w \in Words, Publish(t, w) PROVE ReleasesInv'
  BY <1>6, ReleasesAssumption DEF Publish, RowsFit, FewBinned, Fits, Held, Issued
<1>7. ASSUME NEW f \in Issued, NEW t \in Tag, NEW w \in Words, Reword(f, t, w) PROVE ReleasesInv'
  BY <1>7 DEF Reword, RowsFit, FewBinned, Fits, Held
<1>8. ASSUME NEW f \in Issued, Withdraw(f) PROVE ReleasesInv'
  BY <1>8 DEF Withdraw, RowsFit, FewBinned, Fits, Held
<1>9. ASSUME NEW u \in Person, ReadThePage(u) PROVE ReleasesInv'
  <2>1. IsAPage(Page)
    BY ThePageIsAPage
  <2> QED
    BY <1>9, <2>1 DEF ReadThePage, RowsFit, FewBinned, Fits, Held
<1>10. ASSUME NEW u \in Person, WriteFound(u) PROVE ReleasesInv'
  <2>1. IsAPage(found[u])
    BY <1>10 DEF WriteFound
  <2>2. rows' \in [Release -> Slot] /\ Fits(rows')
    BY <1>10, <2>1, WhatIsWritten DEF WriteFound, RowsFit
  <2> QED
    BY <1>10, <2>2 DEF WriteFound, RowsFit, FewBinned, Fits, Held
<1>11. CASE UNCHANGED vars
  BY <1>11 DEF vars, RowsFit, FewBinned, Fits, Held
<1> QED
  BY <1>1, <1>2, <1>3, <1>4, <1>5, <1>6, <1>7, <1>8, <1>9, <1>10, <1>11 DEF Next

THEOREM ReleasesInvariant == Spec => []ReleasesInv
  BY ReleasesInvInit, ReleasesInvStep, PTL DEF Spec

(* The rows are typed and the database's two constraints hold of them       *)
(* (Releases.TypeOK).                                                       *)
THEOREM ReleasesAreTyped == Spec => []TypeOK
<1>1. ReleasesInv => TypeOK
  BY DEF ReleasesInv, RowsFit, TypeOK, Slot, Row
<1> QED
  BY <1>1, ReleasesInvariant, PTL

(* Whatever was typed, renamed or restored since the page was read, a sync  *)
(* drops no row and touches no typed one (Releases.ASyncDestroysNoWriting). *)
THEOREM WhatIsTypedStays == Spec => ASyncDestroysNoWriting
<1> DEFINE Stays ==
      \A u \in Person : WriteFound(u) =>
        \A r \in Held(rows) :
          /\ rows'[r] # Nothing /\ rows'[r].from = rows[r].from
          /\ rows[r].from = Hand \/ rows[r].from \notin DOMAIN found[u] => rows'[r] = rows[r]
<1>1. ReleasesInv => Stays
  <2>1. ASSUME ReleasesInv, NEW u \in Person, WriteFound(u), NEW r \in Held(rows)
        PROVE  /\ rows'[r] # Nothing /\ rows'[r].from = rows[r].from
               /\ rows[r].from = Hand \/ rows[r].from \notin DOMAIN found[u] => rows'[r] = rows[r]
    <3>1. RowsFit /\ FewBinned /\ IsAPage(found[u])
      BY <2>1 DEF ReleasesInv, WriteFound
    <3>2. Hand \notin DOMAIN found[u] /\ rows[r] # Nothing
      BY <2>1, <3>1, ReleasesAssumption DEF IsAPage, Held
    <3>3. rows'[r] = rows[r] \/
            rows'[r] = IF rows[r].from \in DOMAIN found[u] THEN AsTheForgeSays(found[u], rows[r].from) ELSE rows[r]
      BY <2>1, <3>1, WhatIsWritten DEF WriteFound
    <3> QED
      BY <3>1, <3>2, <3>3, OneOfThePage
  <2> QED
    BY <2>1
<1>2. Spec => [][Stays]_vars
  <2> HIDE DEF Stays
  <2> QED
    BY <1>1, ReleasesInvariant, PTL
<1> QED
  BY <1>2 DEF ASyncDestroysNoWriting

(* A sync that is not refused leaves each release of its page in a row that *)
(* says what the page says, the row it had if it had one; but a new one     *)
(* whose tag was typed or is on the page twice                              *)
(* (Releases.ASyncLandsWhatItRead).                                         *)
THEOREM WhatIsReadLands == Spec => ASyncLandsWhatItRead
<1> DEFINE Lands ==
      \A u \in Person : WriteFound(u) /\ Written(rows, found[u]) # Refused =>
        LET page == found[u] IN
        \A f \in DOMAIN page :
          LET mine == {r \in Held(rows) : rows[r].from = f} IN
          \/ \E r \in Held(rows') :
               /\ rows'[r] = [tag |-> page[f].tag, words |-> page[f].words, from |-> f]
               /\ mine \subseteq {r}
          \/ /\ mine = {}
             /\ \/ \E r \in Held(rows) : rows[r].tag = page[f].tag /\ rows[r].from = Hand
                \/ \E g \in DOMAIN page : g # f /\ page[g].tag = page[f].tag
<1>1. ReleasesInv => Lands
  <2>1. ASSUME ReleasesInv, NEW u \in Person, WriteFound(u), Written(rows, found[u]) # Refused,
               NEW f \in DOMAIN found[u]
        PROVE  \/ \E r \in Held(rows') : rows'[r] = AsTheForgeSays(found[u], f) /\ Mine(f) \subseteq {r}
               \/ /\ Mine(f) = {}
                  /\ \/ \E r \in Held(rows) : rows[r].tag = found[u][f].tag /\ rows[r].from = Hand
                     \/ \E g \in DOMAIN found[u] : g # f /\ found[u][g].tag = found[u][f].tag
    <3>1. RowsFit /\ FewBinned /\ IsAPage(found[u])
      BY <2>1 DEF ReleasesInv, WriteFound
    <3>2. rows' = Written(rows, found[u])
      BY <2>1 DEF WriteFound
    <3> QED
      BY <2>1, <3>1, <3>2, WhatIsWritten
  <2> QED
    BY <2>1 DEF Mine, AsTheForgeSays
<1>2. Spec => [][Lands]_vars
  <2> HIDE DEF Lands
  <2> QED
    BY <1>1, ReleasesInvariant, PTL
<1> QED
  BY <1>2 DEF ASyncLandsWhatItRead

(* A page with no two releases of a tag, none new with a synced row's tag   *)
(* and none known renamed over another row, is never refused, whatever is   *)
(* typed beside it (Releases.HandsStopNoSync).                              *)
THEOREM TypedRowsStopNoSync == Spec => []HandsStopNoSync
<1>1. ASSUME ReleasesInv, Written(rows, Page) = Refused PROVE ~NoTwoMeet(Page)
  <2>1. RowsFit /\ FewBinned /\ IsAPage(Page)
    BY <1>1, ThePageIsAPage DEF ReleasesInv
  <2> QED
    BY <1>1, <2>1, WhatIsWritten
<1>2. ReleasesInv => HandsStopNoSync
  BY <1>1 DEF HandsStopNoSync, NoTwoMeet, Mine
<1> QED
  BY <1>2, ReleasesInvariant, PTL
==============================================================================

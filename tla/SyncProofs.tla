----------------------------- MODULE SyncProofs -----------------------------
(***************************************************************************)
(* Proofs about the two halves of a sync.  The claim on a repository, for  *)
(* any number of callers and any lease, and the worker's loop around it,   *)
(* which implements it: whatever is proved of the claim is true of the     *)
(* loop.  And what a sync then does to cards and issues, for any number of *)
(* either, however often it is cut short.                                  *)
(***************************************************************************)
EXTENDS WorkerLoop, IssueSync, FiniteInduction

(* While no sync outlives its lease, the one that runs is as old as the     *)
(* claim on the connection, and it is alone: so the connection is not free. *)
RunnerHoldsTheClaim ==
  \A s \in Running :
    /\ running[s] = syncingFor
    /\ running[s] <= Lease
    /\ \A t \in Running : s = t

ClaimInv == ClaimTypeOK /\ (~Overruns => RunnerHoldsTheClaim)

(* Type correctness of every behaviour (SyncClaim.ClaimTypeOK).                  *)
THEOREM ClaimIsTyped == ClaimSpec => []ClaimTypeOK
<1> USE LeaseAssumption DEF ClaimTypeOK, Age, Unset
<1>1. ClaimInit => ClaimTypeOK
  BY DEF ClaimInit
<1>2. ClaimTypeOK /\ [ClaimNext]_claimVars => ClaimTypeOK'
  BY DEF ClaimNext, claimVars, ClaimTheSync, ReleaseTheSync, ReleaseTheSyncAsFailed, GiveBack,
         Die, Tick, Older
<1> QED
  BY <1>1, <1>2, PTL DEF ClaimSpec

(* The claim and its holder age together; nobody else gets in meanwhile.    *)
LEMMA HolderIsKept ==
  ASSUME ClaimTypeOK, RunnerHoldsTheClaim, ~Overruns, [ClaimNext]_claimVars
  PROVE  RunnerHoldsTheClaim'
<1> USE LeaseAssumption DEF RunnerHoldsTheClaim, Running, ClaimTypeOK, Age, Unset
<1>1. ASSUME NEW s \in Syncer, ClaimTheSync(s) PROVE RunnerHoldsTheClaim'
  BY <1>1 DEF ClaimTheSync, IsFree
<1>2. ASSUME NEW s \in Syncer, GiveBack(s) PROVE RunnerHoldsTheClaim'
  BY <1>2 DEF GiveBack
<1>3. ASSUME NEW s \in Syncer, Die(s) PROVE RunnerHoldsTheClaim'
  BY <1>3 DEF Die
<1>4. ASSUME Tick PROVE RunnerHoldsTheClaim'
  BY <1>4 DEF Tick, Older
<1>5. CASE UNCHANGED claimVars
  BY <1>5 DEF claimVars
<1> QED
  BY <1>1, <1>2, <1>3, <1>4, <1>5 DEF ClaimNext, ReleaseTheSync, ReleaseTheSyncAsFailed

(* One sync of a repository at a time, whoever dies holding the claim,      *)
(* provided that no sync outlives the lease (claim-the-sync.ts).            *)
THEOREM OneAtATime ==
  ASSUME ~Overruns
  PROVE  ClaimSpec => []OneSyncAtATime
<1>1. ClaimInit => ClaimInv
  BY LeaseAssumption DEF ClaimInit, ClaimInv, ClaimTypeOK, RunnerHoldsTheClaim, Running, Unset
<1>2. ClaimInv /\ ClaimTypeOK' /\ [ClaimNext]_claimVars => ClaimInv'
  BY HolderIsKept DEF ClaimInv
<1>3. ClaimInv => OneSyncAtATime
  BY DEF ClaimInv, RunnerHoldsTheClaim, OneSyncAtATime
<1> QED
  BY <1>1, <1>2, <1>3, ClaimIsTyped, PTL DEF ClaimSpec

(* The date of a failure is that of the first of its streak.                *)
THEOREM FailureDateIsKept == ClaimSpec => FailureKeepsItsDate
<1> DEFINE Kept == failedFor # Unset /\ failedFor' # Unset => failedFor' >= failedFor
<1>1. ClaimTypeOK /\ [ClaimNext]_claimVars => [Kept]_claimVars
  BY LeaseAssumption
     DEF ClaimTypeOK, Age, Unset, ClaimNext, claimVars, ClaimTheSync, ReleaseTheSync,
         ReleaseTheSyncAsFailed, Die, Tick, Older
<1> QED
  BY <1>1, ClaimIsTyped, PTL DEF ClaimSpec, FailureKeepsItsDate

-----------------------------------------------------------------------------
(* The loop (run-outbox-loop.ts) does nothing to a claim that SyncClaim     *)
(* does not: a pass, a kill, an outage and the button are each one of its   *)
(* steps or leave it alone.                                                 *)
THEOREM TheLoopImplementsTheClaim == LoopSpec => ClaimSpec
<1>1. LoopInit => ClaimInit
  BY DEF LoopInit
<1>2. [LoopNext]_loopVars => [ClaimNext]_claimVars
  <2> SUFFICES ASSUME [LoopNext]_loopVars PROVE [ClaimNext]_claimVars
    OBVIOUS
  <2>1. ASSUME NEW w \in Worker, Pass(w) PROVE [ClaimNext]_claimVars
    BY <2>1, WorkerLoopAssumption
       DEF Pass, BeginPass, Ingest, SyncNothing, BeginSync, EndSync, Sweep, Drain, Wake, ClaimNext
  <2>2. ASSUME NEW w \in Worker, Kill(w) PROVE [ClaimNext]_claimVars
    BY <2>2, WorkerLoopAssumption DEF Kill, ClaimNext
  <2>3. ASSUME NEW s \in Syncer \ Worker, Button(s) PROVE [ClaimNext]_claimVars
    BY <2>3 DEF Button, ClaimNext
  <2>4. CASE Say \/ Outage \/ Recover \/ TimePasses
    BY <2>4 DEF Say, Outage, Recover, TimePasses, ClaimNext
  <2>5. CASE UNCHANGED loopVars
    BY <2>5 DEF loopVars, claimVars
  <2> QED
    BY <2>1, <2>2, <2>3, <2>4, <2>5 DEF LoopNext
<1> QED
  BY <1>1, <1>2, PTL DEF LoopSpec, ClaimSpec

(* One sync of a repository at a time, though workers are killed and the    *)
(* database goes away in the middle of one (claim-the-sync.ts), provided    *)
(* that no sync outlives the lease.                                         *)
THEOREM TheLoopSyncsOneAtATime ==
  ASSUME ~Overruns
  PROVE  LoopSpec => []OneSyncAtATime
BY TheLoopImplementsTheClaim, OneAtATime, PTL

(* What a heartbeat is worth: a worker about to touch one finished its last *)
(* pass at most a tick ago, and late says whether that tick has passed.     *)
BeatIsDue ==
  \A w \in Worker :
    /\ doneFor[w] \in {Unset} \union 0 .. HealthyFor + 2
    /\ late[w] \in BOOLEAN
    /\ late[w] => step[w] \in {"resting", "top"}
    /\ finished[w] /\ step[w] \in {"resting", "top"} => doneFor[w] = IF late[w] THEN 1 ELSE 0

LoopShape ==
  /\ step \in [Worker -> Step]
  /\ late \in [Worker -> BOOLEAN] /\ finished \in [Worker -> BOOLEAN]
  /\ beatFor \in [Worker -> {Unset} \union 0 .. HealthyFor + 2]
  /\ doneFor \in [Worker -> {Unset} \union 0 .. HealthyFor + 2]

BeatInv == LoopShape /\ BeatIsDue /\ AHeartbeatMeansWork

LEMMA BeatIsKept == ASSUME BeatInv, [LoopNext]_loopVars PROVE BeatInv'
<1> USE WorkerLoopAssumption DEF BeatInv, LoopShape, BeatIsDue, AHeartbeatMeansWork, Step, Unset, At
<1>1. ASSUME NEW w \in Worker, BeginPass(w) PROVE BeatInv'
  <2>1. LoopShape'
    BY <1>1 DEF BeginPass, GoTo
  <2>2. BeatIsDue'
    BY <1>1 DEF BeginPass, GoTo
  <2>3. doneFor' = doneFor /\ \A v \in Worker \ {w} : beatFor'[v] = beatFor[v]
    BY <1>1 DEF BeginPass
  <2>4. \/ beatFor'[w] = beatFor[w]
        \/ beatFor'[w] = 0 /\ doneFor[w] \in 0 .. 1
    <3>1. finished[w] => doneFor[w] \in 0 .. 1
      BY <1>1 DEF BeginPass
    <3> QED
      BY <3>1, <1>1 DEF BeginPass
  <2>5. AHeartbeatMeansWork'
    BY <2>3, <2>4
  <2> QED
    BY <2>1, <2>2, <2>5
<1>2. ASSUME NEW w \in Worker, Ingest(w) PROVE BeatInv'
  BY <1>2 DEF Ingest, GoTo, Throw, ages
<1>3. ASSUME NEW w \in Worker, SyncNothing(w) PROVE BeatInv'
  BY <1>3 DEF SyncNothing, GoTo, Throw, ages
<1>4. ASSUME NEW w \in Worker, BeginSync(w) PROVE BeatInv'
  BY <1>4 DEF BeginSync, GoTo, ages
<1>5. ASSUME NEW w \in Worker, EndSync(w) PROVE BeatInv'
  BY <1>5 DEF EndSync, GoTo, ages
<1>6. ASSUME NEW w \in Worker, Sweep(w) PROVE BeatInv'
  BY <1>6 DEF Sweep, GoTo, Throw
<1>7. ASSUME NEW w \in Worker, Drain(w) PROVE BeatInv'
  <2>1. CASE refusing
    BY <1>7, <2>1 DEF Drain, GoTo, Throw
  <2>2. CASE ~refusing
    <3>1. /\ doneFor' = [doneFor EXCEPT ![w] = 0] /\ finished' = [finished EXCEPT ![w] = TRUE]
          /\ step' \in {[step EXCEPT ![w] = "top"], [step EXCEPT ![w] = "resting"]}
          /\ late' = late /\ beatFor' = beatFor /\ ~late[w]
      BY <1>7, <2>2 DEF Drain, GoTo
    <3>2. LoopShape'
      BY <3>1
    <3>3. BeatIsDue'
      BY <3>1
    <3>4. AHeartbeatMeansWork'
      BY <3>1
    <3> QED
      BY <3>2, <3>3, <3>4
  <2> QED
    BY <2>1, <2>2
<1>8. ASSUME NEW w \in Worker, Wake(w) PROVE BeatInv'
  BY <1>8 DEF Wake, GoTo, ages
<1>9. ASSUME NEW w \in Worker, Kill(w) PROVE BeatInv'
  BY <1>9 DEF Kill, GoTo
<1>10. ASSUME NEW s \in Syncer \ Worker, Button(s) PROVE BeatInv'
  BY <1>10 DEF Button, pass, ages
<1>11. CASE Say \/ Outage \/ Recover
  BY <1>11 DEF Say, Outage, Recover, pass, ages
<1>12. CASE TimePasses
  <2>1. LoopShape'
    BY <1>12 DEF TimePasses, Later
  <2>2. BeatIsDue'
    BY <1>12 DEF TimePasses, Later
  <2>3. AHeartbeatMeansWork'
    BY <1>12 DEF TimePasses, Later
  <2> QED
    BY <2>1, <2>2, <2>3
<1>13. CASE UNCHANGED loopVars
  BY <1>13 DEF loopVars
<1> QED
  BY <1>1, <1>2, <1>3, <1>4, <1>5, <1>6, <1>7, <1>8, <1>9, <1>10, <1>11, <1>12, <1>13
     DEF LoopNext, Pass

(* "A loop going round and failing every time is not doing its job"         *)
(* (run-outbox-loop.ts): for any number of workers, a heartbeat young       *)
(* enough for the healthcheck vouches for a pass that got all the way       *)
(* round, however many have thrown or been killed since.                    *)
THEOREM HeartbeatsVouchForWork == LoopSpec => []AHeartbeatMeansWork
<1>1. LoopInit => BeatInv
  BY WorkerLoopAssumption
     DEF LoopInit, BeatInv, LoopShape, BeatIsDue, AHeartbeatMeansWork, Step, Unset
<1>2. BeatInv /\ [LoopNext]_loopVars => BeatInv'
  BY BeatIsKept
<1>3. BeatInv => AHeartbeatMeansWork
  BY DEF BeatInv
<1> QED
  BY <1>1, <1>2, <1>3, PTL DEF LoopSpec

-----------------------------------------------------------------------------
(* The inductive invariant.                                                 *)

Phases == {"idle", "fetched", "raising", "posted", "read", "pushing"}

Reply == [id : Issue, title : 0 .. now, closed : BOOLEAN, updated : 0 .. now,
          label : Board \union {NoLabel}]
Wait == [card : Card, title : 0 .. now]
Look == [id : Card, issue : Issue, list : Board, title : 0 .. now, touched : 0 .. now]
Ask == [id : Issue, reword : BOOLEAN, title : 0 .. now, close : BOOLEAN, closed : BOOLEAN]
Tag == [id : Issue, list : Board]

(* A card and an issue, with the clock at t.                                *)
CardAt(t) == [is : {"unmade", "here", "gone"}, list : Board, title : 0..t, touched : 0..t,
              issue : Issue \union {NoIssue}]
IssueAt(t) == [made : BOOLEAN, title : 0..t, closed : BOOLEAN, updated : 0..t,
               label : Board \union {NoLabel}, spoken : 0..t, raisedFor : Card \union {0}]

SidesAreTyped ==
  /\ now \in Nat /\ syncedAt \in 0..now
  /\ card \in [Card -> CardAt(now)]
  /\ issue \in [Issue -> IssueAt(now)]
  /\ interrupt \in BOOLEAN
  /\ acts \in 0..MaxActs /\ stops \in 0..MaxStops /\ calm \in -1..2

SyncIsTyped ==
  /\ sync \in [phase : Phases, found : SUBSET Reply, waiting : SUBSET Wait,
               posted : Issue \union {NoIssue}, read : SUBSET Look, turnedDown : SUBSET Issue,
               changes : SUBSET Ask, labels : SUBSET Tag]
  /\ sync.phase = "idle" => sync = Idle
  /\ sync.phase \in {"idle", "pushing"} => sync.found = {}
  /\ sync.phase \notin {"raising", "posted"} => sync.waiting = {}
  /\ sync.phase = "posted" => sync.waiting # {} /\ sync.posted # NoIssue
  /\ sync.phase # "posted" => sync.posted = NoIssue
  /\ sync.phase # "read" => sync.read = {}
  /\ sync.phase # "pushing" => sync.changes = {} /\ sync.labels = {}

(* Both sides make things in order.                                         *)
MadeInOrder ==
  /\ Made = 1 .. Cardinality(Made)
  /\ \A c, d \in Card : c < d /\ card[c].is = "unmade" => card[d].is = "unmade"

(* Who stands for what, and what was turned down.                           *)
LinksHold ==
  /\ \A c \in Card : card[c].issue # NoIssue => card[c].issue \in Made /\ card[c].is # "unmade"
  /\ \A c, d \in Card : Here(c) /\ Here(d) /\ card[c].issue # NoIssue /\ card[c].issue = card[d].issue => c = d
  /\ dismissed \subseteq Made
  /\ \A c \in Card : card[c].is = "gone" /\ card[c].issue # NoIssue => card[c].issue \in dismissed
  /\ \A c \in Card : Here(c) => card[c].issue \notin dismissed
  /\ \A i \in dismissed : \E c \in Card : card[c].issue = i

(* What a sync carries is about what there is.                              *)
SyncHolds ==
  /\ \A f \in sync.found : f.id \in Made /\ f.updated <= issue[f.id].updated
  /\ \A f, g \in sync.found : f.id = g.id => f = g
  /\ \A w \in sync.waiting : card[w.card].is # "unmade" /\ card[w.card].issue = NoIssue
  /\ \A v, w \in sync.waiting : v.card = w.card => v = w
  /\ sync.posted # NoIssue => sync.posted \in Made /\ \A c \in Card : card[c].issue # sync.posted
  /\ \A k \in sync.read : card[k.id].issue = k.issue
  /\ \A k, l \in sync.read : k.id = l.id => k = l
  /\ sync.phase = "read" =>
       /\ \A c \in Linked : \E k \in sync.read : k.id = c
       /\ \A i \in dismissed : i \in sync.turnedDown \/ \E k \in sync.read : k.issue = i
  /\ \A ch \in sync.changes \union sync.labels : ch.id \in Made

Raised(c) == {i \in Made : issue[i].raisedFor = c}

(* The card whose issue has been made and is not linked yet.                *)
InHand(c) == sync.phase = "posted" /\ NextWaiting.card = c

(* A stop costs a card no more than the issue in hand.                      *)
RaisesAreCounted ==
  \A c \in Card :
    /\ Cardinality(Raised(c)) <= 1 + stops
    /\ card[c].is = "unmade" => Raised(c) = {}
    /\ (Here(c) /\ card[c].issue = NoIssue) \/ (\E w \in sync.waiting : w.card = c)
         => InHand(c) \/ Cardinality(Raised(c)) <= stops

OneCard == SidesAreTyped /\ SyncIsTyped /\ MadeInOrder /\ LinksHold /\ SyncHolds /\ RaisesAreCounted

(* When nobody works while a sync runs, what it carries is what there is.   *)
SaysTheSame(c) == card[c].title = issue[card[c].issue].title

ForgeSpokeLast(c) ==
  \/ issue[card[c].issue].spoken > card[c].touched
  \/ SaysTheSame(c)
  \/ card[c].touched > issue[card[c].issue].updated

NothingWasDisturbed ==
  /\ \A w \in sync.waiting : Here(w.card) /\ w.title = card[w.card].title
  /\ \A f \in sync.found : f = Answer(f.id)
  /\ \A k \in sync.read : /\ Here(k.id) /\ k.list = card[k.id].list
                          /\ k.title = card[k.id].title /\ k.touched = card[k.id].touched
  /\ sync.phase = "posted" => issue[sync.posted].title = NextWaiting.title
  /\ \A c \in Linked : ForgeSpokeLast(c)
  /\ \A ch \in sync.changes : \A c \in Linked : card[c].issue = ch.id =>
       IF ch.reword THEN ch.title = card[c].title ELSE SaysTheSame(c)
  /\ \A l \in sync.labels : \A c \in Linked : card[c].issue = l.id =>
       SaysTheSame(c) \/ \E ch \in sync.changes : ch.id = l.id /\ ch.reword
  /\ \A ch, other \in sync.changes : ch.id = other.id => ch = other
  /\ stops = 0 => \A i \in Made : issue[i].raisedFor # 0 =>
       \/ card[issue[i].raisedFor].issue = i
       \/ InHand(issue[i].raisedFor) /\ sync.posted = i

IInv == OneCard /\ (~interrupt => NothingWasDisturbed)

-----------------------------------------------------------------------------
(* What is made next, and what is raised next.                              *)

LEMMA SetsAreFinite ==
  ASSUME NEW S, S \subseteq Card \/ S \subseteq Issue
  PROVE  IsFiniteSet(S) /\ Cardinality(S) \in Nat
<1>1. IsFiniteSet(Card) /\ IsFiniteSet(Issue)
  BY SyncAssumption, FS_Interval DEF Card, Issue
<1> QED
  BY <1>1, FS_Subset, FS_CardinalityType

LEMMA NextCardIs ==
  ASSUME SidesAreTyped, MadeInOrder, Unmade # {}
  PROVE  /\ NextCard \in Card /\ card[NextCard].is = "unmade"
         /\ \A c \in Card : card[c].is = "unmade" <=> c >= NextCard
<1>1. Unmade \in SUBSET Nat /\ Card \subseteq Nat
  BY SyncAssumption DEF Unmade, Card
<1>2. \E n \in Unmade : \A m \in Unmade : n <= m
  BY <1>1, LeastNumber
<1>3. NextCard \in Unmade /\ \A m \in Unmade : NextCard <= m
  BY <1>2 DEF NextCard, Min
<1> HIDE DEF NextCard
<1> QED
  BY <1>1, <1>3 DEF Unmade, MadeInOrder

LEMMA NextIssueIs ==
  ASSUME SidesAreTyped, MadeInOrder, NextIssue \in Issue
  PROVE  /\ NextIssue # NoIssue /\ NextIssue \notin Made
         /\ Made \union {NextIssue} = 1 .. Cardinality(Made \union {NextIssue})
<1>1. IsFiniteSet(Made) /\ Cardinality(Made) \in Nat
  BY SetsAreFinite DEF Made
<1> DEFINE n == Cardinality(Made)
<1>2. Made = 1 .. n /\ NextIssue = n + 1 /\ n \in Nat
  BY <1>1 DEF MadeInOrder, NextIssue
<1> HIDE DEF n
<1>3. NextIssue \notin Made /\ Made \union {NextIssue} = 1 .. n + 1
  BY <1>2
<1>4. Cardinality(Made \union {NextIssue}) = n + 1
  BY <1>1, <1>3, FS_AddElement DEF n
<1> QED
  BY <1>2, <1>3, <1>4 DEF NoIssue

LEMMA NextWaitingIs ==
  ASSUME SyncIsTyped, sync.waiting # {}
  PROVE  NextWaiting \in sync.waiting /\ NextWaiting \in Wait /\ NextWaiting.card \in Card
<1>0. sync.waiting \in SUBSET Wait
  BY DEF SyncIsTyped
<1>1. {w.card : w \in sync.waiting} \in SUBSET Nat /\ {w.card : w \in sync.waiting} # {}
  BY <1>0, SyncAssumption DEF Wait, Card
<1>2. \E n \in {w.card : w \in sync.waiting} : \A m \in {w.card : w \in sync.waiting} : n <= m
  BY <1>1, LeastNumber
<1>3. \E w \in sync.waiting : \A v \in sync.waiting : w.card <= v.card
  BY <1>2
<1>4. NextWaiting \in sync.waiting
  BY <1>3 DEF NextWaiting
<1> QED
  BY <1>0, <1>4 DEF Wait

(* The cards an answer's new issues are given: the next ones, one each.     *)
LEMMA NewCardsAre ==
  ASSUME SidesAreTyped, SyncIsTyped, MadeInOrder, SyncHolds, Cardinality(Unseen) <= Cardinality(Unmade)
  PROVE  /\ \A f \in Unseen : NewCardFor(f) \in Card /\ card[NewCardFor(f)].is = "unmade"
         /\ \A f, g \in Unseen : NewCardFor(f) = NewCardFor(g) => f = g
         /\ \A f \in Unseen, c \in Card :
              card[c].is = "unmade" /\ c < NewCardFor(f) => \E g \in Unseen : c = NewCardFor(g)
<1> DEFINE Below(f) == {g \in Unseen : g.id < f.id}
           n == Cardinality(Unseen)
           rank == [f \in Unseen |-> Cardinality(Below(f))]
<1>1. /\ Unseen \subseteq sync.found /\ \A f \in Unseen : f \in Reply /\ f.id \in Issue /\ f.id \in Nat
      /\ \A f, g \in Unseen : f.id = g.id => f = g
  BY SyncAssumption DEF Unseen, SyncIsTyped, SyncHolds, Reply, Issue
<1>2. IsFiniteSet(Unseen)
  <2> DEFINE ids == [f \in Unseen |-> f.id]
  <2>1. ids \in Injection(Unseen, Issue)
    BY <1>1 DEF Injection, IsInjective
  <2>2. IsFiniteSet(Issue)
    BY SetsAreFinite
  <2> QED
    BY <2>1, <2>2, FS_Injection
<1>3. n \in Nat
  BY <1>2, FS_CardinalityType
<1>4. ASSUME NEW f \in Unseen
      PROVE  /\ Below(f) \in SUBSET Unseen /\ IsFiniteSet(Below(f)) /\ f \notin Below(f)
             /\ Cardinality(Below(f)) \in 0 .. n - 1
  <2>1. Below(f) \in SUBSET Unseen /\ f \notin Below(f) /\ Below(f) # Unseen
    BY <1>1
  <2>2. /\ IsFiniteSet(Below(f)) /\ Cardinality(Below(f)) <= n
        /\ Cardinality(Below(f)) # n
    BY <1>2, <2>1, FS_Subset
  <2>3. Cardinality(Below(f)) \in Nat
    BY <2>2, FS_CardinalityType
  <2> QED
    BY <1>3, <2>1, <2>2, <2>3
<1>5. ASSUME NEW f \in Unseen, NEW g \in Unseen, f.id < g.id
      PROVE  Cardinality(Below(f)) # Cardinality(Below(g))
  <2>1. Below(f) \in SUBSET Below(g) /\ f \in Below(g) /\ f \notin Below(f)
    BY <1>1, <1>5
  <2> HIDE DEF Below
  <2> QED
    BY <1>4, <2>1, FS_Subset
<1>6. rank \in Injection(Unseen, 0 .. n - 1)
  <2>1. rank \in [Unseen -> 0 .. n - 1]
    BY <1>4
  <2>2. ASSUME NEW f \in Unseen, NEW g \in Unseen, f # g PROVE rank[f] # rank[g]
    <3>1. f.id < g.id \/ g.id < f.id
      BY <1>1, <2>2
    <3> QED
      BY <1>5, <3>1
  <2> QED
    BY <2>1, <2>2 DEF Injection, IsInjective
<1>7. IsFiniteSet(0 .. n - 1) /\ Cardinality(0 .. n - 1) = n
  BY <1>3, FS_Interval
<1>8. rank \in Surjection(Unseen, 0 .. n - 1)
  BY <1>6, <1>7, FS_Injection
<1>9. \A f \in Unseen : NewCardFor(f) = NextCard + rank[f]
  BY DEF NewCardFor
<1>10. CASE Unseen = {}
  BY <1>10
<1>11. CASE Unseen # {}
  <2>1. Cardinality(Unmade) \in Nat /\ IsFiniteSet(Unmade)
    BY SetsAreFinite DEF Unmade
  <2>2. n # 0
    BY <1>2, <1>11, FS_EmptySet
  <2>3. Unmade # {}
    BY <1>3, <2>1, <2>2, FS_EmptySet
  <2>4. /\ NextCard \in Card /\ card[NextCard].is = "unmade"
        /\ \A c \in Card : card[c].is = "unmade" <=> c >= NextCard
    BY <2>3, NextCardIs
  <2>5. Unmade = NextCard .. MaxCards /\ NextCard \in Nat /\ MaxCards \in Nat
    BY <2>4, SyncAssumption DEF Unmade, Card
  <2> HIDE DEF NextCard
  <2>6. Cardinality(Unmade) = MaxCards - NextCard + 1
    BY <2>4, <2>5, FS_Interval, SyncAssumption DEF Card
  <2>7. n <= MaxCards - NextCard + 1
    BY <2>6
  <2> HIDE DEF rank, n, Below
  <2>8. \A f \in Unseen : rank[f] \in 0 .. n - 1
    BY <1>6 DEF Injection
  <2>9. \A f \in Unseen : NewCardFor(f) \in Card /\ card[NewCardFor(f)].is = "unmade"
    BY <1>3, <1>9, <2>4, <2>5, <2>7, <2>8 DEF Card
  <2>10. \A f, g \in Unseen : NewCardFor(f) = NewCardFor(g) => f = g
    BY <1>3, <1>6, <1>9, <2>5, <2>8 DEF Injection, IsInjective
  <2>11. ASSUME NEW f \in Unseen, NEW c \in Card, card[c].is = "unmade", c < NewCardFor(f)
         PROVE  \E g \in Unseen : c = NewCardFor(g)
    <3>1. c - NextCard \in 0 .. n - 1
      BY <1>3, <1>9, <2>4, <2>5, <2>8, <2>11, SyncAssumption DEF Card
    <3>2. PICK g \in Unseen : rank[g] = c - NextCard
      BY <1>8, <3>1 DEF Surjection
    <3>3. c = NewCardFor(g)
      BY <1>9, <2>5, <3>2, SyncAssumption DEF Card
    <3> QED
      BY <3>3
  <2> QED
    BY <2>9, <2>10, <2>11
<1> QED
  BY <1>10, <1>11

(* What the one transaction of a sync leaves in every card.                 *)
Paired(c, f, k) == f \in sync.found /\ k \in sync.read /\ f.id = k.issue /\ k.id = c

LEMMA WhatIsWritten ==
  ASSUME SidesAreTyped, SyncIsTyped, MadeInOrder, SyncHolds, WriteWhatArrived
  PROVE  /\ \A c \in Card :
              \/ card'[c] = card[c] /\ ~(Here(c) /\ \E f, k : Paired(c, f, k))
              \/ card[c].is = "unmade" /\ \E f \in Unseen : c = NewCardFor(f) /\ card'[c] = Arrival(f)
              \/ /\ Here(c)
                 /\ \E f \in sync.found, k \in sync.read :
                      /\ Paired(c, f, k)
                      /\ card'[c] = [card[c] EXCEPT
                           !.list = IF Settlement(f, k).moves THEN Settlement(f, k).to ELSE @,
                           !.title = IF Settlement(f, k).pulls THEN f.title ELSE @]
         /\ \A f \in Unseen : /\ NewCardFor(f) \in Card /\ card[NewCardFor(f)].is = "unmade"
                              /\ card'[NewCardFor(f)] = Arrival(f)
         /\ \A f, g \in Unseen : NewCardFor(f) = NewCardFor(g) => f = g
         /\ \A f \in Unseen, c \in Card :
              card[c].is = "unmade" /\ c < NewCardFor(f) => \E g \in Unseen : c = NewCardFor(g)
         /\ DOMAIN card' = Card
         /\ card' = [c \in Card |-> card'[c]]
<1> DEFINE settled == {Settlement(p[1], p[2]) : p \in Pairs}
           New(c) == \E f \in Unseen : c = NewCardFor(f)
           Put(c) == IF New(c) THEN Arrival(CHOOSE f \in Unseen : c = NewCardFor(f))
                     ELSE IF Here(c) /\ \E s \in settled : s.card = c
                       THEN LET s == CHOOSE s \in settled : s.card = c
                            IN [card[c] EXCEPT !.list = IF s.moves THEN s.to ELSE @,
                                               !.title = IF s.pulls THEN s.title ELSE @]
                     ELSE card[c]
<1>1. card' = [c \in Card |-> Put(c)] /\ Cardinality(Unseen) <= Cardinality(Unmade)
  BY DEF WriteWhatArrived
<1>2. /\ \A f \in Unseen : NewCardFor(f) \in Card /\ card[NewCardFor(f)].is = "unmade"
      /\ \A f, g \in Unseen : NewCardFor(f) = NewCardFor(g) => f = g
      /\ \A f \in Unseen, c \in Card :
           card[c].is = "unmade" /\ c < NewCardFor(f) => \E g \in Unseen : c = NewCardFor(g)
  BY <1>1, NewCardsAre
<1>3. ASSUME NEW f \in Unseen PROVE Put(NewCardFor(f)) = Arrival(f)
  <2>1. (CHOOSE g \in Unseen : NewCardFor(f) = NewCardFor(g)) = f
    BY <1>2
  <2>2. New(NewCardFor(f))
    OBVIOUS
  <2> QED
    BY <2>1, <2>2
<1>4. ASSUME NEW c \in Card, ~New(c), Here(c), \E s \in settled : s.card = c
      PROVE  \E f \in sync.found, k \in sync.read :
               /\ Paired(c, f, k)
               /\ Put(c) = [card[c] EXCEPT
                    !.list = IF Settlement(f, k).moves THEN Settlement(f, k).to ELSE @,
                    !.title = IF Settlement(f, k).pulls THEN f.title ELSE @]
  <2> DEFINE s == CHOOSE s \in settled : s.card = c
  <2>1. s \in settled /\ s.card = c
    BY <1>4
  <2>2. Put(c) = [card[c] EXCEPT !.list = IF s.moves THEN s.to ELSE @,
                                 !.title = IF s.pulls THEN s.title ELSE @]
    BY <1>4
  <2> HIDE DEF s, Put
  <2>3. PICK p \in Pairs : s = Settlement(p[1], p[2])
    BY <2>1
  <2>4. p[1] \in sync.found /\ p[2] \in sync.read /\ p[1].id = p[2].issue
    BY DEF Pairs
  <2>5. s.card = p[2].id /\ s.title = p[1].title
    BY <2>3 DEF Settlement
  <2>6. Paired(c, p[1], p[2])
    BY <2>1, <2>4, <2>5 DEF Paired
  <2> QED
    BY <2>2, <2>3, <2>4, <2>5, <2>6
<1> HIDE DEF settled
<1>5. ASSUME NEW c \in Card, New(c)
      PROVE  card[c].is = "unmade" /\ \E f \in Unseen : c = NewCardFor(f) /\ card'[c] = Arrival(f)
  <2>1. PICK f \in Unseen : c = NewCardFor(f)
    BY <1>5
  <2>2. card'[c] = Put(c)
    BY <1>1
  <2> HIDE DEF Put
  <2> QED
    BY <1>2, <1>3, <2>1, <2>2
<1>6. ASSUME NEW c \in Card, ~New(c), ~(Here(c) /\ \E s \in settled : s.card = c)
      PROVE  card'[c] = card[c] /\ ~(Here(c) /\ \E f, k : Paired(c, f, k))
  <2>1. card'[c] = card[c]
    BY <1>1, <1>6
  <2>2. ASSUME NEW f, NEW k, Paired(c, f, k) PROVE \E s \in settled : s.card = c
    <3>1. <<f, k>> \in Pairs /\ Settlement(f, k).card = c
      BY <2>2 DEF Paired, Pairs, Settlement
    <3>2. Settlement(f, k) \in settled
      BY <3>1 DEF settled
    <3> QED
      BY <3>1, <3>2
  <2> QED
    BY <1>6, <2>1, <2>2
<1>7. ASSUME NEW c \in Card PROVE card'[c] = Put(c)
  BY <1>1
<1>8. DOMAIN card' = Card /\ card' = [c \in Card |-> card'[c]]
  BY <1>1
<1>9. ASSUME NEW f \in Unseen PROVE card'[NewCardFor(f)] = Arrival(f)
  BY <1>2, <1>3, <1>7
<1>10. ASSUME NEW c \in Card
       PROVE  \/ card'[c] = card[c] /\ ~(Here(c) /\ \E f, k : Paired(c, f, k))
              \/ card[c].is = "unmade" /\ \E f \in Unseen : c = NewCardFor(f) /\ card'[c] = Arrival(f)
              \/ /\ Here(c)
                 /\ \E f \in sync.found, k \in sync.read :
                      /\ Paired(c, f, k)
                      /\ card'[c] = [card[c] EXCEPT
                           !.list = IF Settlement(f, k).moves THEN Settlement(f, k).to ELSE @,
                           !.title = IF Settlement(f, k).pulls THEN f.title ELSE @]
  <2> HIDE DEF Put, New
  <2>1. CASE New(c)
    BY <1>5, <2>1
  <2>2. CASE ~New(c) /\ Here(c) /\ \E s \in settled : s.card = c
    BY <1>4, <1>7, <2>2
  <2>3. CASE ~New(c) /\ ~(Here(c) /\ \E s \in settled : s.card = c)
    BY <1>6, <2>3
  <2> QED
    BY <2>1, <2>2, <2>3
<1> HIDE DEF Put, New
<1> QED
  BY <1>2, <1>8, <1>9, <1>10

(* It takes no card that is there for another, and moves no clock of one.   *)
LEMMA WhatAWriteKeeps ==
  ASSUME SidesAreTyped, SyncIsTyped, MadeInOrder, SyncHolds, WriteWhatArrived
  PROVE  /\ \A c \in Card :
              /\ card[c].is # "unmade" => /\ card'[c].is = card[c].is /\ card'[c].issue = card[c].issue
                                          /\ card'[c].touched = card[c].touched
              /\ card[c].is = "unmade" => card'[c] = card[c] \/ \E f \in Unseen : c = NewCardFor(f)
         /\ \A f \in Unseen : /\ NewCardFor(f) \in Card /\ card[NewCardFor(f)].is = "unmade"
                              /\ card'[NewCardFor(f)].is = "here" /\ card'[NewCardFor(f)].issue = f.id
<1>1. \A c \in Card : card[c] \in CardAt(now)
  BY DEF SidesAreTyped
<1>2. ASSUME NEW c \in Card, card[c].is # "unmade"
      PROVE  /\ card'[c].is = card[c].is /\ card'[c].issue = card[c].issue
             /\ card'[c].touched = card[c].touched
  <2>1. \/ card'[c] = card[c]
        \/ \E f \in sync.found, k \in sync.read :
             card'[c] = [card[c] EXCEPT
               !.list = IF Settlement(f, k).moves THEN Settlement(f, k).to ELSE @,
               !.title = IF Settlement(f, k).pulls THEN f.title ELSE @]
    BY <1>2, WhatIsWritten
  <2>2. ASSUME NEW f \in sync.found, NEW k \in sync.read,
               card'[c] = [card[c] EXCEPT
                 !.list = IF Settlement(f, k).moves THEN Settlement(f, k).to ELSE @,
                 !.title = IF Settlement(f, k).pulls THEN f.title ELSE @]
        PROVE  /\ card'[c].is = card[c].is /\ card'[c].issue = card[c].issue
               /\ card'[c].touched = card[c].touched
    BY <1>1, <2>2 DEF CardAt
  <2> QED
    BY <2>1, <2>2
<1>3. ASSUME NEW c \in Card, card[c].is = "unmade"
      PROVE  card'[c] = card[c] \/ \E f \in Unseen : c = NewCardFor(f)
  BY <1>3, WhatIsWritten DEF Here
<1>4. ASSUME NEW f \in Unseen
      PROVE  /\ NewCardFor(f) \in Card /\ card[NewCardFor(f)].is = "unmade"
             /\ card'[NewCardFor(f)].is = "here" /\ card'[NewCardFor(f)].issue = f.id
  <2>1. NewCardFor(f) \in Card /\ card[NewCardFor(f)].is = "unmade" /\ card'[NewCardFor(f)] = Arrival(f)
    BY WhatIsWritten
  <2>2. Arrival(f).is = "here" /\ Arrival(f).issue = f.id
    BY DEF Arrival
  <2> QED
    BY <2>1, <2>2
<1> QED
  BY <1>2, <1>3, <1>4

LEMMA WhatSettlesIsTyped ==
  ASSUME SidesAreTyped, SyncIsTyped
  PROVE  /\ \A f \in sync.found : f \in Reply
         /\ \A k \in sync.read : k \in Look
         /\ \A f \in sync.found, k \in sync.read : Settlement(f, k).to \in Board /\ Change(f, k) \in Ask
         /\ \A f \in Unseen : /\ f \in sync.found
                              /\ Arrival(f) \in [is : {"here"}, list : Board, title : 0..now,
                                                 touched : 0..now, issue : Issue]
<1>1. \A f \in sync.found : f \in Reply
  BY DEF SyncIsTyped
<1>2. \A k \in sync.read : k \in Look
  BY DEF SyncIsTyped
<1>3. \A f \in Reply, k \in Look : Settlement(f, k).to \in Board
  BY DEF Settlement, Reply, Look, Board
<1>4. \A f \in Reply, k \in Look : Change(f, k) \in Ask
  BY DEF Change, Reply, Look, Ask
<1>5. \A f \in Reply : Arrival(f) \in [is : {"here"}, list : Board, title : 0..now, touched : 0..now, issue : Issue]
  BY DEF Arrival, Reply, Board
<1>6. Unseen \subseteq sync.found
  BY DEF Unseen
<1> QED
  BY <1>1, <1>2, <1>3, <1>4, <1>5, <1>6
-----------------------------------------------------------------------------
(* Types.                                                                   *)

LEMMA TimeOnlyAdds ==
  ASSUME now \in Nat, now' \in Nat, now <= now'
  PROVE  /\ 0 .. now \subseteq 0 .. now'
         /\ Reply \subseteq Reply' /\ Wait \subseteq Wait' /\ Look \subseteq Look' /\ Ask \subseteq Ask'
         /\ Tag' = Tag
<1>1. \A n \in 0 .. now : n \in 0 .. now'
  OBVIOUS
<1> QED
  BY <1>1 DEF Reply, Wait, Look, Ask, Tag

LEMMA WhatIsCarriedStaysTyped ==
  ASSUME SyncIsTyped, now \in Nat, now' \in Nat, now <= now', sync' = sync
  PROVE  SyncIsTyped'
<1>1. SUBSET Reply \subseteq SUBSET Reply' /\ SUBSET Wait \subseteq SUBSET Wait'
      /\ SUBSET Look \subseteq SUBSET Look' /\ SUBSET Ask \subseteq SUBSET Ask'
  BY TimeOnlyAdds
<1>2. Tag' = Tag
  BY TimeOnlyAdds
<1>3. sync \in [phase : Phases, found : SUBSET Reply', waiting : SUBSET Wait',
               posted : Issue \union {NoIssue}, read : SUBSET Look', turnedDown : SUBSET Issue,
               changes : SUBSET Ask', labels : SUBSET Tag]
  <2> HIDE DEF Reply, Wait, Look, Ask, Tag
  <2> QED
    BY <1>1 DEF SyncIsTyped
<1> QED
  BY <1>2, <1>3 DEF SyncIsTyped

LEMMA SidesGrow ==
  ASSUME NEW s \in Nat, NEW t \in Nat, s <= t
  PROVE  CardAt(s) \subseteq CardAt(t) /\ IssueAt(s) \subseteq IssueAt(t)
<1>1. 0 .. s \subseteq 0 .. t
  OBVIOUS
<1> QED
  BY <1>1 DEF CardAt, IssueAt

LEMMA PeopleKeepTypes ==
  ASSUME SidesAreTyped, SyncIsTyped, MadeInOrder, OnTheBoard \/ OnTheForge
  PROVE  SidesAreTyped' /\ SyncIsTyped'
<1>1. Act
  BY DEF OnTheBoard, OnTheForge, CreateCard, UpdateCard, MoveCard, DeleteCard, OpenIssue, RewordIssue,
         CloseOrReopenIssue
<1>2. now \in Nat /\ now' = now + 1 /\ now' \in Nat /\ now \in 0 .. now' /\ now' \in 0 .. now'
  BY <1>1 DEF Act, SidesAreTyped
<1>3. SyncIsTyped'
  BY <1>1, <1>2, WhatIsCarriedStaysTyped DEF Act
<1>4. /\ card \in [Card -> CardAt(now')] /\ issue \in [Issue -> IssueAt(now')]
      /\ \A c \in Card : card[c] \in CardAt(now')
      /\ \A i \in Issue : issue[i] \in IssueAt(now')
  BY <1>2, SidesGrow DEF SidesAreTyped
<1>5. ASSUME card' \in [Card -> CardAt(now')], issue' \in [Issue -> IssueAt(now')]
      PROVE  SidesAreTyped'
  <2>1. syncedAt' \in 0 .. now' /\ interrupt' \in BOOLEAN /\ acts' \in 0 .. MaxActs
        /\ stops' \in 0 .. MaxStops /\ calm' \in -1 .. 2
    BY <1>1, <1>2, SyncAssumption DEF Act, SidesAreTyped
  <2> QED
    BY <1>2, <1>5, <2>1 DEF SidesAreTyped
<1>6. ASSUME NEW l \in Board, CreateCard(l) PROVE SidesAreTyped'
  <2>1. NextCard \in Card
    BY <1>6, NextCardIs DEF CreateCard
  <2>2. [is |-> "here", list |-> l, title |-> now', touched |-> now', issue |-> NoIssue] \in CardAt(now')
    BY <1>2 DEF CardAt
  <2> QED
    BY <1>4, <1>5, <1>6, <2>1, <2>2 DEF CreateCard
<1>7. ASSUME NEW c \in Card, UpdateCard(c) PROVE SidesAreTyped'
  <2>1. [card[c] EXCEPT !.title = now', !.touched = now'] \in CardAt(now')
    BY <1>2, <1>4 DEF CardAt
  <2>2. card' = [card EXCEPT ![c] = [card[c] EXCEPT !.title = now', !.touched = now']]
    BY <1>4, <1>7 DEF UpdateCard, CardAt
  <2> QED
    BY <1>4, <1>5, <1>7, <2>1, <2>2 DEF UpdateCard
<1>8. ASSUME NEW c \in Card, NEW l \in Board, MoveCard(c, l) PROVE SidesAreTyped'
  <2>1. [card[c] EXCEPT !.list = l, !.touched = now'] \in CardAt(now')
    BY <1>2, <1>4 DEF CardAt
  <2>2. card' = [card EXCEPT ![c] = [card[c] EXCEPT !.list = l, !.touched = now']]
    BY <1>4, <1>8 DEF MoveCard, CardAt
  <2> QED
    BY <1>4, <1>5, <1>8, <2>1, <2>2 DEF MoveCard
<1>9. ASSUME NEW c \in Card, DeleteCard(c) PROVE SidesAreTyped'
  <2>1. [card[c] EXCEPT !.is = "gone"] \in CardAt(now')
    BY <1>4 DEF CardAt
  <2> QED
    BY <1>4, <1>5, <1>9, <2>1 DEF DeleteCard
<1>10. ASSUME OpenIssue PROVE SidesAreTyped'
  <2>1. 0 \in 0 .. now'
    BY <1>2
  <2>2. [NoSuchIssue EXCEPT !.made = TRUE, !.title = now', !.updated = now', !.spoken = now'] \in IssueAt(now')
    BY <1>2, <2>1 DEF NoSuchIssue, IssueAt
  <2> QED
    BY <1>4, <1>5, <1>10, <2>2 DEF OpenIssue
<1>11. ASSUME NEW i \in Issue, RewordIssue(i) PROVE SidesAreTyped'
  <2>1. [issue[i] EXCEPT !.title = now', !.updated = now', !.spoken = now'] \in IssueAt(now')
    BY <1>2, <1>4 DEF IssueAt
  <2>2. issue' = [issue EXCEPT ![i] = [issue[i] EXCEPT !.title = now', !.updated = now', !.spoken = now']]
    BY <1>4, <1>11 DEF RewordIssue, IssueAt
  <2> QED
    BY <1>4, <1>5, <1>11, <2>1, <2>2 DEF RewordIssue
<1>12. ASSUME NEW i \in Issue, CloseOrReopenIssue(i) PROVE SidesAreTyped'
  <2>1. [issue[i] EXCEPT !.closed = ~issue[i].closed, !.updated = now', !.spoken = now'] \in IssueAt(now')
    BY <1>2, <1>4 DEF IssueAt
  <2>2. issue' = [issue EXCEPT ![i] = [issue[i] EXCEPT !.closed = ~issue[i].closed, !.updated = now',
                                                       !.spoken = now']]
    BY <1>4, <1>12 DEF CloseOrReopenIssue, IssueAt
  <2> QED
    BY <1>4, <1>5, <1>12, <2>1, <2>2 DEF CloseOrReopenIssue
<1> QED
  BY <1>3, <1>6, <1>7, <1>8, <1>9, <1>10, <1>11, <1>12 DEF OnTheBoard, OnTheForge

LEMMA ASyncKeepsSidesTyped ==
  ASSUME SidesAreTyped, SyncIsTyped, MadeInOrder, SyncHolds, SyncStep \/ Stop
  PROVE  SidesAreTyped'
<1>1. /\ now \in Nat /\ card \in [Card -> CardAt(now)] /\ issue \in [Issue -> IssueAt(now)]
      /\ syncedAt \in 0 .. now /\ interrupt \in BOOLEAN /\ acts \in 0..MaxActs
      /\ stops \in 0..MaxStops /\ calm \in -1..2
  BY DEF SidesAreTyped
<1>2. ASSUME now' = now, card' = card, issue' = issue, interrupt' = interrupt, acts' = acts,
             syncedAt' \in 0 .. now, calm' \in -1..2, stops' \in 0 .. MaxStops
      PROVE SidesAreTyped'
  BY <1>1, <1>2 DEF SidesAreTyped
<1>3. CASE FetchForgeIssues \/ GatherWaiting \/ ReadLinkedCards
  BY <1>1, <1>2, <1>3 DEF FetchForgeIssues, GatherWaiting, ReadLinkedCards
<1>4. CASE Finish
  <2>1. Min({calm + 1, 2}) \in -1 .. 2
    <3>1. \E x \in {calm + 1, 2} : \A y \in {calm + 1, 2} : x <= y
      BY <1>1
    <3>2. Min({calm + 1, 2}) \in {calm + 1, 2} /\ \A y \in {calm + 1, 2} : Min({calm + 1, 2}) <= y
      BY <3>1 DEF Min
    <3>3. \A m : m \in {calm + 1, 2} /\ m <= 2 => m \in -1 .. 2
      BY <1>1
    <3> QED
      BY <3>2, <3>3
  <2> QED
    BY <1>1, <1>2, <1>4, <2>1 DEF Finish
<1>5. CASE Stop
  <2>1. stops + 1 \in 0 .. MaxStops
    BY <1>1, <1>5, SyncAssumption DEF Stop
  <2> QED
    BY <1>1, <1>2, <1>5, <2>1 DEF Stop
<1>6. CASE LinkIssue
  <2>1. NextWaiting.card \in Card /\ sync.posted \in Issue
    <3>1. sync.waiting # {} /\ sync.posted \in Issue
      BY <1>6 DEF SyncIsTyped, LinkIssue
    <3> QED
      BY <3>1, NextWaitingIs
  <2> HIDE DEF NextWaiting
  <2>2. card' \in [Card -> CardAt(now)]
    BY <1>1, <1>6, <2>1 DEF LinkIssue, CardAt
  <2> QED
    BY <1>1, <1>6, <2>2 DEF LinkIssue, SidesAreTyped
<1>7. ASSUME now' = now + 1 PROVE /\ now' \in Nat /\ 0 \in 0 .. now' /\ now' \in 0 .. now' /\ syncedAt \in 0 .. now'
                                  /\ card \in [Card -> CardAt(now')] /\ issue \in [Issue -> IssueAt(now')]
                                  /\ \A i \in Issue : issue[i] \in IssueAt(now')
  <2>1. now' \in Nat /\ 0 \in 0 .. now' /\ now' \in 0 .. now' /\ syncedAt \in 0 .. now' /\ now <= now'
    BY <1>1, <1>7
  <2> QED
    BY <1>1, <2>1, SidesGrow
<1>8. CASE RaiseIssue
  <2>1. NextWaiting.card \in Card /\ NextWaiting.title \in 0 .. now
    BY <1>8, NextWaitingIs DEF RaiseIssue, Wait
  <2>2. now' = now + 1 /\ NextWaiting.title \in 0 .. now'
    BY <1>1, <1>8, <2>1 DEF RaiseIssue
  <2> HIDE DEF NextWaiting
  <2>3. [NoSuchIssue EXCEPT !.made = TRUE, !.title = NextWaiting.title, !.updated = now',
                            !.raisedFor = NextWaiting.card] \in IssueAt(now')
    BY <1>7, <2>1, <2>2 DEF NoSuchIssue, IssueAt
  <2> QED
    BY <1>1, <1>7, <1>8, <2>2, <2>3 DEF RaiseIssue, SidesAreTyped
<1>9. ASSUME NEW ch \in sync.changes, ChangeIssue(ch) PROVE SidesAreTyped'
  <2>1. ch \in Ask /\ ch.id \in Issue
    BY DEF SyncIsTyped, Ask
  <2>2. now' = now + 1 /\ ch.title \in 0 .. now'
    BY <1>1, <1>9, <2>1 DEF ChangeIssue, Ask
  <2> DEFINE r == [issue[ch.id] EXCEPT !.title = IF ch.reword THEN ch.title ELSE @,
                                       !.closed = IF ch.close THEN ch.closed ELSE @, !.updated = now']
  <2>3. r \in IssueAt(now')
    <3>1. issue[ch.id] \in IssueAt(now') /\ now' \in 0 .. now'
      BY <1>7, <2>1, <2>2
    <3>2. ch.reword \in BOOLEAN /\ ch.closed \in BOOLEAN
      BY <2>1 DEF Ask
    <3> QED
      BY <2>2, <3>1, <3>2 DEF IssueAt
  <2>4. issue' = [issue EXCEPT ![ch.id] = r]
    BY <1>7, <1>9, <2>1, <2>2 DEF ChangeIssue, IssueAt
  <2> HIDE DEF r
  <2> QED
    BY <1>1, <1>7, <1>9, <2>1, <2>2, <2>3, <2>4 DEF ChangeIssue, SidesAreTyped
<1>10. ASSUME NEW l \in sync.labels, LabelIssue(l) PROVE SidesAreTyped'
  <2>1. l \in Tag /\ l.id \in Issue /\ now' = now + 1
    BY <1>10 DEF SyncIsTyped, Tag, LabelIssue
  <2> DEFINE r == [issue[l.id] EXCEPT !.label = l.list, !.updated = now']
  <2>2. r \in IssueAt(now')
    <3>1. issue[l.id] \in IssueAt(now') /\ now' \in 0 .. now' /\ l.list \in Board
      BY <1>7, <2>1 DEF Tag
    <3> QED
      BY <3>1 DEF IssueAt
  <2>3. issue' = [issue EXCEPT ![l.id] = r]
    BY <1>7, <1>10, <2>1 DEF LabelIssue, IssueAt
  <2> HIDE DEF r
  <2> QED
    BY <1>1, <1>7, <1>10, <2>1, <2>2, <2>3 DEF LabelIssue, SidesAreTyped
<1>11. CASE WriteWhatArrived
  <2>1. \A c \in Card : card[c] \in CardAt(now)
    BY <1>1
  <2>2. \A f \in Unseen : Arrival(f) \in CardAt(now)
    BY WhatSettlesIsTyped DEF CardAt
  <2>3. \A f \in sync.found, k \in sync.read : Settlement(f, k).to \in Board /\ f.title \in 0 .. now
    BY WhatSettlesIsTyped DEF Reply
  <2>4. ASSUME NEW c \in Card PROVE card'[c] \in CardAt(now)
    <3>1. \/ card'[c] = card[c]
          \/ \E f \in Unseen : card'[c] = Arrival(f)
          \/ \E f \in sync.found, k \in sync.read :
               card'[c] = [card[c] EXCEPT
                 !.list = IF Settlement(f, k).moves THEN Settlement(f, k).to ELSE @,
                 !.title = IF Settlement(f, k).pulls THEN f.title ELSE @]
      BY <1>11, WhatIsWritten
    <3>2. ASSUME NEW f \in sync.found, NEW k \in sync.read,
                 card'[c] = [card[c] EXCEPT
                   !.list = IF Settlement(f, k).moves THEN Settlement(f, k).to ELSE @,
                   !.title = IF Settlement(f, k).pulls THEN f.title ELSE @]
          PROVE  card'[c] \in CardAt(now)
      BY <2>1, <2>3, <3>2 DEF CardAt
    <3> QED
      BY <2>1, <2>2, <3>1, <3>2
  <2>5. card' = [c \in Card |-> card'[c]]
    BY <1>11, WhatIsWritten
  <2>6. card' \in [Card -> CardAt(now)]
    BY <2>4, <2>5
  <2>7. now' = now /\ issue' = issue /\ syncedAt' = now /\ interrupt' = interrupt /\ acts' = acts
        /\ stops' = stops /\ calm' = calm
    BY <1>11 DEF WriteWhatArrived
  <2> QED
    BY <1>1, <2>6, <2>7 DEF SidesAreTyped
<1> QED
  BY <1>3, <1>4, <1>5, <1>6, <1>8, <1>9, <1>10, <1>11 DEF SyncStep

LEMMA ASyncStaysTyped ==
  ASSUME SidesAreTyped, SyncIsTyped, MadeInOrder, LinksHold, SyncHolds, SyncStep \/ Stop
  PROVE  SyncIsTyped'
<1>0. now \in Nat /\ now' \in Nat /\ now <= now'
  <2>1. now' = now \/ now' = now + 1
    BY DEF SyncStep, Stop, FetchForgeIssues, GatherWaiting, RaiseIssue, LinkIssue, ReadLinkedCards,
           WriteWhatArrived, ChangeIssue, LabelIssue, Finish
  <2> QED
    BY <2>1 DEF SidesAreTyped
<1>1. (\A c \in Card : card[c] \in CardAt(now)) /\ (\A i \in Issue : issue[i] \in IssueAt(now))
  BY DEF SidesAreTyped
<1> DEFINE typed(s) == s \in [phase : Phases, found : SUBSET Reply, waiting : SUBSET Wait,
               posted : Issue \union {NoIssue}, read : SUBSET Look, turnedDown : SUBSET Issue,
               changes : SUBSET Ask, labels : SUBSET Tag]
<1>2. typed(Idle)
  BY DEF Idle, Phases
<1>3. typed(sync)
  BY DEF SyncIsTyped
<1>4. ASSUME typed(sync') PROVE sync' \in [phase : Phases, found : SUBSET Reply', waiting : SUBSET Wait',
               posted : Issue \union {NoIssue}, read : SUBSET Look', turnedDown : SUBSET Issue,
               changes : SUBSET Ask', labels : SUBSET Tag']
  <2>1. /\ SUBSET Reply \subseteq SUBSET Reply' /\ SUBSET Wait \subseteq SUBSET Wait'
        /\ SUBSET Look \subseteq SUBSET Look' /\ SUBSET Ask \subseteq SUBSET Ask' /\ Tag' = Tag
    BY <1>0, TimeOnlyAdds
  <2> QED
    BY <1>4, <2>1
<1>5. ASSUME sync' = Idle PROVE SyncIsTyped'
  BY <1>2, <1>4, <1>5 DEF SyncIsTyped, Idle
<1>6. CASE Finish \/ Stop
  BY <1>5, <1>6 DEF Finish, Stop
<1>7. CASE FetchForgeIssues
  <2> DEFINE found == {Answer(i) : i \in Newest \union ChangedSince}
  <2>1. \A i \in Newest \union ChangedSince : i \in Issue
    BY DEF Newest, ChangedSince, Made
  <2>2. \A i \in Issue : Answer(i) \in Reply
    BY <1>1 DEF Answer, Reply, IssueAt
  <2>3. found \in SUBSET Reply
    BY <2>1, <2>2
  <2>4. sync = Idle /\ sync' = [sync EXCEPT !.phase = "fetched", !.found = found]
    BY <1>7 DEF FetchForgeIssues, SyncIsTyped
  <2> HIDE DEF found
  <2>5. typed(sync')
    BY <1>2, <2>3, <2>4 DEF Idle, Phases
  <2> QED
    BY <1>4, <2>4, <2>5 DEF SyncIsTyped, Idle
<1>8. CASE GatherWaiting
  <2> DEFINE toRaise == {[card |-> c, title |-> card[c].title] :
                           c \in {c \in Card \ Private : Here(c) /\ card[c].issue = NoIssue}}
  <2>1. toRaise \in SUBSET Wait
    BY <1>1 DEF Wait, CardAt
  <2>2. sync.phase = "fetched" /\ sync' = [sync EXCEPT !.phase = "raising", !.waiting = toRaise]
    BY <1>8 DEF GatherWaiting
  <2> HIDE DEF toRaise
  <2>3. typed(sync')
    BY <1>3, <2>1, <2>2 DEF Phases
  <2> QED
    BY <1>4, <2>2, <2>3 DEF SyncIsTyped
<1>9. CASE RaiseIssue
  <2>1. /\ sync.phase = "raising" /\ sync.waiting # {} /\ NextIssue \in Issue
        /\ sync' = [sync EXCEPT !.phase = "posted", !.posted = NextIssue]
    BY <1>9 DEF RaiseIssue
  <2>2. NextIssue # NoIssue
    BY <2>1, NextIssueIs
  <2> HIDE DEF NextIssue
  <2>3. typed(sync')
    BY <1>3, <2>1 DEF Phases
  <2> QED
    BY <1>4, <2>1, <2>2, <2>3 DEF SyncIsTyped
<1>10. CASE LinkIssue
  <2> DEFINE toRaise == sync.waiting \ {NextWaiting}
  <2>1. toRaise \in SUBSET Wait
    BY DEF SyncIsTyped
  <2>2. /\ sync.phase = "posted"
        /\ sync' = [sync EXCEPT !.phase = "raising", !.posted = NoIssue, !.waiting = toRaise]
    BY <1>10 DEF LinkIssue
  <2> HIDE DEF toRaise
  <2>3. typed(sync')
    BY <1>3, <2>1, <2>2 DEF Phases
  <2> QED
    BY <1>4, <2>2, <2>3 DEF SyncIsTyped
<1>11. CASE ReadLinkedCards
  <2> DEFINE read == {[id |-> c, issue |-> card[c].issue, list |-> card[c].list,
                       title |-> card[c].title, touched |-> card[c].touched] :
                         c \in {c \in Card : Here(c) /\ card[c].issue # NoIssue}}
  <2>1. read \in SUBSET Look /\ dismissed \in SUBSET Issue
    BY <1>1 DEF Look, CardAt, LinksHold, Made
  <2>2. /\ sync.phase = "raising" /\ sync.waiting = {}
        /\ sync' = [sync EXCEPT !.phase = "read", !.turnedDown = dismissed, !.read = read]
    BY <1>11 DEF ReadLinkedCards
  <2> HIDE DEF read
  <2>3. typed(sync')
    BY <1>3, <2>1, <2>2 DEF Phases
  <2> QED
    BY <1>4, <2>2, <2>3 DEF SyncIsTyped
<1>12. CASE WriteWhatArrived
  <2> DEFINE changed == {Change(p[1], p[2]) : p \in {p \in Pairs : CardChangedLast(p[1], p[2])}}
             changes == {ch \in changed : ch.reword \/ ch.close}
             labels == {Label(p[1], Settlement(p[1], p[2]).to) :
                          p \in {p \in Pairs : p[1].label # Settlement(p[1], p[2]).to}}
                       \union {Label(f, Arrival(f).list) :
                                 f \in {f \in Unseen : f.label # Arrival(f).list}}
  <2>1. sync' = [Idle EXCEPT !.phase = "pushing", !.changes = changes, !.labels = labels]
    BY <1>12 DEF WriteWhatArrived
  <2>2. \A p \in Pairs : p[1] \in sync.found /\ p[2] \in sync.read
    BY DEF Pairs
  <2>3. \A f \in sync.found, k \in sync.read :
          /\ f.id \in Issue /\ Settlement(f, k).to \in Board /\ Change(f, k) \in Ask
          /\ Label(f, Settlement(f, k).to) \in Tag
    <3>1. \A f \in sync.found, k \in sync.read :
            f \in Reply /\ Settlement(f, k).to \in Board /\ Change(f, k) \in Ask
      BY WhatSettlesIsTyped
    <3> QED
      BY <3>1 DEF Reply, Label, Tag
  <2>4. \A f \in Unseen : Label(f, Arrival(f).list) \in Tag
    BY WhatSettlesIsTyped DEF Reply, Label, Tag
  <2>5. changes \in SUBSET Ask /\ labels \in SUBSET Tag
    BY <2>2, <2>3, <2>4
  <2> HIDE DEF changes, labels
  <2>6. typed(sync')
    BY <1>2, <2>1, <2>5 DEF Idle, Phases
  <2> QED
    BY <1>4, <2>1, <2>6 DEF SyncIsTyped, Idle
<1>13. ASSUME NEW ch \in sync.changes, ChangeIssue(ch) PROVE SyncIsTyped'
  <2>1. sync.phase = "pushing" /\ sync' = [sync EXCEPT !.changes = @ \ {ch}]
    BY <1>13 DEF ChangeIssue
  <2>2. typed(sync')
    BY <1>3, <2>1
  <2> QED
    BY <1>4, <2>1, <2>2 DEF SyncIsTyped
<1>14. ASSUME NEW l \in sync.labels, LabelIssue(l) PROVE SyncIsTyped'
  <2>1. sync.phase = "pushing" /\ sync' = [sync EXCEPT !.labels = @ \ {l}]
    BY <1>14 DEF LabelIssue
  <2>2. typed(sync')
    BY <1>3, <2>1
  <2> QED
    BY <1>4, <2>1, <2>2 DEF SyncIsTyped
<1> QED
  BY <1>6, <1>7, <1>8, <1>9, <1>10, <1>11, <1>12, <1>13, <1>14 DEF SyncStep

-----------------------------------------------------------------------------
(* What a step does to the issues and to the cards.                         *)

(* What is made stays made, keeps the card it was raised for, and its       *)
(* clock does not go back; and only two actions make one.                   *)
LEMMA WhatIsMade ==
  ASSUME SidesAreTyped, SyncIsTyped, MadeInOrder, SyncHolds, Next
  PROVE  /\ \A i \in Made : /\ i \in Made' /\ issue'[i].raisedFor = issue[i].raisedFor
                            /\ issue[i].updated <= issue'[i].updated
         /\ ~(OpenIssue \/ RaiseIssue) => Made' = Made
         /\ OpenIssue \/ RaiseIssue =>
              /\ NextIssue \in Issue /\ Made' = Made \union {NextIssue}
              /\ issue' = [issue EXCEPT ![NextIssue] = issue'[NextIssue]]
              /\ OpenIssue => issue'[NextIssue].raisedFor = 0
              /\ RaiseIssue => /\ issue'[NextIssue].raisedFor = NextWaiting.card
                               /\ issue'[NextIssue].title = NextWaiting.title
<1>1. now \in Nat /\ issue \in [Issue -> IssueAt(now)] /\ \A i \in Issue : issue[i] \in IssueAt(now)
  BY DEF SidesAreTyped
<1>2. \A i \in Issue : issue[i].updated \in Nat /\ issue[i].updated <= now
  BY <1>1 DEF IssueAt
<1>3. CASE UNCHANGED issue
  <2>1. ~(OpenIssue \/ RaiseIssue)
    <3>1. ASSUME OpenIssue \/ RaiseIssue PROVE FALSE
      <4>1. NextIssue \in Issue /\ NextIssue \notin Made
        BY <3>1, NextIssueIs DEF OpenIssue, RaiseIssue
      <4> HIDE DEF NextIssue
      <4>2. issue'[NextIssue].made
        BY <1>1, <3>1, <4>1 DEF OpenIssue, RaiseIssue, NoSuchIssue
      <4> QED
        BY <1>3, <4>1, <4>2 DEF Made
    <3> QED
      BY <3>1
  <2> QED
    BY <1>2, <1>3, <2>1 DEF Made
<1>4. CASE OpenIssue \/ RaiseIssue
  <2>1. NextIssue \in Issue /\ NextIssue \notin Made
    BY <1>4, NextIssueIs DEF OpenIssue, RaiseIssue
  <2> HIDE DEF NextIssue, NextWaiting
  <2>2. /\ issue' = [issue EXCEPT ![NextIssue] = issue'[NextIssue]] /\ issue'[NextIssue].made
        /\ OpenIssue => issue'[NextIssue].raisedFor = 0
        /\ RaiseIssue => /\ issue'[NextIssue].raisedFor = NextWaiting.card
                         /\ issue'[NextIssue].title = NextWaiting.title
    BY <1>1, <1>4, <2>1 DEF OpenIssue, RaiseIssue, NoSuchIssue
  <2>3. \A i \in Made : i \in Issue /\ i # NextIssue /\ issue'[i] = issue[i]
    BY <1>1, <2>1, <2>2 DEF Made
  <2>4. Made' = Made \union {NextIssue}
    BY <1>1, <2>1, <2>2 DEF Made
  <2> QED
    BY <1>2, <1>4, <2>1, <2>2, <2>3, <2>4
<1>5. ASSUME NEW i \in Issue, i \in Made, NEW r, issue' = [issue EXCEPT ![i] = r], r.made, now' = now + 1,
             r.raisedFor = issue[i].raisedFor, r.updated = now'
      PROVE  /\ \A j \in Made : /\ j \in Made' /\ issue'[j].raisedFor = issue[j].raisedFor
                                /\ issue[j].updated <= issue'[j].updated
             /\ Made' = Made /\ ~(OpenIssue \/ RaiseIssue)
  <2>1. \A j \in Issue : issue'[j] = IF j = i THEN r ELSE issue[j]
    BY <1>1, <1>5
  <2>2. Made' = Made
    BY <1>5, <2>1 DEF Made
  <2>3. \A j \in Made : /\ issue'[j].raisedFor = issue[j].raisedFor
                        /\ issue[j].updated <= issue'[j].updated
    BY <1>1, <1>2, <1>5, <2>1 DEF Made
  <2>4. ASSUME OpenIssue \/ RaiseIssue PROVE FALSE
    <3>1. NextIssue \in Issue /\ NextIssue \notin Made
      BY <2>4, NextIssueIs DEF OpenIssue, RaiseIssue
    <3> HIDE DEF NextIssue
    <3>2. issue'[NextIssue].made
      BY <1>1, <2>4, <3>1 DEF OpenIssue, RaiseIssue, NoSuchIssue
    <3> QED
      BY <2>2, <3>1, <3>2 DEF Made
  <2> QED
    BY <2>2, <2>3, <2>4
<1>6. ASSUME NEW i \in Issue, RewordIssue(i) \/ CloseOrReopenIssue(i)
      PROVE  \E r : /\ issue' = [issue EXCEPT ![i] = r] /\ r.made /\ now' = now + 1 /\ i \in Made
                    /\ r.raisedFor = issue[i].raisedFor /\ r.updated = now'
  <2>1. issue'[i].made /\ issue'[i].raisedFor = issue[i].raisedFor /\ issue'[i].updated = now'
        /\ i \in Made /\ now' = now + 1
    BY <1>1, <1>6 DEF RewordIssue, CloseOrReopenIssue, Act, Made, IssueAt
  <2>2. issue' = [issue EXCEPT ![i] = issue'[i]]
    BY <1>1, <1>6 DEF RewordIssue, CloseOrReopenIssue
  <2> QED
    BY <2>1, <2>2
<1>7. ASSUME NEW ch \in sync.changes, ChangeIssue(ch)
      PROVE  \E r : /\ issue' = [issue EXCEPT ![ch.id] = r] /\ r.made /\ now' = now + 1 /\ ch.id \in Made
                    /\ r.raisedFor = issue[ch.id].raisedFor /\ r.updated = now'
  <2>1. ch.id \in Made /\ ch.id \in Issue
    BY DEF SyncHolds, Made
  <2>2. /\ issue'[ch.id].made /\ issue'[ch.id].raisedFor = issue[ch.id].raisedFor
        /\ issue'[ch.id].updated = now' /\ now' = now + 1
    BY <1>1, <1>7, <2>1 DEF ChangeIssue, Made, IssueAt
  <2>3. issue' = [issue EXCEPT ![ch.id] = issue'[ch.id]]
    BY <1>1, <1>7, <2>1 DEF ChangeIssue
  <2> QED
    BY <2>1, <2>2, <2>3
<1>8. ASSUME NEW l \in sync.labels, LabelIssue(l)
      PROVE  \E r : /\ issue' = [issue EXCEPT ![l.id] = r] /\ r.made /\ now' = now + 1 /\ l.id \in Made
                    /\ r.raisedFor = issue[l.id].raisedFor /\ r.updated = now'
  <2>1. l.id \in Made /\ l.id \in Issue
    BY DEF SyncHolds, Made
  <2>2. /\ issue'[l.id].made /\ issue'[l.id].raisedFor = issue[l.id].raisedFor
        /\ issue'[l.id].updated = now' /\ now' = now + 1
    BY <1>1, <1>8, <2>1 DEF LabelIssue, Made, IssueAt
  <2>3. issue' = [issue EXCEPT ![l.id] = issue'[l.id]]
    BY <1>1, <1>8, <2>1 DEF LabelIssue
  <2> QED
    BY <2>1, <2>2, <2>3
<1>9. CASE OnTheBoard
  BY <1>3, <1>9 DEF OnTheBoard, CreateCard, UpdateCard, MoveCard, DeleteCard
<1>10. CASE OnTheForge
  BY <1>4, <1>5, <1>6, <1>10 DEF OnTheForge, Made
<1>11. CASE SyncStep
  <2>1. CASE FetchForgeIssues \/ GatherWaiting \/ LinkIssue \/ ReadLinkedCards \/ WriteWhatArrived \/ Finish
    BY <1>3, <2>1 DEF FetchForgeIssues, GatherWaiting, LinkIssue, ReadLinkedCards, WriteWhatArrived, Finish
  <2> QED
    BY <1>4, <1>5, <1>7, <1>8, <1>11, <2>1 DEF SyncStep, Made
<1>12. CASE Stop
  BY <1>3, <1>12 DEF Stop
<1> QED
  BY <1>9, <1>10, <1>11, <1>12 DEF Next

LEMMA OrderIsKept ==
  ASSUME SidesAreTyped, SyncIsTyped, MadeInOrder, SyncHolds, Next
  PROVE  MadeInOrder'
<1>1. Made' = 1 .. Cardinality(Made')
  <2>1. CASE OpenIssue \/ RaiseIssue
    BY <2>1, WhatIsMade, NextIssueIs
  <2>2. CASE ~(OpenIssue \/ RaiseIssue)
    BY <2>2, WhatIsMade DEF MadeInOrder
  <2> QED
    BY <2>1, <2>2
<1> DEFINE Upper(cs) == \A c, d \in Card : c < d /\ cs[c].is = "unmade" => cs[d].is = "unmade"
<1>2. card \in [Card -> CardAt(now)] /\ Upper(card) /\ Card \subseteq Nat
  BY SyncAssumption DEF SidesAreTyped, MadeInOrder, Card
<1> SUFFICES Upper(card')
  BY <1>1 DEF MadeInOrder
<1>3. ASSUME \A c \in Card : card'[c].is = "unmade" <=> card[c].is = "unmade" PROVE Upper(card')
  BY <1>2, <1>3
<1>4. ASSUME NEW l \in Board, CreateCard(l) PROVE Upper(card')
  <2>1. NextCard \in Card /\ \A c \in Card : card[c].is = "unmade" <=> c >= NextCard
    BY <1>4, NextCardIs DEF CreateCard
  <2> HIDE DEF NextCard
  <2>2. \A c \in Card : card'[c].is = "unmade" <=> c > NextCard
    BY <1>2, <1>4, <2>1 DEF CreateCard
  <2> QED
    BY <1>2, <2>1, <2>2
<1>5. ASSUME NEW c \in Card, UpdateCard(c) \/ DeleteCard(c) PROVE Upper(card')
  BY <1>2, <1>3, <1>5 DEF UpdateCard, DeleteCard, Here, CardAt
<1>6. ASSUME NEW c \in Card, NEW l \in Board, MoveCard(c, l) PROVE Upper(card')
  BY <1>2, <1>3, <1>6 DEF MoveCard, CardAt
<1>7. CASE UNCHANGED card
  BY <1>3, <1>7
<1>8. CASE LinkIssue
  <2>1. NextWaiting.card \in Card
    BY <1>8, NextWaitingIs DEF SyncIsTyped, LinkIssue
  <2> HIDE DEF NextWaiting
  <2> QED
    BY <1>2, <1>3, <1>8, <2>1 DEF LinkIssue, CardAt
<1>9. CASE WriteWhatArrived
  <2>1. \A c \in Card :
          /\ card[c].is = "unmade" => card'[c] = card[c] \/ \E f \in Unseen : c = NewCardFor(f)
          /\ card[c].is # "unmade" => card'[c].is = card[c].is
    BY <1>9, WhatAWriteKeeps
  <2>2. \A f \in Unseen : NewCardFor(f) \in Card /\ card'[NewCardFor(f)].is = "here"
    BY <1>9, WhatAWriteKeeps
  <2>3. \A f \in Unseen, c \in Card :
          card[c].is = "unmade" /\ c < NewCardFor(f) => \E g \in Unseen : c = NewCardFor(g)
    BY <1>9, WhatIsWritten
  <2>4. ASSUME NEW c \in Card, NEW d \in Card, c < d, card'[c].is = "unmade" PROVE card'[d].is = "unmade"
    <3>1. card[c].is = "unmade" /\ card[d].is = "unmade"
      BY <1>2, <2>1, <2>4
    <3>2. ASSUME NEW f \in Unseen, d = NewCardFor(f) PROVE FALSE
      BY <2>2, <2>3, <2>4, <3>1, <3>2
    <3> QED
      BY <2>1, <3>1, <3>2
  <2> QED
    BY <2>4
<1>10. CASE OnTheForge \/ Stop
  BY <1>7, <1>10 DEF OnTheForge, OpenIssue, RewordIssue, CloseOrReopenIssue, Stop
<1>11. CASE SyncStep
  <2>1. CASE FetchForgeIssues \/ GatherWaiting \/ RaiseIssue \/ ReadLinkedCards \/ Finish
    BY <1>7, <2>1 DEF FetchForgeIssues, GatherWaiting, RaiseIssue, ReadLinkedCards, Finish
  <2>2. ASSUME NEW ch, ChangeIssue(ch) \/ LabelIssue(ch) PROVE Upper(card')
    BY <1>7, <2>2 DEF ChangeIssue, LabelIssue
  <2> QED
    BY <1>8, <1>9, <1>11, <2>1, <2>2 DEF SyncStep
<1> QED
  BY <1>4, <1>5, <1>6, <1>10, <1>11 DEF Next, OnTheBoard

(* But for the two writes of a sync, no card comes to stand for an issue;   *)
(* a card goes only where it is deleted, and leaves its note.               *)
LEMMA WhatBecomesOfCards ==
  ASSUME SidesAreTyped, SyncIsTyped, MadeInOrder, LinksHold, Next, ~LinkIssue, ~WriteWhatArrived
  PROVE  /\ \A c \in Card : card'[c].issue = card[c].issue
         /\ \A c \in Card : \/ card'[c].is = card[c].is
                            \/ card[c].is = "unmade" /\ card'[c].is = "here"
                            \/ Here(c) /\ card'[c].is = "gone"
         /\ \A c \in Card : Here(c) /\ card'[c].is = "gone" /\ card[c].issue # NoIssue
                              => card[c].issue \in dismissed'
         /\ \A i \in dismissed : i \in dismissed'
         /\ \A i \in dismissed' : i \in dismissed \/ \E c \in Card : /\ Here(c) /\ card'[c].is = "gone"
                                                                    /\ i = card[c].issue /\ i # NoIssue
<1>1. card \in [Card -> CardAt(now)]
  BY DEF SidesAreTyped
<1>2. ASSUME dismissed' = dismissed,
             \A c \in Card : /\ card'[c].issue = card[c].issue
                             /\ \/ card'[c].is = card[c].is
                                \/ card[c].is = "unmade" /\ card'[c].is = "here"
      PROVE  \A c \in Card : ~(Here(c) /\ card'[c].is = "gone")
  <2>1. ASSUME NEW c \in Card, Here(c) PROVE card'[c].is = "here"
    BY <1>2, <2>1 DEF Here
  <2> QED
    BY <2>1
<1>3. CASE card' = card /\ dismissed' = dismissed
  BY <1>2, <1>3
<1>4. ASSUME NEW l \in Board, CreateCard(l)
      PROVE  /\ dismissed' = dismissed
             /\ \A c \in Card : /\ card'[c].issue = card[c].issue
                                /\ \/ card'[c].is = card[c].is
                                   \/ card[c].is = "unmade" /\ card'[c].is = "here"
  <2>1. NextCard \in Card /\ card[NextCard].is = "unmade"
    BY <1>4, NextCardIs DEF CreateCard
  <2>2. card[NextCard].issue = NoIssue
    BY <2>1 DEF LinksHold
  <2> HIDE DEF NextCard
  <2> QED
    BY <1>1, <1>4, <2>1, <2>2 DEF CreateCard
<1>5. ASSUME NEW c \in Card, UpdateCard(c) \/ \E l \in Board : MoveCard(c, l)
      PROVE  /\ dismissed' = dismissed
             /\ \A d \in Card : card'[d].issue = card[d].issue /\ card'[d].is = card[d].is
  <2>1. CASE UpdateCard(c)
    BY <1>1, <2>1 DEF UpdateCard, CardAt
  <2>2. ASSUME NEW l \in Board, MoveCard(c, l)
        PROVE  /\ dismissed' = dismissed
               /\ \A d \in Card : card'[d].issue = card[d].issue /\ card'[d].is = card[d].is
    BY <1>1, <2>2 DEF MoveCard, CardAt
  <2> QED
    BY <1>5, <2>1, <2>2
<1>6. ASSUME NEW c \in Card, DeleteCard(c)
      PROVE  /\ Here(c) /\ dismissed' = dismissed \union ({card[c].issue} \ {NoIssue})
             /\ \A d \in Card : card'[d].issue = card[d].issue
             /\ \A d \in Card : d # c => card'[d].is = card[d].is
             /\ card'[c].is = "gone"
  BY <1>1, <1>6 DEF DeleteCard, CardAt
<1>7. CASE OnTheBoard
  <2>1. CASE \E c \in Card : DeleteCard(c)
    <3>1. PICK c \in Card : DeleteCard(c)
      BY <2>1
    <3>2. \A d \in Card : Here(d) /\ card'[d].is = "gone" => d = c
      BY <1>6, <3>1 DEF Here
    <3> QED
      BY <1>6, <3>1, <3>2
  <2>2. CASE ~\E c \in Card : DeleteCard(c)
    <3>1. /\ dismissed' = dismissed
          /\ \A c \in Card : /\ card'[c].issue = card[c].issue
                             /\ \/ card'[c].is = card[c].is
                                \/ card[c].is = "unmade" /\ card'[c].is = "here"
      BY <1>4, <1>5, <1>7, <2>2 DEF OnTheBoard
    <3> QED
      BY <1>2, <3>1
  <2> QED
    BY <2>1, <2>2
<1>8. CASE OnTheForge \/ Stop
  BY <1>3, <1>8 DEF OnTheForge, OpenIssue, RewordIssue, CloseOrReopenIssue, Stop
<1>9. CASE SyncStep
  <2>1. card' = card /\ dismissed' = dismissed
    BY <1>9 DEF SyncStep, FetchForgeIssues, GatherWaiting, RaiseIssue, ReadLinkedCards, ChangeIssue,
                LabelIssue, Finish
  <2> QED
    BY <1>3, <2>1
<1> QED
  BY <1>7, <1>8, <1>9 DEF Next

LEMMA LinksAreKept ==
  ASSUME SidesAreTyped, SyncIsTyped, MadeInOrder, LinksHold, SyncHolds, Next
  PROVE  LinksHold'
<1>1. /\ \A i \in Made : i \in Made' /\ i # NoIssue
      /\ \A c \in Card : card[c] \in CardAt(now)
  BY WhatIsMade, SyncAssumption DEF Made, Issue, NoIssue, SidesAreTyped
<1>2. CASE ~LinkIssue /\ ~WriteWhatArrived
  <2>1. /\ \A c \in Card : card'[c].issue = card[c].issue
        /\ \A c \in Card : \/ card'[c].is = card[c].is
                           \/ card[c].is = "unmade" /\ card'[c].is = "here"
                           \/ Here(c) /\ card'[c].is = "gone"
        /\ \A c \in Card : Here(c) /\ card'[c].is = "gone" /\ card[c].issue # NoIssue
                             => card[c].issue \in dismissed'
        /\ \A i \in dismissed : i \in dismissed'
        /\ \A i \in dismissed' : i \in dismissed \/ \E c \in Card : /\ Here(c) /\ card'[c].is = "gone"
                                                                   /\ i = card[c].issue /\ i # NoIssue
    BY <1>2, WhatBecomesOfCards
  <2>2. \A c \in Card : card'[c].issue # NoIssue => card'[c].issue \in Made' /\ card'[c].is # "unmade"
    BY <1>1, <2>1 DEF LinksHold, Here
  <2>3. \A c \in Card : card'[c].is = "here" /\ card'[c].issue # NoIssue => Here(c)
    BY <1>1, <2>1 DEF LinksHold, Here
  <2>4. \A c, d \in Card : card'[c].is = "here" /\ card'[d].is = "here" /\ card'[c].issue # NoIssue
                             /\ card'[c].issue = card'[d].issue => c = d
    BY <2>1, <2>3 DEF LinksHold
  <2>5. dismissed' \subseteq Made'
    BY <1>1, <2>1 DEF LinksHold
  <2>6. \A c \in Card : card'[c].is = "gone" /\ card'[c].issue # NoIssue => card'[c].issue \in dismissed'
    BY <2>1 DEF LinksHold
  <2>7. \A c \in Card : card'[c].is = "here" => card'[c].issue \notin dismissed'
    <3>1. ASSUME NEW c \in Card, card'[c].is = "here", card'[c].issue \in dismissed' PROVE FALSE
      <4>1. card[c].issue # NoIssue
        BY <1>1, <2>1, <2>5, <3>1 DEF LinksHold, Made, Issue, NoIssue
      <4>2. Here(c)
        BY <2>1, <2>3, <3>1, <4>1
      <4>3. card[c].issue \notin dismissed
        BY <4>2 DEF LinksHold
      <4>4. PICK d \in Card : Here(d) /\ card'[d].is = "gone" /\ card[c].issue = card[d].issue
        BY <2>1, <3>1, <4>3
      <4> QED
        BY <3>1, <4>1, <4>2, <4>4 DEF LinksHold
    <3> QED
      BY <3>1
  <2>8. \A i \in dismissed' : \E c \in Card : card'[c].issue = i
    BY <2>1 DEF LinksHold
  <2> QED
    BY <2>2, <2>4, <2>5, <2>6, <2>7, <2>8 DEF LinksHold, Here
<1>3. CASE LinkIssue
  <2> DEFINE w == NextWaiting.card
  <2>1. /\ sync.waiting # {} /\ sync.posted # NoIssue
        /\ NextWaiting \in sync.waiting /\ w \in Card
    BY <1>3, NextWaitingIs DEF LinkIssue, SyncIsTyped
  <2>2. /\ card[w].is # "unmade" /\ card[w].issue = NoIssue
        /\ sync.posted \in Made /\ \A c \in Card : card[c].issue # sync.posted
    BY <2>1 DEF SyncHolds
  <2>3. card' = [card EXCEPT ![w].issue = IF Here(w) THEN sync.posted ELSE @] /\ dismissed' = dismissed
    BY <1>3 DEF LinkIssue
  <2> HIDE DEF w
  <2>4. /\ card'[w].issue = IF Here(w) THEN sync.posted ELSE NoIssue
        /\ \A c \in Card : c # w => card'[c].issue = card[c].issue
        /\ \A c \in Card : card'[c].is = card[c].is
    BY <1>1, <2>1, <2>2, <2>3 DEF CardAt, SidesAreTyped
  <2>5. sync.posted \notin dismissed /\ NoIssue \notin dismissed
    BY <1>1, <2>2 DEF LinksHold
  <2>6. \A c \in Card : card'[c].issue # NoIssue => card'[c].issue \in Made' /\ card'[c].is # "unmade"
    BY <1>1, <2>2, <2>4 DEF LinksHold
  <2>7. \A c, d \in Card : card'[c].is = "here" /\ card'[d].is = "here" /\ card'[c].issue # NoIssue
                             /\ card'[c].issue = card'[d].issue => c = d
    BY <2>2, <2>4 DEF LinksHold, Here
  <2>8. /\ dismissed' \subseteq Made'
        /\ \A c \in Card : card'[c].is = "gone" /\ card'[c].issue # NoIssue => card'[c].issue \in dismissed'
        /\ \A c \in Card : card'[c].is = "here" => card'[c].issue \notin dismissed'
    BY <1>1, <2>2, <2>3, <2>4, <2>5 DEF LinksHold, Here
  <2>9. \A i \in dismissed' : \E c \in Card : card'[c].issue = i
    BY <2>2, <2>3, <2>4, <2>5 DEF LinksHold
  <2> QED
    BY <2>6, <2>7, <2>8, <2>9 DEF LinksHold, Here
<1>4. CASE WriteWhatArrived
  <2>1. /\ \A c \in Card :
             /\ card[c].is # "unmade" => card'[c].is = card[c].is /\ card'[c].issue = card[c].issue
             /\ card[c].is = "unmade" => card'[c] = card[c] \/ \E f \in Unseen : c = NewCardFor(f)
        /\ \A f \in Unseen : /\ NewCardFor(f) \in Card /\ card[NewCardFor(f)].is = "unmade"
                             /\ card'[NewCardFor(f)].is = "here" /\ card'[NewCardFor(f)].issue = f.id
    BY <1>4, WhatAWriteKeeps
  <2>2. sync.phase = "read" /\ dismissed' = dismissed
    BY <1>4 DEF WriteWhatArrived
  <2>3. \A f \in Unseen : /\ f.id \in Made /\ f.id \notin dismissed
                          /\ \A c \in Card : card[c].issue # f.id
    <3>1. ASSUME NEW f \in Unseen PROVE /\ f.id \in Made /\ f.id \notin dismissed
                                        /\ \A c \in Card : card[c].issue # f.id
      <4>1. /\ f \in sync.found /\ f.id \in Made /\ f.id # NoIssue
            /\ f.id \notin sync.turnedDown /\ \A k \in sync.read : k.issue # f.id
        BY <1>1 DEF Unseen, SyncHolds
      <4>2. f.id \notin dismissed
        BY <2>2, <4>1 DEF SyncHolds
      <4>3. ASSUME NEW c \in Card, card[c].issue = f.id PROVE FALSE
        <5>1. card[c].is # "unmade" /\ card[c].is # "gone"
          BY <4>1, <4>2, <4>3 DEF LinksHold
        <5>2. c \in Linked
          BY <1>1, <4>1, <4>3, <5>1 DEF Linked, Here, CardAt
        <5> QED
          BY <2>2, <4>1, <4>3, <5>2 DEF SyncHolds
      <4> QED
        BY <4>1, <4>2, <4>3
    <3> QED
      BY <3>1
  <2>4. \A f, g \in Unseen : f.id = g.id => f = g
    BY DEF Unseen, SyncHolds
  <2>5. ASSUME NEW c \in Card
        PROVE  \/ card'[c].is = card[c].is /\ card'[c].issue = card[c].issue
               \/ \E f \in Unseen : /\ c = NewCardFor(f) /\ card[c].is = "unmade"
                                    /\ card'[c].is = "here" /\ card'[c].issue = f.id
    BY <2>1
  <2>6. \A c \in Card : card'[c].issue # NoIssue => card'[c].issue \in Made' /\ card'[c].is # "unmade"
    BY <1>1, <2>3, <2>5 DEF LinksHold
  <2>7. ASSUME NEW c \in Card, NEW d \in Card, card'[c].is = "here", card'[d].is = "here",
               card'[c].issue # NoIssue, card'[c].issue = card'[d].issue
        PROVE  c = d
    BY <2>3, <2>4, <2>5, <2>7 DEF LinksHold, Here
  <2>8. /\ dismissed' \subseteq Made'
        /\ \A c \in Card : card'[c].is = "gone" /\ card'[c].issue # NoIssue => card'[c].issue \in dismissed'
        /\ \A c \in Card : card'[c].is = "here" => card'[c].issue \notin dismissed'
    BY <1>1, <2>2, <2>3, <2>5 DEF LinksHold, Here
  <2>9. ASSUME NEW i \in dismissed' PROVE \E c \in Card : card'[c].issue = i
    <3>1. PICK c \in Card : card[c].issue = i
      BY <2>2 DEF LinksHold
    <3>2. i # NoIssue
      BY <1>1, <2>2 DEF LinksHold
    <3>3. card'[c].issue = i
      BY <2>5, <3>1, <3>2 DEF LinksHold
    <3> QED
      BY <3>3
  <2> QED
    BY <2>6, <2>7, <2>8, <2>9 DEF LinksHold, Here
<1> QED
  BY <1>2, <1>3, <1>4

LEMMA WhatIsCarriedHolds ==
  ASSUME SidesAreTyped, SyncIsTyped, MadeInOrder, LinksHold, SyncHolds, Next
  PROVE  SyncHolds'
<1>1. /\ \A i \in Made : i \in Made' /\ i \in Issue /\ i # NoIssue /\ issue[i].updated <= issue'[i].updated
      /\ \A c \in Card : card[c] \in CardAt(now)
      /\ \A i \in Issue : issue[i].updated \in Nat /\ issue'[i].updated \in Nat
  <2>1. SidesAreTyped'
    BY ASyncKeepsSidesTyped, PeopleKeepTypes DEF Next
  <2>2. \A i \in Issue : issue[i].updated \in Nat /\ issue'[i].updated \in Nat
    BY <2>1 DEF SidesAreTyped, IssueAt
  <2> QED
    BY <2>2, WhatIsMade, SyncAssumption DEF Made, Issue, NoIssue, SidesAreTyped
<1>2. /\ \A f \in sync.found : f \in Reply /\ f.id \in Made /\ f.updated <= issue[f.id].updated
      /\ \A f \in sync.found : f.id \in Made' /\ f.updated <= issue'[f.id].updated
  <2>1. \A f \in sync.found : f \in Reply /\ f.updated \in Int
    <3>1. \A f \in sync.found : f \in Reply /\ now \in Nat
      BY DEF SyncIsTyped, SidesAreTyped
    <3> QED
      BY <3>1 DEF Reply
  <2> QED
    BY <1>1, <2>1 DEF SyncHolds
<1>3. ASSUME sync' = Idle PROVE SyncHolds'
  BY <1>3 DEF SyncHolds, Idle, NoIssue
<1>4. ASSUME ~LinkIssue, ~WriteWhatArrived
      PROVE  /\ \A c \in Card : card'[c].issue = card[c].issue
             /\ \A c \in Card : card[c].is # "unmade" => card'[c].is # "unmade"
             /\ \A c \in Card : card'[c].is = "here" /\ card'[c].issue # NoIssue => Here(c)
             /\ \A i \in dismissed' : i \in dismissed \/ \E c \in Linked : i = card[c].issue
  <2>1. /\ \A c \in Card : card'[c].issue = card[c].issue
        /\ \A c \in Card : \/ card'[c].is = card[c].is
                           \/ card[c].is = "unmade" /\ card'[c].is = "here"
                           \/ Here(c) /\ card'[c].is = "gone"
        /\ \A i \in dismissed' : i \in dismissed \/ \E c \in Card : /\ Here(c) /\ card'[c].is = "gone"
                                                                   /\ i = card[c].issue /\ i # NoIssue
    BY <1>4, WhatBecomesOfCards
  <2>2. \A c \in Card : card[c].is = "unmade" => card[c].issue = NoIssue
    BY DEF LinksHold
  <2> QED
    BY <2>1, <2>2 DEF Here, Linked
<1>5. ASSUME ~LinkIssue, ~WriteWhatArrived, UNCHANGED sync PROVE SyncHolds'
  <2>1. \A w \in sync.waiting : w.card \in Card
    BY DEF SyncIsTyped, Wait
  <2>2. \A k \in sync.read : k.id \in Card
    BY DEF SyncIsTyped, Look
  <2>3. \A w \in sync.waiting : card'[w.card].is # "unmade" /\ card'[w.card].issue = NoIssue
    BY <1>4, <1>5, <2>1 DEF SyncHolds
  <2>4. sync.posted # NoIssue => sync.posted \in Made' /\ \A c \in Card : card'[c].issue # sync.posted
    BY <1>1, <1>4, <1>5 DEF SyncHolds
  <2>5. \A k \in sync.read : card'[k.id].issue = k.issue
    BY <1>4, <1>5, <2>2 DEF SyncHolds
  <2>6. sync.phase = "read" =>
          /\ \A c \in Card : card'[c].is = "here" /\ card'[c].issue # NoIssue => \E k \in sync.read : k.id = c
          /\ \A i \in dismissed' : i \in sync.turnedDown \/ \E k \in sync.read : k.issue = i
    <3>1. ASSUME sync.phase = "read", NEW c \in Linked
          PROVE  \E k \in sync.read : k.id = c /\ k.issue = card[c].issue
      BY <3>1 DEF SyncHolds
    <3>2. \A c \in Card : card'[c].is = "here" /\ card'[c].issue # NoIssue => c \in Linked
      BY <1>4, <1>5 DEF Linked
    <3> QED
      BY <1>4, <1>5, <3>1, <3>2 DEF SyncHolds
  <2>7. \A ch \in sync.changes \union sync.labels : ch.id \in Made'
    BY <1>1 DEF SyncHolds
  <2> QED
    BY <1>2, <1>5, <2>3, <2>4, <2>5, <2>6, <2>7 DEF SyncHolds, Linked, Here
<1>6. CASE OnTheBoard \/ OnTheForge
  <2>1. UNCHANGED sync
    BY <1>6 DEF OnTheBoard, OnTheForge, CreateCard, UpdateCard, MoveCard, DeleteCard, OpenIssue,
                RewordIssue, CloseOrReopenIssue, Act
  <2>2. ~LinkIssue /\ ~WriteWhatArrived
    <3>1. LinkIssue \/ WriteWhatArrived => sync'.phase # sync.phase
      BY DEF LinkIssue, WriteWhatArrived, SyncIsTyped, Idle
    <3> QED
      BY <2>1, <3>1
  <2> QED
    BY <1>5, <2>1, <2>2
<1>7. CASE Finish \/ Stop
  BY <1>3, <1>7 DEF Finish, Stop
<1>8. CASE FetchForgeIssues
  <2> DEFINE found == {Answer(i) : i \in Newest \union ChangedSince}
  <2>1. sync = Idle /\ sync' = [sync EXCEPT !.phase = "fetched", !.found = found] /\ UNCHANGED <<card, issue, dismissed>>
    BY <1>8 DEF FetchForgeIssues, SyncIsTyped
  <2>2. \A i \in Newest \union ChangedSince : i \in Made
    BY DEF Newest, ChangedSince
  <2>3. \A i \in Made : Answer(i).id = i /\ Answer(i).updated <= issue[i].updated
    BY <1>1 DEF Answer
  <2>4. /\ \A f \in found : f.id \in Made /\ f.updated <= issue[f.id].updated
        /\ \A f, g \in found : f.id = g.id => f = g
    BY <2>2, <2>3
  <2> HIDE DEF found
  <2>5. /\ sync'.found = found /\ sync'.phase = "fetched" /\ sync'.waiting = {} /\ sync'.posted = NoIssue
        /\ sync'.read = {} /\ sync'.changes = {} /\ sync'.labels = {} /\ Made' = Made
    BY <2>1 DEF Idle, Made
  <2> QED
    BY <2>1, <2>4, <2>5 DEF SyncHolds
<1>9. CASE GatherWaiting
  <2> DEFINE toRaise == {[card |-> c, title |-> card[c].title] :
                           c \in {c \in Card \ Private : Here(c) /\ card[c].issue = NoIssue}}
  <2>1. /\ sync.phase = "fetched" /\ sync' = [sync EXCEPT !.phase = "raising", !.waiting = toRaise]
        /\ UNCHANGED <<card, issue, dismissed>>
    BY <1>9 DEF GatherWaiting
  <2>2. /\ \A w \in toRaise : card[w.card].is # "unmade" /\ card[w.card].issue = NoIssue
        /\ \A v, w \in toRaise : v.card = w.card => v = w
    BY DEF Here
  <2> HIDE DEF toRaise
  <2>3. /\ sync'.found = sync.found /\ sync'.phase = "raising" /\ sync'.waiting = toRaise
        /\ sync'.posted = NoIssue /\ sync'.read = {} /\ sync'.changes = {} /\ sync'.labels = {} /\ Made' = Made
    BY <2>1 DEF SyncIsTyped, Made
  <2> QED
    BY <2>1, <2>2, <2>3 DEF SyncHolds
<1>10. CASE RaiseIssue
  <2>1. /\ sync.phase = "raising" /\ sync.waiting # {} /\ NextIssue \in Issue
        /\ sync' = [sync EXCEPT !.phase = "posted", !.posted = NextIssue]
        /\ UNCHANGED <<card, dismissed>>
    BY <1>10 DEF RaiseIssue
  <2>2. NextIssue \notin Made /\ NextIssue \in Made' /\ NextIssue # NoIssue
    BY <1>10, <2>1, NextIssueIs, WhatIsMade
  <2> HIDE DEF NextIssue
  <2>3. \A c \in Card : card'[c].issue # NextIssue
    BY <2>1, <2>2 DEF LinksHold
  <2>4. /\ sync'.found = sync.found /\ sync'.phase = "posted" /\ sync'.waiting = sync.waiting
        /\ sync'.posted = NextIssue /\ sync'.read = {} /\ sync'.changes = {} /\ sync'.labels = {}
    BY <2>1 DEF SyncIsTyped
  <2> QED
    BY <1>2, <2>1, <2>2, <2>3, <2>4 DEF SyncHolds
<1>11. CASE LinkIssue
  <2> DEFINE v == NextWaiting
  <2>1. v \in sync.waiting /\ v.card \in Card
    BY <1>11, NextWaitingIs DEF LinkIssue, SyncIsTyped
  <2>2. /\ sync.phase = "posted" /\ UNCHANGED <<issue, dismissed>>
        /\ card' = [card EXCEPT ![v.card].issue = IF Here(v.card) THEN sync.posted ELSE @]
        /\ sync' = [sync EXCEPT !.phase = "raising", !.posted = NoIssue, !.waiting = @ \ {v}]
    BY <1>11 DEF LinkIssue
  <2> HIDE DEF v
  <2>3. \A w \in sync.waiting \ {v} : w.card \in Card /\ w.card # v.card
    BY <2>1 DEF SyncIsTyped, SyncHolds, Wait
  <2>4. \A c \in Card : c # v.card => card'[c] = card[c]
    BY <2>1, <2>2 DEF SidesAreTyped
  <2>5. /\ sync'.found = sync.found /\ sync'.phase = "raising" /\ sync'.waiting = sync.waiting \ {v}
        /\ sync'.posted = NoIssue /\ sync'.read = {} /\ sync'.changes = {} /\ sync'.labels = {}
    BY <2>2 DEF SyncIsTyped
  <2> QED
    BY <1>2, <2>3, <2>4, <2>5 DEF SyncHolds
<1>12. CASE ReadLinkedCards
  <2> DEFINE read == {[id |-> c, issue |-> card[c].issue, list |-> card[c].list,
                       title |-> card[c].title, touched |-> card[c].touched] :
                         c \in {c \in Card : Here(c) /\ card[c].issue # NoIssue}}
  <2>1. /\ sync.phase = "raising" /\ sync.waiting = {}
        /\ sync' = [sync EXCEPT !.phase = "read", !.turnedDown = dismissed, !.read = read]
        /\ UNCHANGED <<card, issue, dismissed>>
    BY <1>12 DEF ReadLinkedCards
  <2>2. /\ \A k \in read : card[k.id].issue = k.issue
        /\ \A k, l \in read : k.id = l.id => k = l
    OBVIOUS
  <2>3. ASSUME NEW c \in Linked PROVE \E k \in read : k.id = c
    <3> DEFINE k == [id |-> c, issue |-> card[c].issue, list |-> card[c].list,
                     title |-> card[c].title, touched |-> card[c].touched]
    <3>1. k \in read
      BY DEF Linked
    <3>2. k.id = c
      OBVIOUS
    <3> QED
      BY <3>1, <3>2
  <2> HIDE DEF read
  <2>4. /\ sync'.found = sync.found /\ sync'.phase = "read" /\ sync'.waiting = {}
        /\ sync'.posted = NoIssue /\ sync'.read = read /\ sync'.changes = {} /\ sync'.labels = {}
        /\ sync'.turnedDown = dismissed
    BY <2>1 DEF SyncIsTyped
  <2>5. Linked' = Linked
    BY <2>1 DEF Linked, Here
  <2> QED
    BY <1>2, <2>1, <2>2, <2>3, <2>4, <2>5 DEF SyncHolds
<1>13. CASE WriteWhatArrived
  <2> DEFINE changed == {Change(p[1], p[2]) : p \in {p \in Pairs : CardChangedLast(p[1], p[2])}}
             changes == {ch \in changed : ch.reword \/ ch.close}
             labels == {Label(p[1], Settlement(p[1], p[2]).to) :
                          p \in {p \in Pairs : p[1].label # Settlement(p[1], p[2]).to}}
                       \union {Label(f, Arrival(f).list) :
                                 f \in {f \in Unseen : f.label # Arrival(f).list}}
  <2>1. sync' = [Idle EXCEPT !.phase = "pushing", !.changes = changes, !.labels = labels]
    BY <1>13 DEF WriteWhatArrived
  <2>2. (\A p \in Pairs : p[1] \in sync.found) /\ \A f \in Unseen : f \in sync.found
    BY DEF Pairs, Unseen
  <2>3. \A f, k, b : Change(f, k).id = f.id /\ Label(f, b).id = f.id
    BY DEF Change, Label
  <2>4. \A ch \in changes \union labels : ch.id \in Made'
    BY <1>2, <2>2, <2>3
  <2> HIDE DEF changes, labels
  <2>5. /\ sync'.found = {} /\ sync'.phase = "pushing" /\ sync'.waiting = {}
        /\ sync'.posted = NoIssue /\ sync'.read = {} /\ sync'.changes = changes /\ sync'.labels = labels
    BY <2>1 DEF Idle
  <2> QED
    BY <2>4, <2>5 DEF SyncHolds
<1>14. ASSUME NEW ch, (ch \in sync.changes /\ ChangeIssue(ch)) \/ (ch \in sync.labels /\ LabelIssue(ch))
       PROVE SyncHolds'
  <2>1. sync.phase = "pushing" /\ UNCHANGED <<card, dismissed>>
    BY <1>14 DEF ChangeIssue, LabelIssue
  <2>2. /\ sync'.found = sync.found /\ sync'.phase = "pushing" /\ sync'.waiting = sync.waiting
        /\ sync'.posted = sync.posted /\ sync'.read = sync.read
        /\ sync'.changes \subseteq sync.changes /\ sync'.labels \subseteq sync.labels
    BY <1>14 DEF ChangeIssue, LabelIssue, SyncIsTyped
  <2>3. sync.found = {} /\ sync.waiting = {} /\ sync.posted = NoIssue /\ sync.read = {}
    BY <2>1 DEF SyncIsTyped
  <2> QED
    BY <1>1, <2>2, <2>3 DEF SyncHolds
<1>15. CASE SyncStep
  <2>1. CASE \E ch \in sync.changes : ChangeIssue(ch)
    <3>1. PICK ch \in sync.changes : ChangeIssue(ch)
      BY <2>1
    <3> QED
      BY <1>14, <3>1
  <2>2. CASE \E l \in sync.labels : LabelIssue(l)
    BY <1>14, <2>2
  <2> QED
    BY <1>7, <1>8, <1>9, <1>10, <1>11, <1>12, <1>13, <1>15, <2>1, <2>2 DEF SyncStep
<1> QED
  BY <1>6, <1>7, <1>15 DEF Next

-----------------------------------------------------------------------------
(* A card is raised once, and once more for every sync broken off.          *)

LEMMA RaisesStayCounted ==
  ASSUME SidesAreTyped, SyncIsTyped, MadeInOrder, LinksHold, SyncHolds, RaisesAreCounted, Next
  PROVE  RaisesAreCounted'
<1>1. /\ stops \in Nat /\ \A c \in Card : IsFiniteSet(Raised(c)) /\ Cardinality(Raised(c)) \in Nat
      /\ \A c \in Card : Cardinality(Raised(c)) <= 1 + stops
      /\ \A c \in Card : card[c].is = "unmade" => Raised(c) = {}
      /\ 0 \notin Card /\ Cardinality({}) = 0
  <2>1. stops \in Nat
    BY DEF SidesAreTyped
  <2>2. \A c \in Card : IsFiniteSet(Raised(c)) /\ Cardinality(Raised(c)) \in Nat
    BY SetsAreFinite DEF Raised, Made
  <2> QED
    BY <2>1, <2>2, FS_EmptySet, SyncAssumption DEF RaisesAreCounted, Card
<1>2. \A c \in Card : /\ ~RaiseIssue => Raised(c)' = Raised(c)
                      /\ RaiseIssue => /\ c # NextWaiting.card => Raised(c)' = Raised(c)
                                       /\ c = NextWaiting.card => Raised(c)' = Raised(c) \union {NextIssue}
  <2>1. /\ \A i \in Made : i \in Made' /\ issue'[i].raisedFor = issue[i].raisedFor
        /\ ~(OpenIssue \/ RaiseIssue) => Made' = Made
        /\ OpenIssue \/ RaiseIssue => Made' = Made \union {NextIssue}
        /\ OpenIssue => issue'[NextIssue].raisedFor = 0
        /\ RaiseIssue => issue'[NextIssue].raisedFor = NextWaiting.card
    BY WhatIsMade
  <2>2. OpenIssue => ~RaiseIssue
    BY SyncAssumption DEF OpenIssue, RaiseIssue, Act, SidesAreTyped
  <2> HIDE DEF NextWaiting, NextIssue
  <2>3. CASE OpenIssue
    BY <1>1, <2>1, <2>2, <2>3 DEF Raised
  <2>4. CASE RaiseIssue
    BY <1>1, <2>1, <2>4 DEF Raised
  <2>5. CASE ~(OpenIssue \/ RaiseIssue)
    BY <2>1, <2>5 DEF Raised
  <2> QED
    BY <2>3, <2>4, <2>5
<1> DEFINE Owing(c) == (Here(c) /\ card[c].issue = NoIssue) \/ (\E w \in sync.waiting : w.card = c)
<1>3. \A c \in Card : Owing(c) => InHand(c) \/ Cardinality(Raised(c)) <= stops
  BY DEF RaisesAreCounted
<1>4. SyncIsTyped'
  BY ASyncStaysTyped, PeopleKeepTypes DEF Next
<1>5. ASSUME ~RaiseIssue, stops' = stops,
             \A c \in Card : /\ card[c].is # "unmade" => card'[c].is # "unmade"
                             /\ Owing(c)' => \/ card[c].is = "unmade"
                                             \/ Owing(c) /\ (InHand(c) => InHand(c)')
      PROVE  RaisesAreCounted'
  <2>1. ASSUME NEW c \in Card
        PROVE  /\ Cardinality(Raised(c)') <= 1 + stops'
               /\ card'[c].is = "unmade" => Raised(c)' = {}
               /\ Owing(c)' => InHand(c)' \/ Cardinality(Raised(c)') <= stops'
    <3>1. Raised(c)' = Raised(c)
      BY <1>2, <1>5
    <3> HIDE DEF Owing
    <3>2. ASSUME Owing(c)' PROVE InHand(c)' \/ Cardinality(Raised(c)) <= stops
      <4>1. CASE card[c].is = "unmade"
        BY <1>1, <4>1
      <4>2. CASE Owing(c) /\ (InHand(c) => InHand(c)')
        BY <1>3, <4>2
      <4> QED
        BY <1>5, <3>2, <4>1, <4>2
    <3> QED
      BY <1>1, <1>5, <3>1, <3>2
  <2> QED
    BY <2>1 DEF RaisesAreCounted, Here
<1>6. CASE ~LinkIssue /\ ~WriteWhatArrived /\ ~RaiseIssue /\ ~GatherWaiting /\ ~Stop
  <2>1. \A c \in Card : /\ card'[c].issue = card[c].issue
                        /\ \/ card'[c].is = card[c].is
                           \/ card[c].is = "unmade" /\ card'[c].is = "here"
                           \/ Here(c) /\ card'[c].is = "gone"
    BY <1>6, WhatBecomesOfCards
  <2>2. stops' = stops /\ (sync.phase = "posted" => sync'.phase = "posted") /\ sync'.waiting \in SUBSET sync.waiting
        /\ (sync.phase = "posted" => sync'.waiting = sync.waiting)
    <3>1. CASE OnTheBoard \/ OnTheForge
      BY <3>1 DEF OnTheBoard, OnTheForge, CreateCard, UpdateCard, MoveCard, DeleteCard, OpenIssue, RewordIssue,
                  CloseOrReopenIssue, Act
    <3>2. CASE FetchForgeIssues \/ ReadLinkedCards
      BY <3>2 DEF FetchForgeIssues, ReadLinkedCards, SyncIsTyped
    <3>4. CASE Finish
      BY <3>4 DEF Finish, Idle
    <3>3. CASE (\E ch \in sync.changes : ChangeIssue(ch)) \/ (\E l \in sync.labels : LabelIssue(l))
      BY <3>3 DEF ChangeIssue, LabelIssue, SyncIsTyped
    <3> QED
      BY <1>6, <3>1, <3>2, <3>3, <3>4 DEF Next, SyncStep
  <2>3. \A c \in Card : InHand(c) => InHand(c)'
    BY <2>2 DEF InHand, NextWaiting
  <2>4. \A c \in Card : Owing(c)' => card[c].is = "unmade" \/ Owing(c)
    BY <2>1, <2>2 DEF Here
  <2> HIDE DEF Owing
  <2> QED
    BY <1>5, <1>6, <2>1, <2>2, <2>3, <2>4 DEF Here
<1>7. CASE GatherWaiting
  <2>1. sync.phase = "fetched" /\ UNCHANGED <<card, stops>> /\ ~RaiseIssue
    BY <1>7 DEF GatherWaiting, RaiseIssue
  <2>2. \A c \in Card : (\E w \in sync'.waiting : w.card = c) => Here(c) /\ card[c].issue = NoIssue
    BY <1>7 DEF GatherWaiting, SyncIsTyped
  <2>3. \A c \in Card : ~InHand(c) /\ (Owing(c)' => Owing(c))
    BY <2>1, <2>2 DEF InHand, Here
  <2> HIDE DEF Owing
  <2> QED
    BY <1>5, <2>1, <2>3
<1>8. CASE WriteWhatArrived
  <2>1. sync.phase = "read" /\ stops' = stops /\ ~RaiseIssue /\ sync'.waiting = {}
    BY <1>8 DEF WriteWhatArrived, RaiseIssue, Idle
  <2>2. \A c \in Card : card[c].is # "unmade" => /\ card'[c].is = card[c].is
                                                 /\ card'[c].issue = card[c].issue
    BY <1>8, WhatAWriteKeeps
  <2>3. \A c \in Card : ~InHand(c) /\ (Owing(c)' => card[c].is = "unmade" \/ Owing(c))
    BY <2>1, <2>2 DEF InHand, Here
  <2> HIDE DEF Owing
  <2> QED
    BY <1>5, <2>1, <2>2, <2>3
<1>9. CASE LinkIssue
  <2> DEFINE v == NextWaiting
  <2>1. v \in sync.waiting /\ v.card \in Card /\ sync.posted # NoIssue /\ card[v.card].issue = NoIssue
    BY <1>9, NextWaitingIs DEF LinkIssue, SyncIsTyped, SyncHolds
  <2>2. /\ sync.phase = "posted" /\ stops' = stops /\ ~RaiseIssue
        /\ card' = [card EXCEPT ![v.card].issue = IF Here(v.card) THEN sync.posted ELSE @]
        /\ sync'.waiting = sync.waiting \ {v}
    BY <1>9 DEF LinkIssue, RaiseIssue, SyncIsTyped
  <2>3. \A c \in Card : InHand(c) <=> c = v.card
    BY <2>2 DEF InHand
  <2> HIDE DEF v
  <2>4. \A w \in sync.waiting \ {v} : w.card # v.card
    BY <2>1 DEF SyncHolds
  <2>5. /\ \A c \in Card : card'[c].is = card[c].is /\ (c # v.card => card'[c].issue = card[c].issue)
        /\ Here(v.card) => card'[v.card].issue # NoIssue
    BY <2>1, <2>2 DEF SidesAreTyped, CardAt
  <2>6. \A c \in Card : Owing(c)' => Owing(c) /\ c # v.card
    BY <2>2, <2>4, <2>5 DEF Here
  <2> HIDE DEF Owing
  <2> QED
    BY <1>5, <2>2, <2>3, <2>5, <2>6
<1>10. CASE Stop
  <2>1. stops' = stops + 1 /\ UNCHANGED card /\ ~RaiseIssue
    BY <1>1, <1>10, SyncAssumption DEF Stop, RaiseIssue, SidesAreTyped
  <2>2. \A c \in Card : Raised(c)' = Raised(c)
    BY <1>2, <2>1
  <2>3. \A c \in Card : Cardinality(Raised(c)) <= stops' /\ Cardinality(Raised(c)) <= 1 + stops'
    BY <1>1, <2>1
  <2> QED
    BY <1>1, <2>1, <2>2, <2>3 DEF RaisesAreCounted
<1>11. CASE RaiseIssue
  <2> DEFINE v == NextWaiting
  <2>1. v \in sync.waiting /\ v.card \in Card /\ NextIssue \notin Made
    BY <1>11, NextWaitingIs, NextIssueIs DEF RaiseIssue
  <2>2. /\ sync.phase = "raising" /\ stops' = stops /\ UNCHANGED card
        /\ sync'.phase = "posted" /\ sync'.waiting = sync.waiting
    BY <1>11 DEF RaiseIssue, SyncIsTyped
  <2>3. \A c \in Card : ~InHand(c) /\ (InHand(c)' <=> c = v.card)
    BY <2>2 DEF InHand, NextWaiting
  <2> HIDE DEF v, NextIssue
  <2>4. \A c \in Card : Owing(c)' <=> Owing(c)
    BY <2>2 DEF Here
  <2>5. Owing(v.card) /\ card[v.card].is # "unmade"
    BY <2>1 DEF SyncHolds
  <2> HIDE DEF Owing
  <2>6. Cardinality(Raised(v.card)) <= stops
    BY <1>3, <2>1, <2>3, <2>5
  <2>7. NextIssue \notin Raised(v.card)
    BY <2>1 DEF Raised
  <2>8. Cardinality(Raised(v.card) \union {NextIssue}) = Cardinality(Raised(v.card)) + 1
    BY <1>1, <2>1, <2>7, FS_AddElement
  <2>9. ASSUME NEW c \in Card
        PROVE  /\ Cardinality(Raised(c)') <= 1 + stops'
               /\ card'[c].is = "unmade" => Raised(c)' = {}
               /\ Owing(c)' => InHand(c)' \/ Cardinality(Raised(c)') <= stops'
    <3>1. CASE c = v.card
      <4>1. Raised(c)' = Raised(c) \union {NextIssue}
        BY <1>2, <1>11, <3>1 DEF v
      <4> QED
        BY <1>1, <2>1, <2>2, <2>3, <2>5, <2>6, <2>8, <3>1, <4>1
    <3>2. CASE c # v.card
      <4>1. Raised(c)' = Raised(c)
        BY <1>2, <1>11, <3>2 DEF v
      <4> QED
        BY <1>1, <1>3, <2>2, <2>3, <2>4, <3>2, <4>1
    <3> QED
      BY <3>1, <3>2
  <2> QED
    BY <2>9 DEF RaisesAreCounted, Owing, Here
<1> QED
  BY <1>6, <1>7, <1>8, <1>9, <1>10, <1>11

-----------------------------------------------------------------------------
(* A sync that nobody disturbs.                                             *)

(* It begins, and people act, with nothing carried.                         *)
LEMMA IdleCarriesNothing ==
  ASSUME SyncIsTyped, sync.phase = "idle"
  PROVE  /\ sync.waiting = {} /\ sync.found = {} /\ sync.read = {} /\ sync.posted = NoIssue
         /\ sync.changes = {} /\ sync.labels = {}
  BY DEF SyncIsTyped, Idle

LEMMA PeopleDisturbNothing ==
  ASSUME OneCard, NothingWasDisturbed, ~interrupt, OnTheBoard \/ OnTheForge
  PROVE  NothingWasDisturbed'
<1>1. sync.phase = "idle" /\ UNCHANGED sync /\ UNCHANGED stops /\ now' = now + 1
  BY DEF OnTheBoard, OnTheForge, CreateCard, UpdateCard, MoveCard, DeleteCard, OpenIssue, RewordIssue,
         CloseOrReopenIssue, Act
<1>2. /\ sync.waiting = {} /\ sync.found = {} /\ sync.read = {} /\ sync.changes = {} /\ sync.labels = {}
      /\ sync.phase # "posted" /\ \A c \in Card : ~InHand(c)
  BY <1>1, IdleCarriesNothing DEF OneCard, InHand
<1>3. /\ now \in Nat
      /\ \A c \in Card : card[c] \in CardAt(now) /\ card[c].touched \in 0 .. now
      /\ \A i \in Issue : /\ issue[i] \in IssueAt(now) /\ issue[i].updated \in 0 .. now
                          /\ issue[i].spoken \in 0 .. now
      /\ card \in [Card -> CardAt(now)] /\ issue \in [Issue -> IssueAt(now)]
  BY DEF OneCard, SidesAreTyped, CardAt, IssueAt
<1>4. /\ ~LinkIssue /\ ~WriteWhatArrived /\ ~RaiseIssue
  BY <1>1 DEF LinkIssue, WriteWhatArrived, RaiseIssue
<1>5. /\ \A c \in Card : card'[c].issue = card[c].issue
      /\ \A i \in Made : i \in Made' /\ issue'[i].raisedFor = issue[i].raisedFor
      /\ \A i \in Made' : i \in Made \/ (i = NextIssue /\ issue'[i].raisedFor = 0)
  <2>1. \A c \in Card : card'[c].issue = card[c].issue
    BY <1>4, WhatBecomesOfCards DEF OneCard, Next
  <2>2. /\ \A i \in Made : i \in Made' /\ issue'[i].raisedFor = issue[i].raisedFor
        /\ ~OpenIssue => Made' = Made
        /\ OpenIssue => Made' = Made \union {NextIssue} /\ issue'[NextIssue].raisedFor = 0
    BY <1>4, WhatIsMade DEF OneCard, Next
  <2> QED
    BY <2>1, <2>2
<1>6. \A i \in Made : issue[i].raisedFor # 0 => card[issue[i].raisedFor].issue = i \/ stops # 0
  BY <1>2 DEF NothingWasDisturbed, InHand
<1>7. \A i \in Made : issue[i].raisedFor # 0 => issue[i].raisedFor \in Card
  BY <1>3 DEF IssueAt, Made
<1>8. stops' = 0 => \A i \in Made' : issue'[i].raisedFor # 0 => card'[issue'[i].raisedFor].issue = i
  BY <1>1, <1>5, <1>6, <1>7
<1>9. \A c \in Linked' : c \in Linked /\ card[c].issue \in Made
  <2>1. \A c \in Card : \/ card'[c].is = card[c].is
                        \/ card[c].is = "unmade" /\ card'[c].is = "here"
                        \/ Here(c) /\ card'[c].is = "gone"
    BY <1>4, WhatBecomesOfCards DEF OneCard, Next
  <2> QED
    BY <1>5, <2>1 DEF Linked, Here, OneCard, LinksHold
<1>10. \A c \in Linked' : ForgeSpokeLast(c)'
  <2> SUFFICES ASSUME NEW c \in Linked' PROVE ForgeSpokeLast(c)'
    OBVIOUS
  <2> DEFINE i == card[c].issue
  <2>1. /\ c \in Linked /\ c \in Card /\ i \in Made /\ i \in Issue
        /\ card'[c].issue = i /\ ForgeSpokeLast(c) /\ i # NoIssue
    BY <1>5, <1>9 DEF Linked, NothingWasDisturbed, Made
  <2>2. ASSUME card'[c].touched = card[c].touched, card'[c].title = card[c].title, issue'[i] = issue[i]
        PROVE  ForgeSpokeLast(c)'
    BY <2>1, <2>2 DEF ForgeSpokeLast, SaysTheSame
  <2>3. ASSUME card'[c].touched = now', issue'[i] = issue[i] PROVE ForgeSpokeLast(c)'
    <3>1. card'[c].touched > issue'[i].updated
      BY <1>1, <1>3, <2>1, <2>3
    <3> QED
      BY <2>1, <3>1 DEF ForgeSpokeLast
  <2>4. ASSUME card'[c].touched = card[c].touched, issue'[i].spoken = now' PROVE ForgeSpokeLast(c)'
    <3>1. issue'[i].spoken > card'[c].touched
      BY <1>1, <1>3, <2>1, <2>4
    <3> QED
      BY <2>1, <3>1 DEF ForgeSpokeLast
  <2> HIDE DEF i
  <2>5. ASSUME NEW l \in Board, CreateCard(l) PROVE ForgeSpokeLast(c)'
    <3>1. NextCard \in Card /\ card[NextCard].is = "unmade" /\ c # NextCard
      BY <2>1, <2>5, NextCardIs DEF CreateCard, OneCard, Linked, Here
    <3> HIDE DEF NextCard
    <3> QED
      BY <1>3, <2>1, <2>2, <2>5, <3>1 DEF CreateCard
  <2>6. ASSUME NEW d \in Card, UpdateCard(d) PROVE ForgeSpokeLast(c)'
    <3>1. IF d = c THEN card'[c].touched = now' ELSE card'[c] = card[c]
      BY <1>3, <2>1, <2>6 DEF UpdateCard, CardAt
    <3> QED
      BY <2>2, <2>3, <2>6, <3>1 DEF UpdateCard
  <2>7. ASSUME NEW d \in Card, NEW l \in Board, MoveCard(d, l) PROVE ForgeSpokeLast(c)'
    <3>1. IF d = c THEN card'[c].touched = now' ELSE card'[c] = card[c]
      BY <1>3, <2>1, <2>7 DEF MoveCard, CardAt
    <3> QED
      BY <2>2, <2>3, <2>7, <3>1 DEF MoveCard
  <2>8. ASSUME NEW d \in Card, DeleteCard(d) PROVE ForgeSpokeLast(c)'
    <3>1. card'[c].touched = card[c].touched /\ card'[c].title = card[c].title
      BY <1>3, <2>1, <2>8 DEF DeleteCard, CardAt
    <3> QED
      BY <2>2, <2>8, <3>1 DEF DeleteCard
  <2>9. ASSUME OpenIssue PROVE ForgeSpokeLast(c)'
    <3>1. NextIssue \in Issue /\ i # NextIssue
      BY <2>1, <2>9, NextIssueIs DEF OpenIssue, OneCard
    <3> HIDE DEF NextIssue
    <3> QED
      BY <1>3, <2>1, <2>2, <2>9, <3>1 DEF OpenIssue
  <2>10. ASSUME NEW j \in Issue, RewordIssue(j) \/ CloseOrReopenIssue(j) PROVE ForgeSpokeLast(c)'
    <3>1. (IF j = i THEN issue'[i].spoken = now' ELSE issue'[i] = issue[i]) /\ UNCHANGED card
      BY <1>3, <2>1, <2>10 DEF RewordIssue, CloseOrReopenIssue, IssueAt
    <3> QED
      BY <2>2, <2>4, <3>1
  <2> QED
    BY <2>5, <2>6, <2>7, <2>8, <2>9, <2>10 DEF OnTheBoard, OnTheForge
<1> QED
  BY <1>1, <1>2, <1>8, <1>10 DEF NothingWasDisturbed, InHand

LEMMA ASyncReadsWhatThereIs ==
  ASSUME OneCard, NothingWasDisturbed, FetchForgeIssues \/ GatherWaiting \/ ReadLinkedCards \/ Finish \/ Stop
  PROVE  NothingWasDisturbed'
<1>1. UNCHANGED <<card, issue>>
  BY DEF FetchForgeIssues, GatherWaiting, ReadLinkedCards, Finish, Stop
<1>2. /\ Made' = Made /\ Linked' = Linked /\ \A c \in Card : ForgeSpokeLast(c)' = ForgeSpokeLast(c)
      /\ \A c \in Linked : c \in Card
  BY <1>1 DEF Made, Linked, Here, ForgeSpokeLast, SaysTheSame
<1>3. /\ \A w \in sync'.waiting : Here(w.card) /\ w.title = card[w.card].title
      /\ \A f \in sync'.found : f = Answer(f.id)
      /\ \A k \in sync'.read : /\ Here(k.id) /\ k.list = card[k.id].list
                               /\ k.title = card[k.id].title /\ k.touched = card[k.id].touched
      /\ sync'.phase # "posted" /\ sync'.changes = {} /\ sync'.labels = {}
  <2>1. CASE FetchForgeIssues
    <3> DEFINE found == {Answer(i) : i \in Newest \union ChangedSince}
    <3>1. sync = Idle /\ sync' = [sync EXCEPT !.phase = "fetched", !.found = found]
      BY <2>1 DEF FetchForgeIssues, SyncIsTyped, OneCard
    <3>2. \A f \in found : f = Answer(f.id)
      <4>1. \A i : Answer(i).id = i
        BY DEF Answer
      <4> QED
        BY <4>1
    <3> HIDE DEF found
    <3> QED
      BY <3>1, <3>2 DEF Idle
  <2>2. CASE GatherWaiting
    <3> DEFINE toRaise == {[card |-> c, title |-> card[c].title] :
                             c \in {c \in Card \ Private : Here(c) /\ card[c].issue = NoIssue}}
    <3>1. sync.phase = "fetched" /\ sync' = [sync EXCEPT !.phase = "raising", !.waiting = toRaise]
      BY <2>2 DEF GatherWaiting
    <3>2. \A w \in toRaise : Here(w.card) /\ w.title = card[w.card].title
      OBVIOUS
    <3> HIDE DEF toRaise
    <3> QED
      BY <3>1, <3>2 DEF OneCard, SyncIsTyped, NothingWasDisturbed
  <2>3. CASE ReadLinkedCards
    <3> DEFINE read == {[id |-> c, issue |-> card[c].issue, list |-> card[c].list,
                         title |-> card[c].title, touched |-> card[c].touched] :
                           c \in {c \in Card : Here(c) /\ card[c].issue # NoIssue}}
    <3>1. sync.phase = "raising" /\ sync' = [sync EXCEPT !.phase = "read", !.turnedDown = dismissed, !.read = read]
      BY <2>3 DEF ReadLinkedCards
    <3>2. \A k \in read : /\ Here(k.id) /\ k.list = card[k.id].list
                          /\ k.title = card[k.id].title /\ k.touched = card[k.id].touched
      OBVIOUS
    <3> HIDE DEF read
    <3> QED
      BY <3>1, <3>2 DEF OneCard, SyncIsTyped, NothingWasDisturbed
  <2>4. CASE Finish \/ Stop
    BY <2>4 DEF Finish, Stop, Idle
  <2> QED
    BY <2>1, <2>2, <2>3, <2>4
<1>4. \A f : Answer(f)' = Answer(f)
  BY <1>1 DEF Answer
<1>5. ASSUME stops' = 0
      PROVE  \A i \in Made : issue[i].raisedFor # 0 => card[issue[i].raisedFor].issue = i
  <2>1. stops = 0 /\ sync.phase # "posted"
    BY <1>5 DEF FetchForgeIssues, GatherWaiting, ReadLinkedCards, Finish, Stop, OneCard, SidesAreTyped
  <2> QED
    BY <2>1 DEF NothingWasDisturbed, InHand
<1> QED
  BY <1>1, <1>2, <1>3, <1>4, <1>5 DEF NothingWasDisturbed, Here, InHand

LEMMA RaisingDisturbsNothing ==
  ASSUME OneCard, NothingWasDisturbed, RaiseIssue
  PROVE  NothingWasDisturbed'
<1> DEFINE n == NextIssue
           v == NextWaiting
<1>1. /\ sync.phase = "raising" /\ UNCHANGED <<card, stops>> /\ v' = v
      /\ sync' = [sync EXCEPT !.phase = "posted", !.posted = n]
  BY DEF RaiseIssue, NextWaiting, OneCard, SyncIsTyped
<1>2. /\ n \in Issue /\ n \notin Made /\ Made' = Made \union {n} /\ issue' = [issue EXCEPT ![n] = issue'[n]]
      /\ issue'[n].raisedFor = v.card /\ issue'[n].title = v.title
  BY WhatIsMade, NextIssueIs DEF Next, SyncStep, OneCard, RaiseIssue
<1> HIDE DEF n, v
<1>3. \A i \in Made : i # n /\ issue'[i] = issue[i]
  BY <1>2 DEF OneCard, SidesAreTyped, Made
<1>4. \A f \in sync.found : f.id \in Made /\ f = Answer(f.id)
  BY DEF OneCard, SyncHolds, NothingWasDisturbed
<1>5. \A f \in sync.found : f = Answer(f.id)'
  BY <1>3, <1>4 DEF Answer
<1>6. \A c \in Linked : ForgeSpokeLast(c)'
  <2>1. \A c \in Linked : card[c].issue \in Made /\ ForgeSpokeLast(c)
    BY DEF Linked, OneCard, LinksHold, NothingWasDisturbed
  <2> QED
    BY <1>1, <1>3, <2>1 DEF ForgeSpokeLast, SaysTheSame
<1>7. /\ sync'.found = sync.found /\ sync'.waiting = sync.waiting /\ sync'.read = sync.read
      /\ sync'.phase = "posted" /\ sync'.posted = n /\ sync'.changes = {} /\ sync'.labels = {}
  BY <1>1 DEF OneCard, SyncIsTyped
<1>8. stops = 0 => \A i \in Made : issue[i].raisedFor # 0 => card[issue[i].raisedFor].issue = i
  BY <1>1 DEF NothingWasDisturbed, InHand
<1>9. stops' = 0 => \A i \in Made' : issue'[i].raisedFor # 0 =>
        \/ card'[issue'[i].raisedFor].issue = i
        \/ i = n /\ issue'[i].raisedFor = v.card
  BY <1>1, <1>2, <1>3, <1>8
<1>10. Linked' = Linked
  BY <1>1 DEF Linked, Here
<1>11. /\ \A w \in sync.waiting : Here(w.card) /\ w.title = card[w.card].title
       /\ \A k \in sync.read : /\ Here(k.id) /\ k.list = card[k.id].list
                               /\ k.title = card[k.id].title /\ k.touched = card[k.id].touched
  BY DEF NothingWasDisturbed
<1>12. \A w : InHand(w)' <=> w = v.card
  BY <1>1, <1>7 DEF InHand, v
<1> QED
  BY <1>1, <1>2, <1>5, <1>6, <1>7, <1>9, <1>10, <1>11, <1>12 DEF NothingWasDisturbed, Here, v

LEMMA LinkingDisturbsNothing ==
  ASSUME OneCard, NothingWasDisturbed, LinkIssue
  PROVE  NothingWasDisturbed'
<1> DEFINE v == NextWaiting
<1>1. /\ v \in sync.waiting /\ v.card \in Card /\ Here(v.card) /\ v.title = card[v.card].title
      /\ sync.posted # NoIssue /\ card[v.card].issue = NoIssue /\ issue[sync.posted].title = v.title
  <2>1. sync.phase = "posted" /\ sync.waiting # {} /\ SyncIsTyped /\ SyncHolds
    BY DEF LinkIssue, OneCard, SyncIsTyped
  <2>2. v \in sync.waiting /\ v.card \in Card
    BY <2>1, NextWaitingIs
  <2>3. Here(v.card) /\ v.title = card[v.card].title /\ issue[sync.posted].title = v.title
    BY <2>1, <2>2 DEF NothingWasDisturbed
  <2> QED
    BY <2>1, <2>2, <2>3 DEF SyncIsTyped, SyncHolds
<1>2. /\ UNCHANGED <<issue, stops>> /\ card' = [card EXCEPT ![v.card].issue = sync.posted]
      /\ sync' = [sync EXCEPT !.phase = "raising", !.posted = NoIssue, !.waiting = @ \ {v}]
  BY <1>1 DEF LinkIssue
<1>3. \A i \in Made : issue[i].raisedFor # 0 /\ stops = 0 =>
        card[issue[i].raisedFor].issue = i \/ (issue[i].raisedFor = v.card /\ sync.posted = i)
  BY DEF NothingWasDisturbed, InHand
<1> HIDE DEF v
<1>4. /\ \A c \in Card : c # v.card => card'[c] = card[c]
      /\ card'[v.card].issue = sync.posted /\ card'[v.card].is = "here" /\ card'[v.card].title = v.title
      /\ \A c \in Card : card'[c].is = card[c].is
  BY <1>1, <1>2 DEF OneCard, SidesAreTyped, CardAt, Here
<1>5. \A w \in sync.waiting \ {v} : w.card \in Card /\ w.card # v.card
  BY <1>1 DEF OneCard, SyncHolds, SyncIsTyped, Wait
<1>6. /\ sync'.found = sync.found /\ sync'.waiting = sync.waiting \ {v} /\ sync'.read = {}
      /\ sync'.phase = "raising" /\ sync'.changes = {} /\ sync'.labels = {}
  BY <1>2 DEF OneCard, SyncIsTyped, LinkIssue
<1>7. \A w \in sync'.waiting : Here(w.card)' /\ w.title = card'[w.card].title
  BY <1>4, <1>5, <1>6 DEF NothingWasDisturbed, Here
<1>8. \A f \in sync'.found : f = Answer(f.id)'
  BY <1>2, <1>6 DEF NothingWasDisturbed, Answer
<1>9. ASSUME NEW c \in Linked' PROVE ForgeSpokeLast(c)'
  <2>1. CASE c = v.card
    BY <1>1, <1>2, <1>4, <2>1 DEF ForgeSpokeLast, SaysTheSame
  <2>2. CASE c # v.card
    <3>1. c \in Linked /\ card'[c] = card[c]
      BY <1>4, <2>2 DEF Linked, Here
    <3>2. ForgeSpokeLast(c)
      BY <3>1 DEF NothingWasDisturbed
    <3> QED
      BY <1>2, <3>1, <3>2 DEF ForgeSpokeLast, SaysTheSame
  <2> QED
    BY <2>1, <2>2
<1>10. stops' = 0 => \A i \in Made' : issue'[i].raisedFor # 0 => card'[issue'[i].raisedFor].issue = i
  <2> SUFFICES ASSUME stops = 0, NEW i \in Made, issue[i].raisedFor # 0
               PROVE  card'[issue[i].raisedFor].issue = i
    BY <1>2 DEF Made
  <2>1. issue[i].raisedFor \in Card /\ i # NoIssue
    BY SyncAssumption DEF OneCard, SidesAreTyped, IssueAt, Made, Issue, NoIssue
  <2> QED
    BY <1>1, <1>3, <1>4, <2>1
<1> QED
  BY <1>6, <1>7, <1>8, <1>9, <1>10 DEF NothingWasDisturbed

(* What is told to the forge is what the card says.                         *)
LEMMA TellingDisturbsNothing ==
  ASSUME OneCard, NothingWasDisturbed, NEW ch \in sync.changes, ChangeIssue(ch)
  PROVE  NothingWasDisturbed'
<1>1. /\ ch \in Ask /\ ch.id \in Issue /\ ch.id \in Made
      /\ issue \in [Issue -> IssueAt(now)]
  BY DEF OneCard, SyncIsTyped, SyncHolds, SidesAreTyped, Ask
<1>2. /\ UNCHANGED <<card, stops>> /\ sync.phase = "pushing" /\ sync' = [sync EXCEPT !.changes = @ \ {ch}]
      /\ issue'[ch.id].title = IF ch.reword THEN ch.title ELSE issue[ch.id].title
      /\ \A i \in Issue : i # ch.id => issue'[i] = issue[i]
  BY <1>1 DEF ChangeIssue, IssueAt
<1>3. /\ sync'.found = {} /\ sync'.waiting = {} /\ sync'.read = {} /\ sync'.phase = "pushing"
      /\ sync'.changes = sync.changes \ {ch} /\ sync'.labels = sync.labels
  BY <1>2 DEF OneCard, SyncIsTyped
<1>4. Linked' = Linked /\ \A c \in Linked : c \in Card /\ card[c].issue \in Issue
  BY <1>2 DEF Linked, Here, OneCard, SidesAreTyped, CardAt
<1>5. \A c \in Linked : card[c].issue = ch.id => SaysTheSame(c)'
  <2>1. \A c \in Linked : card[c].issue = ch.id => IF ch.reword THEN ch.title = card[c].title ELSE SaysTheSame(c)
    BY DEF NothingWasDisturbed
  <2> QED
    BY <1>2, <2>1 DEF SaysTheSame
<1>6. \A c \in Linked : card[c].issue # ch.id => /\ SaysTheSame(c)' = SaysTheSame(c)
                                                 /\ ForgeSpokeLast(c)' = ForgeSpokeLast(c)
  BY <1>2, <1>4 DEF SaysTheSame, ForgeSpokeLast
<1>7. \A c \in Linked : ForgeSpokeLast(c)'
  <2>1. \A c \in Linked : ForgeSpokeLast(c)
    BY DEF NothingWasDisturbed
  <2> QED
    BY <1>5, <1>6, <2>1 DEF ForgeSpokeLast
<1>8. \A other \in sync.changes \ {ch} : other.id # ch.id
  BY DEF NothingWasDisturbed
<1>9. \A other \in sync.changes \ {ch} : \A c \in Linked : card'[c].issue = other.id =>
        IF other.reword THEN other.title = card'[c].title ELSE SaysTheSame(c)'
  BY <1>2, <1>6, <1>8 DEF NothingWasDisturbed
<1>10. ASSUME NEW l \in sync.labels, NEW c \in Linked, card[c].issue = l.id
       PROVE  SaysTheSame(c)' \/ \E other \in sync.changes \ {ch} : other.id = l.id /\ other.reword
  <2>1. SaysTheSame(c) \/ \E other \in sync.changes : other.id = l.id /\ other.reword
    BY <1>10 DEF NothingWasDisturbed
  <2> QED
    BY <1>5, <1>6, <1>10, <2>1
<1>11. stops' = 0 => \A i \in Made' : issue'[i].raisedFor # 0 => card'[issue'[i].raisedFor].issue = i
  <2>1. /\ \A i \in Made : issue'[i].raisedFor = issue[i].raisedFor
        /\ ~(OpenIssue \/ RaiseIssue) => Made' = Made
    BY WhatIsMade DEF Next, SyncStep, OneCard
  <2>2. ~RaiseIssue /\ ~OpenIssue
    <3>1. RaiseIssue => sync.phase = "raising"
      BY DEF RaiseIssue
    <3>2. OpenIssue => UNCHANGED sync
      BY DEF OpenIssue, Act
    <3> QED
      BY <1>2, <1>3, <3>1, <3>2
  <2>3. stops = 0 => \A i \in Made : issue[i].raisedFor # 0 => card[issue[i].raisedFor].issue = i
    BY <1>2 DEF NothingWasDisturbed, InHand
  <2> QED
    BY <1>2, <2>1, <2>2, <2>3
<1>12. \A other, another \in sync'.changes : other.id = another.id => other = another
  BY <1>3 DEF NothingWasDisturbed
<1> QED
  BY <1>2, <1>3, <1>4, <1>7, <1>9, <1>10, <1>11, <1>12 DEF NothingWasDisturbed

LEMMA LabellingDisturbsNothing ==
  ASSUME OneCard, NothingWasDisturbed, NEW l \in sync.labels, LabelIssue(l)
  PROVE  NothingWasDisturbed'
<1>1. l.id \in Issue /\ l.id \in Made /\ issue \in [Issue -> IssueAt(now)]
  BY DEF OneCard, SyncIsTyped, SyncHolds, SidesAreTyped, Tag
<1>2. /\ UNCHANGED <<card, stops>> /\ sync.phase = "pushing" /\ sync' = [sync EXCEPT !.labels = @ \ {l}]
      /\ sync.changes = {}
      /\ \A i \in Issue : issue'[i].title = issue[i].title
      /\ \A i \in Issue : i # l.id => issue'[i] = issue[i]
  BY <1>1 DEF LabelIssue, IssueAt
<1>3. /\ sync'.found = {} /\ sync'.waiting = {} /\ sync'.read = {} /\ sync'.phase = "pushing"
      /\ sync'.changes = {} /\ sync'.labels = sync.labels \ {l}
  BY <1>2 DEF OneCard, SyncIsTyped
<1>4. Linked' = Linked /\ \A c \in Linked : c \in Card /\ card[c].issue \in Issue
  BY <1>2 DEF Linked, Here, OneCard, SidesAreTyped, CardAt
<1>5. \A c \in Linked : SaysTheSame(c)' = SaysTheSame(c)
  BY <1>2, <1>4 DEF SaysTheSame
<1>6. \A k \in sync.labels, c \in Linked : card[c].issue = k.id => SaysTheSame(c)
  BY <1>2 DEF NothingWasDisturbed
<1>7. ASSUME NEW c \in Linked PROVE ForgeSpokeLast(c)'
  <2>1. CASE card[c].issue = l.id
    BY <1>5, <1>6, <2>1 DEF ForgeSpokeLast
  <2>2. CASE card[c].issue # l.id
    <3>1. ForgeSpokeLast(c)
      BY DEF NothingWasDisturbed
    <3> QED
      BY <1>2, <1>4, <2>2, <3>1 DEF ForgeSpokeLast, SaysTheSame
  <2> QED
    BY <2>1, <2>2
<1>8. stops' = 0 => \A i \in Made' : issue'[i].raisedFor # 0 => card'[issue'[i].raisedFor].issue = i
  <2>1. /\ \A i \in Made : issue'[i].raisedFor = issue[i].raisedFor
        /\ ~(OpenIssue \/ RaiseIssue) => Made' = Made
    BY WhatIsMade DEF Next, SyncStep, OneCard
  <2>2. ~RaiseIssue /\ ~OpenIssue
    <3>1. RaiseIssue => sync.phase = "raising"
      BY DEF RaiseIssue
    <3>2. OpenIssue => UNCHANGED sync
      BY DEF OpenIssue, Act
    <3> QED
      BY <1>2, <1>3, <3>1, <3>2
  <2>3. stops = 0 => \A i \in Made : issue[i].raisedFor # 0 => card[issue[i].raisedFor].issue = i
    BY <1>2 DEF NothingWasDisturbed, InHand
  <2> QED
    BY <1>2, <2>1, <2>2, <2>3
<1> QED
  BY <1>2, <1>3, <1>4, <1>5, <1>6, <1>7, <1>8 DEF NothingWasDisturbed

LEMMA WritingDisturbsNothing ==
  ASSUME OneCard, NothingWasDisturbed, LinksHold', WriteWhatArrived
  PROVE  NothingWasDisturbed'
<1> DEFINE changed == {Change(p[1], p[2]) : p \in {p \in Pairs : CardChangedLast(p[1], p[2])}}
           changes == {ch \in changed : ch.reword \/ ch.close}
           labels == {Label(p[1], Settlement(p[1], p[2]).to) :
                        p \in {p \in Pairs : p[1].label # Settlement(p[1], p[2]).to}}
                     \union {Label(f, Arrival(f).list) :
                               f \in {f \in Unseen : f.label # Arrival(f).list}}
<1>1. /\ sync' = [Idle EXCEPT !.phase = "pushing", !.changes = changes, !.labels = labels]
      /\ UNCHANGED <<issue, stops>> /\ sync.phase = "read"
  BY DEF WriteWhatArrived
<1>2. /\ \A f \in sync.found : f.id \in Made /\ f.id # NoIssue /\ f.title = issue[f.id].title
      /\ \A f, g \in sync.found : f.id = g.id => f = g
      /\ \A f \in Unseen : f \in sync.found
  <2>1. \A f \in sync.found : f.id \in Made /\ f = Answer(f.id)
    BY DEF OneCard, SyncHolds, NothingWasDisturbed
  <2>2. \A i \in Made : i # NoIssue /\ Answer(i).title = issue[i].title
    BY SyncAssumption DEF Made, Issue, NoIssue, Answer
  <2> QED
    BY <2>1, <2>2 DEF OneCard, SyncHolds, Unseen
<1>3. /\ \A k \in sync.read : /\ k.id \in Card /\ Here(k.id) /\ k.title = card[k.id].title
                              /\ k.touched = card[k.id].touched /\ k.issue = card[k.id].issue
      /\ \A k, l \in sync.read : k.id = l.id => k = l
  BY DEF OneCard, SyncHolds, SyncIsTyped, Look, NothingWasDisturbed
<1>4. /\ \A c \in Card : card[c].is # "unmade" => /\ card'[c].is = card[c].is /\ card'[c].issue = card[c].issue
                                                  /\ card'[c].touched = card[c].touched
      /\ \A c \in Card : card[c].is = "unmade" => card'[c] = card[c] \/ \E f \in Unseen : c = NewCardFor(f)
  BY WhatAWriteKeeps DEF OneCard
<1>5. \A f \in Unseen : /\ NewCardFor(f) \in Card /\ card'[NewCardFor(f)].is = "here"
                        /\ card'[NewCardFor(f)].issue = f.id /\ card'[NewCardFor(f)].title = f.title
  <2>1. \A f \in Unseen : NewCardFor(f) \in Card /\ card'[NewCardFor(f)] = Arrival(f)
    BY WhatIsWritten DEF OneCard
  <2>2. \A f \in Unseen : Arrival(f).is = "here" /\ Arrival(f).issue = f.id /\ Arrival(f).title = f.title
    BY DEF Arrival
  <2> QED
    BY <2>1, <2>2
(* Two cards that are there do not stand for one issue.                     *)
<1>6. \A c, d \in Card : card'[c].is = "here" /\ card'[d].is = "here" /\ card'[c].issue # NoIssue
                           /\ card'[c].issue = card'[d].issue => c = d
  BY DEF LinksHold, Here
<1>7. \A k \in sync.read : card'[k.id].is = "here" /\ card'[k.id].issue = k.issue
  BY <1>3, <1>4 DEF Here
(* A card whose issue was answered: its words are the answer's, or are what *)
(* they were because the card changed last.                                 *)
<1>8. ASSUME NEW f \in sync.found, NEW k \in sync.read, f.id = k.issue
      PROVE  card'[k.id].title = IF CardChangedLast(f, k) THEN k.title ELSE f.title
  <2>1. Here(k.id) /\ k.id \in Card /\ k.title = card[k.id].title /\ Paired(k.id, f, k)
    BY <1>3, <1>8 DEF Paired
  <2>2. PICK g \in sync.found, l \in sync.read :
          /\ Paired(k.id, g, l)
          /\ card'[k.id] = [card[k.id] EXCEPT
               !.list = IF Settlement(g, l).moves THEN Settlement(g, l).to ELSE @,
               !.title = IF Settlement(g, l).pulls THEN g.title ELSE @]
    <3>1. card[k.id].is # "unmade"
      BY <2>1 DEF Here
    <3> QED
      BY <2>1, <3>1, WhatIsWritten DEF OneCard
  <2>3. l = k /\ g = f
    BY <1>2, <1>3, <1>8, <2>2 DEF Paired
  <2>4. card[k.id] \in CardAt(now)
    BY <2>1 DEF OneCard, SidesAreTyped
  <2>5. card'[k.id].title = IF Settlement(f, k).pulls THEN f.title ELSE k.title
    BY <2>1, <2>2, <2>3, <2>4 DEF CardAt
  <2>6. Settlement(f, k).pulls <=> (~CardChangedLast(f, k) /\ k.title # f.title)
    BY DEF Settlement
  <2> QED
    BY <2>5, <2>6
<1>9. \A p \in Pairs : p[1] \in sync.found /\ p[2] \in sync.read /\ p[1].id = p[2].issue
  BY DEF Pairs
<1>10. \A f \in sync.found, k \in sync.read :
         f.id = k.issue /\ CardChangedLast(f, k) /\ k.title # f.title => Change(f, k) \in changes
  <2>1. ASSUME NEW f \in sync.found, NEW k \in sync.read, f.id = k.issue, CardChangedLast(f, k), k.title # f.title
        PROVE  Change(f, k) \in changes
    <3>1. <<f, k>> \in {p \in Pairs : CardChangedLast(p[1], p[2])}
      BY <2>1 DEF Pairs
    <3>2. Change(f, k).reword
      BY <2>1 DEF Change
    <3> QED
      BY <3>1, <3>2
  <2> QED
    BY <2>1
<1>11. \A f, k : /\ Change(f, k).id = f.id /\ Change(f, k).title = k.title
                 /\ Change(f, k).reword <=> k.title # f.title
  BY DEF Change
<1>12. \A ch \in changes : \E f \in sync.found, k \in sync.read :
         f.id = k.issue /\ CardChangedLast(f, k) /\ ch = Change(f, k)
  BY <1>9
<1>13. \A l \in labels : \/ \E f \in sync.found, k \in sync.read : f.id = k.issue /\ l.id = f.id
                         \/ \E f \in Unseen : l.id = f.id
  <2>1. \A f, b : Label(f, b).id = f.id
    BY DEF Label
  <2> QED
    BY <1>9, <2>1
<1> HIDE DEF changes, labels
<1>14. ASSUME NEW ch \in changes, NEW c \in Card, card'[c].is = "here", card'[c].issue = ch.id
       PROVE  IF ch.reword THEN ch.title = card'[c].title ELSE card'[c].title = issue[ch.id].title
  <2>1. PICK f \in sync.found, k \in sync.read :
          f.id = k.issue /\ CardChangedLast(f, k) /\ ch = Change(f, k)
    BY <1>12
  <2>2. ch.id = f.id /\ ch.title = k.title /\ (ch.reword <=> k.title # f.title)
    BY <1>11, <2>1
  <2>3. c = k.id
    BY <1>2, <1>3, <1>6, <1>7, <1>14, <2>1, <2>2
  <2>4. card'[c].title = k.title
    BY <1>8, <2>1, <2>3
  <2> QED
    BY <1>2, <2>2, <2>4
<1>15. ASSUME NEW l \in labels, NEW c \in Card, card'[c].is = "here", card'[c].issue = l.id
       PROVE  card'[c].title = issue[l.id].title \/ \E ch \in changes : ch.id = l.id /\ ch.reword
  <2>1. CASE \E f \in sync.found, k \in sync.read : f.id = k.issue /\ l.id = f.id
    <3>1. PICK f \in sync.found, k \in sync.read : f.id = k.issue /\ l.id = f.id
      BY <2>1
    <3>2. c = k.id
      BY <1>2, <1>3, <1>6, <1>7, <1>15, <3>1
    <3>3. card'[c].title = IF CardChangedLast(f, k) THEN k.title ELSE f.title
      BY <1>8, <3>1, <3>2
    <3>4. CASE CardChangedLast(f, k) /\ k.title # f.title
      BY <1>10, <1>11, <3>1, <3>4
    <3>5. CASE ~CardChangedLast(f, k) \/ k.title = f.title
      BY <1>2, <3>1, <3>3, <3>5
    <3> QED
      BY <3>4, <3>5
  <2>2. CASE \E f \in Unseen : l.id = f.id
    <3>1. PICK f \in Unseen : l.id = f.id
      BY <2>2
    <3>2. c = NewCardFor(f)
      BY <1>2, <1>5, <1>6, <1>15, <3>1
    <3> QED
      BY <1>2, <1>5, <3>1, <3>2
  <2> QED
    BY <1>13, <2>1, <2>2
<1>16. ASSUME NEW c \in Linked' PROVE ForgeSpokeLast(c)'
  <2>1. c \in Card /\ card'[c].is = "here" /\ card'[c].issue # NoIssue
    BY DEF Linked, Here
  <2>2. CASE card[c].is = "unmade"
    <3>1. PICK f \in Unseen : c = NewCardFor(f)
      BY <1>4, <2>1, <2>2
    <3> QED
      BY <1>1, <1>2, <1>5, <3>1 DEF ForgeSpokeLast, SaysTheSame
  <2>3. CASE card[c].is # "unmade" /\ card'[c].title = card[c].title
    <3>1. c \in Linked /\ card'[c].issue = card[c].issue /\ card'[c].touched = card[c].touched
      BY <1>4, <2>1, <2>3 DEF Linked, Here
    <3>2. ForgeSpokeLast(c)
      BY <3>1 DEF NothingWasDisturbed
    <3> QED
      BY <1>1, <2>3, <3>1, <3>2 DEF ForgeSpokeLast, SaysTheSame
  <2>4. CASE card[c].is # "unmade" /\ card'[c].title # card[c].title
    <3>1. PICK f \in sync.found, k \in sync.read : Paired(c, f, k)
      <4>1. card'[c] = card[c] \/ \E f \in sync.found, k \in sync.read : Paired(c, f, k)
        BY <2>1, <2>4, WhatIsWritten DEF OneCard
      <4> QED
        BY <2>4, <4>1
    <3>2. f.id = k.issue /\ k.id = c
      BY <3>1 DEF Paired
    <3>3. card'[c].title = IF CardChangedLast(f, k) THEN k.title ELSE f.title
      BY <1>8, <3>2
    <3>4. card'[c].title = f.title /\ card'[c].issue = f.id
      BY <1>3, <1>7, <2>4, <3>2, <3>3
    <3> QED
      BY <1>1, <1>2, <3>4 DEF ForgeSpokeLast, SaysTheSame
  <2> QED
    BY <2>2, <2>3, <2>4
<1>17. ASSUME NEW ch \in changes, NEW other \in changes, ch.id = other.id PROVE ch = other
  <2>1. PICK f \in sync.found, k \in sync.read : f.id = k.issue /\ ch = Change(f, k)
    BY <1>12
  <2>2. PICK g \in sync.found, l \in sync.read : g.id = l.issue /\ other = Change(g, l)
    BY <1>12
  <2>3. f = g
    BY <1>2, <1>11, <1>17, <2>1, <2>2
  <2>4. k = l
    BY <1>2, <1>3, <1>6, <1>7, <2>1, <2>2, <2>3
  <2> QED
    BY <2>1, <2>2, <2>3, <2>4
<1>18. stops' = 0 => \A i \in Made' : issue'[i].raisedFor # 0 => card'[issue'[i].raisedFor].issue = i
  <2> SUFFICES ASSUME stops = 0, NEW i \in Made, issue[i].raisedFor # 0
               PROVE  card'[issue[i].raisedFor].issue = i
    BY <1>1 DEF Made
  <2>1. card[issue[i].raisedFor].issue = i
    BY <1>1 DEF NothingWasDisturbed, InHand
  <2>2. issue[i].raisedFor \in Card /\ i # NoIssue
    BY SyncAssumption DEF OneCard, SidesAreTyped, IssueAt, Made, Issue, NoIssue
  <2>3. card[issue[i].raisedFor].is # "unmade"
    BY <2>1, <2>2 DEF OneCard, LinksHold
  <2> QED
    BY <1>4, <2>1, <2>2, <2>3
<1>19. /\ sync'.found = {} /\ sync'.waiting = {} /\ sync'.read = {} /\ sync'.phase = "pushing"
       /\ sync'.changes = changes /\ sync'.labels = labels
  BY <1>1 DEF Idle
<1>20. \A ch \in changes : \A c \in Linked' : card'[c].issue = ch.id =>
         IF ch.reword THEN ch.title = card'[c].title ELSE SaysTheSame(c)'
  BY <1>1, <1>14 DEF Linked, Here, SaysTheSame
<1>21. \A l \in labels : \A c \in Linked' : card'[c].issue = l.id =>
         SaysTheSame(c)' \/ \E ch \in changes : ch.id = l.id /\ ch.reword
  BY <1>1, <1>15 DEF Linked, Here, SaysTheSame
<1> QED
  BY <1>16, <1>17, <1>18, <1>19, <1>20, <1>21 DEF NothingWasDisturbed

-----------------------------------------------------------------------------
(* The theorems.                                                            *)

LEMMA OneCardInit ==
  ASSUME Init
  PROVE  IInv
<1>1. SidesAreTyped
  BY SyncAssumption DEF Init, SidesAreTyped, CardAt, IssueAt, NoCard, NoSuchIssue, Board
<1>2. SyncIsTyped
  BY DEF Init, SyncIsTyped, Idle, Phases
<1>3. Made = {} /\ Linked = {}
  BY DEF Init, Made, Linked, Here, NoSuchIssue, NoCard
<1>4. MadeInOrder
  <2>1. Made = 1 .. Cardinality(Made)
    BY <1>3, FS_EmptySet
  <2> QED
    BY <2>1 DEF MadeInOrder, Init, NoCard
<1>5. LinksHold
  BY DEF Init, LinksHold, NoCard, Here
<1>6. SyncHolds
  BY DEF Init, SyncHolds, Idle
<1>7. RaisesAreCounted
  <2>1. \A c \in Card : Raised(c) = {}
    BY <1>3 DEF Raised
  <2> QED
    BY <2>1, FS_EmptySet DEF Init, RaisesAreCounted
<1>8. NothingWasDisturbed
  BY <1>3 DEF Init, NothingWasDisturbed, Idle
<1> QED
  BY <1>1, <1>2, <1>4, <1>5, <1>6, <1>7, <1>8 DEF IInv, OneCard

LEMMA OneCardStep ==
  ASSUME IInv, [Next]_vars
  PROVE  IInv'
<1>1. CASE Next
  <2>1. OneCard'
    BY <1>1, PeopleKeepTypes, ASyncKeepsSidesTyped, ASyncStaysTyped, OrderIsKept, LinksAreKept,
       WhatIsCarriedHolds, RaisesStayCounted
       DEF Next, IInv, OneCard
  <2>2. interrupt' = interrupt
    BY <1>1 DEF Next, OnTheBoard, OnTheForge, SyncStep, Stop, CreateCard, UpdateCard, MoveCard, DeleteCard,
                OpenIssue, RewordIssue, CloseOrReopenIssue, Act, FetchForgeIssues, GatherWaiting, RaiseIssue,
                LinkIssue, ReadLinkedCards, WriteWhatArrived, ChangeIssue, LabelIssue, Finish
  <2>3. ASSUME ~interrupt PROVE NothingWasDisturbed'
    <3>1. OneCard /\ NothingWasDisturbed /\ LinksHold'
      BY <2>1, <2>3 DEF IInv, OneCard
    <3>2. CASE OnTheBoard \/ OnTheForge
      BY <2>3, <3>1, <3>2, PeopleDisturbNothing
    <3>3. CASE FetchForgeIssues \/ GatherWaiting \/ ReadLinkedCards \/ Finish \/ Stop
      BY <3>1, <3>3, ASyncReadsWhatThereIs
    <3>4. CASE RaiseIssue
      BY <3>1, <3>4, RaisingDisturbsNothing
    <3>5. CASE LinkIssue
      BY <3>1, <3>5, LinkingDisturbsNothing
    <3>6. CASE WriteWhatArrived
      BY <3>1, <3>6, WritingDisturbsNothing
    <3>7. ASSUME NEW ch \in sync.changes, ChangeIssue(ch) PROVE NothingWasDisturbed'
      BY <3>1, <3>7, TellingDisturbsNothing
    <3>8. ASSUME NEW l \in sync.labels, LabelIssue(l) PROVE NothingWasDisturbed'
      BY <3>1, <3>8, LabellingDisturbsNothing
    <3> QED
      BY <1>1, <3>2, <3>3, <3>4, <3>5, <3>6, <3>7, <3>8 DEF Next, SyncStep
  <2> QED
    BY <2>1, <2>2, <2>3 DEF IInv
<1>2. CASE UNCHANGED vars
  <2> USE DEF Made, Linked, Here, vars
  <2>1. SidesAreTyped'
    BY <1>2 DEF IInv, OneCard, SidesAreTyped, CardAt, IssueAt
  <2>2. SyncIsTyped'
    BY <1>2 DEF IInv, OneCard, SyncIsTyped, Reply, Wait, Look, Ask, Tag
  <2>3. MadeInOrder' /\ LinksHold'
    BY <1>2 DEF IInv, OneCard, MadeInOrder, LinksHold
  <2>4. SyncHolds'
    BY <1>2 DEF IInv, OneCard, SyncHolds
  <2>5. RaisesAreCounted'
    BY <1>2 DEF IInv, OneCard, RaisesAreCounted, Raised, InHand, NextWaiting
  <2>6. NothingWasDisturbed' = NothingWasDisturbed /\ interrupt' = interrupt
    BY <1>2 DEF NothingWasDisturbed, InHand, NextWaiting, Answer, ForgeSpokeLast, SaysTheSame
  <2> QED
    BY <2>1, <2>2, <2>3, <2>4, <2>5, <2>6 DEF IInv, OneCard
<1> QED
  BY <1>1, <1>2

(* In every reachable state the two sides, and what a sync carries between  *)
(* them, hold together.                                                     *)
THEOREM IssueSyncInvariant == Spec => []IInv
<1>1. Init => IInv
  BY OneCardInit
<1>2. IInv /\ [Next]_vars => IInv'
  BY OneCardStep
<1> QED
  BY <1>1, <1>2, PTL DEF Spec

(* Every variable keeps its type, and what the sync carries is about issues *)
(* that were made.                                                          *)
THEOREM IssueSyncIsTyped == Spec => []TypeOK
<1>1. IInv => TypeOK
  <2> SUFFICES ASSUME IInv PROVE TypeOK
    OBVIOUS
  <2>1. SidesAreTyped /\ SyncIsTyped /\ LinksHold /\ SyncHolds
    BY DEF IInv, OneCard
  <2>2. sync.phase \in {"idle", "fetched", "raising", "posted", "read", "pushing"}
    BY <2>1 DEF SyncIsTyped, Phases
  <2> QED
    BY <2>1, <2>2 DEF TypeOK, SidesAreTyped, LinksHold, SyncHolds, CardAt, IssueAt
<1> QED
  BY <1>1, IssueSyncInvariant, PTL

(* An issue never has two cards, whatever people and broken syncs do in     *)
(* between; and every second issue raised for a card was paid for with a    *)
(* sync that broke off.                                                     *)
THEOREM AnIssueHasOneCard == Spec => []OneCardPerIssue
<1>1. IInv => OneCardPerIssue
  <2> SUFFICES ASSUME IInv PROVE OneCardPerIssue
    OBVIOUS
  <2>1. ASSUME NEW i \in Issue PROVE Cardinality(Standing(i)) <= 1
    <3>1. i # NoIssue
      BY SyncAssumption DEF Issue, NoIssue
    <3>2. \A c, d \in Standing(i) : c = d
      BY <3>1 DEF Standing, IInv, OneCard, LinksHold
    <3>3. CASE Standing(i) = {}
      BY <3>3, FS_EmptySet
    <3>4. CASE Standing(i) # {}
      <4>1. PICK c \in Standing(i) : TRUE
        BY <3>4
      <4>2. Standing(i) = {c}
        BY <3>2, <4>1
      <4> QED
        <5>1. Cardinality({c}) = 1
          BY FS_Singleton
        <5> QED
          BY <4>2, <5>1
    <3> QED
      BY <3>3, <3>4
  <2>2. \A c \in Card : Cardinality({i \in Made : issue[i].raisedFor = c}) <= 1 + stops
    BY DEF IInv, OneCard, RaisesAreCounted, Raised
  <2> QED
    BY <2>1, <2>2 DEF OneCardPerIssue
<1> QED
  BY <1>1, IssueSyncInvariant, PTL

(* An issue whose card was deleted gets no card again, and neither does one *)
(* that was being raised for it, unless people work while a sync runs or a  *)
(* sync was broken off.                                                     *)
THEOREM ADeletedCardStaysAway == Spec => []DeletedIsNotMadeAgain
<1>1. IInv => DeletedIsNotMadeAgain
  <2> SUFFICES ASSUME IInv PROVE DeletedIsNotMadeAgain
    OBVIOUS
  <2>1. \A i \in dismissed : Standing(i) = {}
    BY DEF IInv, OneCard, LinksHold, Standing
  <2>2. ASSUME ~interrupt, stops = 0, NEW i \in Made, issue[i].raisedFor # 0,
               card[issue[i].raisedFor].is = "gone"
        PROVE  Standing(i) = {}
    <3> DEFINE c == issue[i].raisedFor
    <3>1. c \in Card /\ i # NoIssue
      BY <2>2, SyncAssumption DEF IInv, OneCard, SidesAreTyped, IssueAt, Made, Issue, NoIssue
    <3>2. card[c].issue = i \/ (InHand(c) /\ sync.posted = i)
      BY <2>2 DEF IInv, NothingWasDisturbed
    <3>3. CASE card[c].issue = i
      <4>1. i \in dismissed
        BY <2>2, <3>1, <3>3 DEF IInv, OneCard, LinksHold
      <4> QED
        BY <2>1, <4>1
    <3>4. CASE sync.posted = i
      BY <3>1, <3>4 DEF IInv, OneCard, SyncHolds, Standing
    <3> QED
      BY <3>2, <3>3, <3>4
  <2> QED
    BY <2>1, <2>2 DEF DeletedIsNotMadeAgain
<1> QED
  BY <1>1, IssueSyncInvariant, PTL

(* When nobody works while a sync runs, the sync rewords a card only when   *)
(* the forge spoke after the card was last touched here.                    *)
THEOREM ASyncRewordsForTheForge == Spec => OnlyTheForgeRewordsIt
<1> DEFINE Kept == ~interrupt =>
              \A c \in Linked :
                Here(c)' /\ card'[c].touched = card[c].touched /\ card'[c].title # card[c].title
                  => issue[card[c].issue].spoken > card[c].touched
<1>1. IInv /\ [Next]_vars => Kept \/ UNCHANGED vars
  <2> SUFFICES ASSUME IInv, Next, ~interrupt, NEW c \in Linked, Here(c)',
                      card'[c].touched = card[c].touched, card'[c].title # card[c].title
               PROVE  issue[card[c].issue].spoken > card[c].touched
    OBVIOUS
  <2>1. /\ c \in Card /\ card[c] \in CardAt(now) /\ now \in Nat /\ card \in [Card -> CardAt(now)]
        /\ card[c].touched \in 0 .. now
    BY DEF Linked, IInv, OneCard, SidesAreTyped, CardAt
  <2>2. CASE WriteWhatArrived
    <3>1. OneCard /\ NothingWasDisturbed /\ card[c].is # "unmade" /\ Here(c)
      BY DEF IInv, Linked, Here
    <3>2. PICK f \in sync.found, k \in sync.read :
            /\ Paired(c, f, k)
            /\ card'[c] = [card[c] EXCEPT
                 !.list = IF Settlement(f, k).moves THEN Settlement(f, k).to ELSE @,
                 !.title = IF Settlement(f, k).pulls THEN f.title ELSE @]
      <4>1. card'[c] # card[c]
        OBVIOUS
      <4> QED
        BY <2>1, <2>2, <3>1, <4>1, WhatIsWritten DEF OneCard
    <3>3. Settlement(f, k).pulls /\ card[c].title # f.title
      BY <2>1, <3>2 DEF CardAt
    <3>4. ~CardChangedLast(f, k)
      BY <3>3 DEF Settlement
    <3>5. k.touched = card[c].touched /\ f.id = card[c].issue
      BY <3>1, <3>2 DEF Paired, NothingWasDisturbed, OneCard, SyncHolds
    <3>6. f.updated = issue[f.id].updated /\ f.title = issue[f.id].title
      <4>1. f = Answer(f.id)
        BY <3>1 DEF NothingWasDisturbed
      <4>2. \A i : Answer(i).updated = issue[i].updated /\ Answer(i).title = issue[i].title
        BY DEF Answer
      <4> QED
        BY <4>1, <4>2
    <3>7. ForgeSpokeLast(c)
      BY <3>1 DEF NothingWasDisturbed
    <3> QED
      BY <3>3, <3>4, <3>5, <3>6, <3>7 DEF ForgeSpokeLast, SaysTheSame, CardChangedLast
  <2>3. CASE LinkIssue
    <3>1. NextWaiting.card \in Card
      BY <2>3, NextWaitingIs DEF IInv, OneCard, LinkIssue, SyncIsTyped
    <3> HIDE DEF NextWaiting
    <3> QED
      BY <2>1, <2>3, <3>1 DEF LinkIssue, CardAt
  <2>4. ASSUME NEW d \in Card, UpdateCard(d) PROVE FALSE
    <3>1. card'[c] = card[c] \/ card'[c].touched = now + 1
      BY <2>1, <2>4 DEF UpdateCard, Act, CardAt
    <3> QED
      BY <2>1, <3>1
  <2>5. ASSUME NEW d \in Card, DeleteCard(d) \/ \E l \in Board : MoveCard(d, l) PROVE FALSE
    <3>1. CASE DeleteCard(d)
      BY <2>1, <3>1 DEF DeleteCard, CardAt
    <3>2. ASSUME NEW l \in Board, MoveCard(d, l) PROVE FALSE
      BY <2>1, <3>2 DEF MoveCard, CardAt
    <3> QED
      BY <2>5, <3>1, <3>2
  <2>6. ASSUME NEW l \in Board, CreateCard(l) PROVE FALSE
    <3>1. NextCard \in Card /\ card[NextCard].is = "unmade"
      BY <2>6, NextCardIs DEF IInv, OneCard, CreateCard
    <3>2. c # NextCard
      BY <3>1 DEF Linked, Here
    <3> HIDE DEF NextCard
    <3> QED
      BY <2>1, <2>6, <3>1, <3>2 DEF CreateCard
  <2>7. ASSUME UNCHANGED card PROVE FALSE
    BY <2>7
  <2> QED
    BY <2>2, <2>3, <2>4, <2>5, <2>6, <2>7
       DEF Next, OnTheBoard, OnTheForge, SyncStep, Stop, OpenIssue, RewordIssue, CloseOrReopenIssue,
           FetchForgeIssues, GatherWaiting, RaiseIssue, ReadLinkedCards, ChangeIssue, LabelIssue, Finish
<1> HIDE DEF Kept
<1>2. Spec => [][Kept]_vars
  BY <1>1, IssueSyncInvariant, PTL DEF Spec
<1> QED
  BY <1>2 DEF OnlyTheForgeRewordsIt, Kept

-----------------------------------------------------------------------------
(* In step.  A sync that nobody disturbs sees every card linked; the next   *)
(* then has every issue in its answer, and leaves nothing untold.           *)

(* One page holds every issue, closed ones too.                             *)
OnePageHoldsAll == ~OpenOnly /\ MaxIssues <= PageSize

AllAreLinked == \A c \in Card \ Private : Here(c) => c \in Linked

AllStand == \A i \in Made \ dismissed : Standing(i) # {}

SaysAllTheSame(c) == Agree(c) /\ issue[card[c].issue].label = card[c].list

(* What an issue does not say of its card is about to be told to it.        *)
IsTold(c) ==
  LET i == card[c].issue IN
  /\ card[c].title = issue[i].title \/ \E ch \in sync.changes : ch.id = i /\ ch.reword
  /\ (IsClosed(c) <=> issue[i].closed) \/ \E ch \in sync.changes : ch.id = i /\ ch.close
  /\ issue[i].label = card[c].list \/ \E l \in sync.labels : l.id = i
  /\ \A ch \in sync.changes : ch.id = i => /\ ch.reword => ch.title = card[c].title
                                           /\ ch.close => (ch.closed <=> IsClosed(c))
  /\ \A l \in sync.labels : l.id = i => l.list = card[c].list

(* What a sync carries while nobody disturbs it.                            *)
FirstTime ==
  /\ \A f \in sync.found : f = Answer(f.id)
  /\ \A w \in sync.waiting : Here(w.card)
  /\ sync.phase \in {"raising", "posted"} =>
       \A c \in Card \ Private : Here(c) /\ card[c].issue = NoIssue => \E w \in sync.waiting : w.card = c
  /\ sync.phase \in {"read", "pushing"} => AllAreLinked
  /\ \A k \in sync.read : /\ Here(k.id) /\ k.list = card[k.id].list
                          /\ k.title = card[k.id].title /\ k.touched = card[k.id].touched

(* And after one that nobody disturbed.                                     *)
SecondTime ==
  /\ AllAreLinked /\ sync.waiting = {}
  /\ sync.phase \in {"fetched", "raising", "read"} => \A i \in Made : \E f \in sync.found : f.id = i
  /\ sync.phase = "pushing" => /\ AllStand
                               /\ \A c \in Linked : IsTold(c)
                               /\ \A ch, other \in sync.changes : ch.id = other.id => ch = other

(* And after two.                                                           *)
EverAfter ==
  /\ AllStand /\ \A c \in Linked : SaysAllTheSame(c)
  /\ sync.changes = {} /\ sync.labels = {}

CalmInv ==
  /\ sync.turnedDown \subseteq dismissed
  /\ calm >= 0 => FirstTime
  /\ OnePageHoldsAll /\ calm >= 1 => SecondTime
  /\ OnePageHoldsAll /\ calm = 2 => EverAfter

(* What an act of people, a stop, or the end of a disturbed sync leaves.    *)
LEMMA PeopleStayCalm ==
  ASSUME OneCard, OneCard', CalmInv, OnTheBoard \/ OnTheForge
  PROVE  CalmInv'
<1>1. /\ UNCHANGED sync /\ calm' = IF sync.phase = "idle" THEN 0 ELSE -1
      /\ ~LinkIssue /\ ~WriteWhatArrived
  <2>1. UNCHANGED sync /\ calm' = IF sync.phase = "idle" THEN 0 ELSE -1
    BY DEF OnTheBoard, OnTheForge, CreateCard, UpdateCard, MoveCard, DeleteCard, OpenIssue, RewordIssue,
           CloseOrReopenIssue, Act
  <2>2. (LinkIssue => sync.phase = "posted" /\ sync'.phase = "raising")
        /\ (WriteWhatArrived => sync.phase = "read" /\ sync'.phase = "pushing")
    BY DEF LinkIssue, WriteWhatArrived, OneCard, SyncIsTyped, Idle
  <2> QED
    BY <2>1, <2>2
<1>2. dismissed \subseteq dismissed'
  BY <1>1, WhatBecomesOfCards DEF OneCard, Next
<1>3. sync.phase = "idle" => FirstTime'
  BY <1>1 DEF OneCard, SyncIsTyped, Idle, FirstTime
<1> QED
  BY <1>1, <1>2, <1>3 DEF CalmInv

LEMMA MadeFitOnAPage ==
  ASSUME OnePageHoldsAll, SidesAreTyped
  PROVE  Newest = Made
<1>1. ASSUME NEW i \in Made PROVE Cardinality({j \in Made : j > i}) < PageSize
  <2> DEFINE above == {j \in Made : j > i}
  <2>1. above \subseteq Issue \ {i} /\ i \in Issue
    BY DEF Made, Issue
  <2>2. IsFiniteSet(Issue) /\ Cardinality(Issue) = MaxIssues /\ MaxIssues \in Nat /\ PageSize \in Nat
    BY SyncAssumption, FS_Interval DEF Issue
  <2>3. IsFiniteSet(Issue \ {i}) /\ Cardinality(Issue \ {i}) = MaxIssues - 1
    BY <2>1, <2>2, FS_RemoveElement
  <2>4. Cardinality(above) <= MaxIssues - 1 /\ Cardinality(above) \in Nat
    BY <2>1, <2>3, FS_Subset, FS_CardinalityType
  <2> HIDE DEF above
  <2>5. Cardinality(above) < PageSize
    BY <2>2, <2>4 DEF OnePageHoldsAll
  <2> QED
    BY <2>5 DEF above
<1>2. ~OpenOnly
  BY DEF OnePageHoldsAll
<1> QED
  BY <1>1, <1>2 DEF Newest

LEMMA ReadingStaysCalm ==
  ASSUME OneCard, OneCard', CalmInv, FetchForgeIssues \/ GatherWaiting \/ ReadLinkedCards
  PROVE  CalmInv'
<1>1. UNCHANGED <<card, issue, dismissed, calm>>
  BY DEF FetchForgeIssues, GatherWaiting, ReadLinkedCards
<1>2. /\ Made' = Made /\ Linked' = Linked /\ AllAreLinked' = AllAreLinked /\ AllStand' = AllStand
      /\ \A c : Here(c)' = Here(c) /\ SaysAllTheSame(c)' = SaysAllTheSame(c)
      /\ \A i : Answer(i)' = Answer(i)
  BY <1>1 DEF Made, Linked, Here, AllAreLinked, AllStand, Standing, SaysAllTheSame, Agree, IsClosed, Answer
<1>3. SyncIsTyped /\ SyncIsTyped'
  BY DEF OneCard
<1>4. CASE FetchForgeIssues
  <2> DEFINE found == {Answer(i) : i \in Newest \union ChangedSince}
  <2>1. sync = Idle /\ sync' = [sync EXCEPT !.phase = "fetched", !.found = found]
    BY <1>3, <1>4 DEF FetchForgeIssues, SyncIsTyped
  <2>2. /\ \A f \in found : f = Answer(f.id)
        /\ OnePageHoldsAll => \A i \in Made : \E f \in found : f.id = i
    <3>1. \A i : Answer(i).id = i
      BY DEF Answer
    <3>2. OnePageHoldsAll => Newest = Made
      BY MadeFitOnAPage DEF OneCard
    <3> QED
      BY <3>1, <3>2
  <2> HIDE DEF found
  <2>3. /\ sync'.phase = "fetched" /\ sync'.found = found /\ sync'.waiting = {} /\ sync'.read = {}
        /\ sync'.changes = {} /\ sync'.labels = {} /\ sync'.turnedDown = {}
    BY <2>1 DEF Idle
  <2>4. FirstTime'
    BY <1>2, <2>2, <2>3 DEF FirstTime
  <2>5. SecondTime /\ OnePageHoldsAll => SecondTime'
    BY <1>2, <2>2, <2>3 DEF SecondTime
  <2>6. EverAfter => EverAfter'
    BY <1>2, <2>3 DEF EverAfter
  <2> QED
    BY <1>1, <2>3, <2>4, <2>5, <2>6 DEF CalmInv
<1>5. CASE GatherWaiting
  <2> DEFINE toRaise == {[card |-> c, title |-> card[c].title] :
                           c \in {c \in Card \ Private : Here(c) /\ card[c].issue = NoIssue}}
  <2>1. sync.phase = "fetched" /\ sync' = [sync EXCEPT !.phase = "raising", !.waiting = toRaise]
    BY <1>5 DEF GatherWaiting
  <2>2. /\ \A w \in toRaise : Here(w.card)
        /\ \A c \in Card \ Private : Here(c) /\ card[c].issue = NoIssue => \E w \in toRaise : w.card = c
        /\ AllAreLinked => toRaise = {}
    <3>1. AllAreLinked => {c \in Card \ Private : Here(c) /\ card[c].issue = NoIssue} = {}
      BY DEF AllAreLinked, Linked
    <3>2. \A w \in toRaise : Here(w.card)
      OBVIOUS
    <3>3. ASSUME NEW c \in Card \ Private, Here(c), card[c].issue = NoIssue
          PROVE  \E w \in toRaise : w.card = c
      <4>1. [card |-> c, title |-> card[c].title] \in toRaise
        BY <3>3
      <4> QED
        BY <4>1
    <3> QED
      BY <3>1, <3>2, <3>3
  <2> HIDE DEF toRaise
  <2>3. /\ sync'.phase = "raising" /\ sync'.waiting = toRaise /\ sync'.found = sync.found /\ sync'.read = {}
        /\ sync'.changes = {} /\ sync'.labels = {} /\ sync'.turnedDown = sync.turnedDown
    BY <1>3, <2>1 DEF SyncIsTyped
  <2>4. FirstTime => FirstTime'
    BY <1>1, <1>2, <2>2, <2>3 DEF FirstTime
  <2>5. SecondTime => SecondTime'
    BY <1>2, <2>1, <2>2, <2>3 DEF SecondTime
  <2>6. EverAfter => EverAfter'
    BY <1>2, <2>3 DEF EverAfter
  <2> QED
    BY <1>1, <2>3, <2>4, <2>5, <2>6 DEF CalmInv
<1>6. CASE ReadLinkedCards
  <2> DEFINE read == {[id |-> c, issue |-> card[c].issue, list |-> card[c].list,
                       title |-> card[c].title, touched |-> card[c].touched] :
                         c \in {c \in Card : Here(c) /\ card[c].issue # NoIssue}}
  <2>1. /\ sync.phase = "raising" /\ sync.waiting = {}
        /\ sync' = [sync EXCEPT !.phase = "read", !.turnedDown = dismissed, !.read = read]
    BY <1>6 DEF ReadLinkedCards
  <2>2. \A k \in read : /\ Here(k.id) /\ k.list = card[k.id].list
                        /\ k.title = card[k.id].title /\ k.touched = card[k.id].touched
    OBVIOUS
  <2> HIDE DEF read
  <2>3. /\ sync'.phase = "read" /\ sync'.waiting = {} /\ sync'.found = sync.found /\ sync'.read = read
        /\ sync'.changes = {} /\ sync'.labels = {} /\ sync'.turnedDown = dismissed
    BY <1>3, <2>1 DEF SyncIsTyped
  <2>4. FirstTime => FirstTime'
    <3>1. FirstTime => AllAreLinked
      BY <2>1 DEF FirstTime, AllAreLinked, Linked
    <3> QED
      BY <1>1, <1>2, <2>2, <2>3, <3>1 DEF FirstTime
  <2>5. SecondTime => SecondTime'
    BY <1>2, <2>1, <2>3 DEF SecondTime
  <2>6. EverAfter => EverAfter'
    BY <1>2, <2>3 DEF EverAfter
  <2> QED
    BY <1>1, <2>3, <2>4, <2>5, <2>6 DEF CalmInv
<1> QED
  BY <1>4, <1>5, <1>6

LEMMA EndingStaysCalm ==
  ASSUME OneCard, OneCard', CalmInv, Finish \/ Stop
  PROVE  CalmInv'
<1>1. /\ sync' = Idle /\ UNCHANGED <<card, issue, dismissed>>
      /\ \A c : Here(c)' = Here(c) /\ SaysAllTheSame(c)' = SaysAllTheSame(c)
      /\ Linked' = Linked /\ AllAreLinked' = AllAreLinked /\ AllStand' = AllStand
  BY DEF Finish, Stop, Linked, Here, Made, AllAreLinked, AllStand, Standing, SaysAllTheSame, Agree, IsClosed
<1>2. /\ FirstTime' /\ sync'.phase = "idle" /\ sync'.turnedDown = {}
      /\ sync'.waiting = {} /\ sync'.changes = {} /\ sync'.labels = {}
  <2>1. /\ sync'.phase = "idle" /\ sync'.turnedDown = {} /\ sync'.found = {} /\ sync'.read = {}
        /\ sync'.waiting = {} /\ sync'.changes = {} /\ sync'.labels = {}
    BY <1>1 DEF Idle
  <2> QED
    BY <2>1 DEF FirstTime
<1>3. CASE Stop
  BY <1>2, <1>3 DEF Stop, CalmInv
<1>4. CASE Finish
  <2>1. /\ sync.phase = "pushing" /\ sync.changes = {} /\ sync.labels = {} /\ calm \in -1 .. 2
        /\ calm' = Min({calm + 1, 2})
    BY <1>4 DEF Finish, OneCard, SidesAreTyped
  <2>2. calm' = IF calm = 2 THEN 2 ELSE calm + 1
    <3>1. \E x \in {calm + 1, 2} : \A y \in {calm + 1, 2} : x <= y
      BY <2>1
    <3>2. calm' \in {calm + 1, 2} /\ \A y \in {calm + 1, 2} : calm' <= y
      BY <2>1, <3>1 DEF Min
    <3> QED
      BY <2>1, <3>2
  <2>3. calm >= 0 => AllAreLinked
    BY <2>1 DEF CalmInv, FirstTime
  <2>4. calm' >= 1 => SecondTime'
    BY <1>1, <1>2, <2>1, <2>2, <2>3 DEF SecondTime
  <2>5. ASSUME OnePageHoldsAll, calm' = 2 PROVE EverAfter'
    <3>1. SecondTime
      BY <2>1, <2>2, <2>5 DEF CalmInv
    <3>2. AllStand /\ \A c \in Linked : IsTold(c)
      BY <2>1, <3>1 DEF SecondTime
    <3>3. \A c \in Linked : SaysAllTheSame(c)
      BY <2>1, <3>2 DEF IsTold, SaysAllTheSame, Agree
    <3> QED
      BY <1>1, <1>2, <3>2, <3>3 DEF EverAfter
  <2> QED
    BY <1>2, <2>4, <2>5 DEF CalmInv
<1> QED
  BY <1>3, <1>4

LEMMA RaisingStaysCalm ==
  ASSUME OneCard, OneCard', CalmInv, RaiseIssue
  PROVE  CalmInv'
<1> DEFINE n == NextIssue
<1>1. /\ sync.phase = "raising" /\ sync.waiting # {} /\ UNCHANGED <<card, dismissed, calm>>
      /\ sync' = [sync EXCEPT !.phase = "posted", !.posted = n]
  BY DEF RaiseIssue
<1>2. /\ n \notin Made /\ issue' = [issue EXCEPT ![n] = issue'[n]]
  BY WhatIsMade, NextIssueIs DEF Next, SyncStep, OneCard, RaiseIssue
<1> HIDE DEF n
<1>3. \A i \in Made : issue'[i] = issue[i]
  BY <1>2 DEF OneCard, SidesAreTyped, Made
<1>4. \A f \in sync.found : f = Answer(f.id) => f = Answer(f.id)'
  BY <1>3 DEF Answer, OneCard, SyncHolds
<1>5. /\ sync'.found = sync.found /\ sync'.waiting = sync.waiting /\ sync'.read = sync.read
      /\ sync'.phase = "posted" /\ sync'.turnedDown = sync.turnedDown
  BY <1>1 DEF OneCard, SyncIsTyped
<1>6. calm >= 0 => FirstTime'
  BY <1>1, <1>4, <1>5 DEF CalmInv, FirstTime, Here
<1>7. ~(OnePageHoldsAll /\ calm >= 1)
  BY <1>1 DEF CalmInv, SecondTime
<1> QED
  BY <1>1, <1>5, <1>6, <1>7 DEF CalmInv

LEMMA LinkingStaysCalm ==
  ASSUME OneCard, OneCard', CalmInv, LinkIssue
  PROVE  CalmInv'
<1> DEFINE v == NextWaiting
<1>1. /\ v \in sync.waiting /\ v.card \in Card /\ sync.posted # NoIssue
      /\ sync.phase = "posted" /\ UNCHANGED <<issue, dismissed, calm>>
      /\ card' = [card EXCEPT ![v.card].issue = IF Here(v.card) THEN sync.posted ELSE @]
      /\ sync' = [sync EXCEPT !.phase = "raising", !.posted = NoIssue, !.waiting = @ \ {v}]
  <2>1. sync.phase = "posted" /\ sync.waiting # {} /\ sync.posted # NoIssue /\ SyncIsTyped
    BY DEF LinkIssue, OneCard, SyncIsTyped
  <2> QED
    BY <2>1, NextWaitingIs DEF LinkIssue
<1> HIDE DEF v
<1>2. /\ \A c \in Card : c # v.card => card'[c] = card[c]
      /\ \A c \in Card : card'[c].is = card[c].is
      /\ Here(v.card) => card'[v.card].issue = sync.posted
  BY <1>1 DEF OneCard, SidesAreTyped, CardAt
<1>3. /\ sync'.found = sync.found /\ sync'.waiting = sync.waiting \ {v} /\ sync'.read = {}
      /\ sync'.phase = "raising" /\ sync'.turnedDown = sync.turnedDown
  BY <1>1 DEF OneCard, SyncIsTyped
<1>4. \A w \in sync.waiting : w.card \in Card
  BY DEF OneCard, SyncIsTyped, Wait
<1>5. ASSUME FirstTime PROVE FirstTime'
  <2>1. \A f \in sync'.found : f = Answer(f.id)'
    BY <1>1, <1>3, <1>5 DEF FirstTime, Answer
  <2>2. \A w \in sync'.waiting : Here(w.card)'
    BY <1>2, <1>3, <1>4, <1>5 DEF FirstTime, Here
  <2>3. ASSUME NEW c \in Card \ Private, Here(c)', card'[c].issue = NoIssue
        PROVE  \E w \in sync'.waiting : w.card = c
    <3>1. Here(c)
      BY <1>2, <2>3 DEF Here
    <3>2. c # v.card /\ card[c].issue = NoIssue
      BY <1>1, <1>2, <2>3, <3>1
    <3>3. PICK w \in sync.waiting : w.card = c
      BY <1>1, <1>5, <2>3, <3>1, <3>2 DEF FirstTime
    <3> QED
      BY <1>3, <3>2, <3>3
  <2> QED
    BY <1>3, <2>1, <2>2, <2>3 DEF FirstTime
<1>6. ~(OnePageHoldsAll /\ calm >= 1)
  BY <1>1 DEF CalmInv, SecondTime
<1> QED
  BY <1>1, <1>3, <1>5, <1>6 DEF CalmInv

LEMMA TellingStaysCalm ==
  ASSUME OneCard, OneCard', CalmInv, NEW ch \in sync.changes, ChangeIssue(ch)
  PROVE  CalmInv'
<1>1. /\ ch.id \in Issue /\ ch.id \in Made /\ issue \in [Issue -> IssueAt(now)]
  BY DEF OneCard, SyncIsTyped, SyncHolds, SidesAreTyped, Ask
<1>2. /\ UNCHANGED <<card, dismissed, calm>> /\ sync.phase = "pushing"
      /\ sync' = [sync EXCEPT !.changes = @ \ {ch}]
      /\ issue'[ch.id].title = IF ch.reword THEN ch.title ELSE issue[ch.id].title
      /\ issue'[ch.id].closed = IF ch.close THEN ch.closed ELSE issue[ch.id].closed
      /\ issue'[ch.id].label = issue[ch.id].label
      /\ \A i \in Issue : i # ch.id => issue'[i] = issue[i]
      /\ \A i \in Issue : issue'[i].made = issue[i].made
  BY <1>1 DEF ChangeIssue, IssueAt
<1>3. /\ sync'.found = {} /\ sync'.waiting = {} /\ sync'.read = {} /\ sync'.phase = "pushing"
      /\ sync'.changes = sync.changes \ {ch} /\ sync'.labels = sync.labels
      /\ sync'.turnedDown = sync.turnedDown
  BY <1>2 DEF OneCard, SyncIsTyped
<1>4. /\ Linked' = Linked /\ Made' = Made /\ AllAreLinked' = AllAreLinked /\ AllStand' = AllStand
      /\ \A c \in Linked : c \in Card /\ card[c].issue \in Issue
  BY <1>2 DEF Linked, Here, OneCard, SidesAreTyped, CardAt, Made, AllAreLinked, AllStand, Standing
<1>5. FirstTime => FirstTime'
  BY <1>2, <1>3, <1>4 DEF FirstTime
<1>6. ASSUME SecondTime PROVE SecondTime'
  <2>1. /\ AllStand /\ \A c \in Linked : IsTold(c)
        /\ \A other \in sync.changes \ {ch} : other.id # ch.id
        /\ \A one, other \in sync.changes : one.id = other.id => one = other
    BY <1>2, <1>6 DEF SecondTime
  <2>2. ASSUME NEW c \in Linked PROVE IsTold(c)'
    <3>1. IsTold(c) /\ IsClosed(c)' = IsClosed(c)
      BY <1>2, <2>1 DEF IsClosed
    <3>2. CASE card[c].issue = ch.id
      <4>1. /\ ch.reword => ch.title = card[c].title
            /\ ch.close => (ch.closed <=> IsClosed(c))
            /\ ~ch.reword => card[c].title = issue[ch.id].title
            /\ ~ch.close => (IsClosed(c) <=> issue[ch.id].closed)
        BY <2>1, <3>1, <3>2 DEF IsTold
      <4>2. card'[c].title = issue'[ch.id].title /\ (IsClosed(c)' <=> issue'[ch.id].closed)
        BY <1>2, <3>1, <4>1
      <4>3. \A other \in sync'.changes : other.id # ch.id
        BY <1>3, <2>1
      <4> QED
        BY <1>2, <1>3, <3>1, <3>2, <4>2, <4>3 DEF IsTold
    <3>3. CASE card[c].issue # ch.id
      <4>1. issue'[card[c].issue] = issue[card[c].issue] /\ card' = card
        BY <1>2, <1>4, <3>3
      <4>2. \A i : i # ch.id => \A other \in sync.changes : other.id = i => other \in sync'.changes
        BY <1>3
      <4> QED
        BY <1>3, <3>1, <3>3, <4>1, <4>2 DEF IsTold
    <3> QED
      BY <3>2, <3>3
  <2> QED
    BY <1>3, <1>4, <1>6, <2>1, <2>2 DEF SecondTime
<1>7. ~(OnePageHoldsAll /\ calm = 2)
  BY DEF CalmInv, EverAfter
<1> QED
  BY <1>2, <1>3, <1>5, <1>6, <1>7 DEF CalmInv

LEMMA LabellingStaysCalm ==
  ASSUME OneCard, OneCard', CalmInv, NEW l \in sync.labels, LabelIssue(l)
  PROVE  CalmInv'
<1>1. l.id \in Issue /\ l.id \in Made /\ issue \in [Issue -> IssueAt(now)]
  BY DEF OneCard, SyncIsTyped, SyncHolds, SidesAreTyped, Tag
<1>2. /\ UNCHANGED <<card, dismissed, calm>> /\ sync.phase = "pushing" /\ sync.changes = {}
      /\ sync' = [sync EXCEPT !.labels = @ \ {l}]
      /\ issue'[l.id].label = l.list
      /\ \A i \in Issue : i # l.id => issue'[i] = issue[i]
      /\ \A i \in Issue : /\ issue'[i].made = issue[i].made /\ issue'[i].title = issue[i].title
                          /\ issue'[i].closed = issue[i].closed
  BY <1>1 DEF LabelIssue, IssueAt
<1>3. /\ sync'.found = {} /\ sync'.waiting = {} /\ sync'.read = {} /\ sync'.phase = "pushing"
      /\ sync'.changes = {} /\ sync'.labels = sync.labels \ {l}
      /\ sync'.turnedDown = sync.turnedDown
  BY <1>2 DEF OneCard, SyncIsTyped
<1>4. /\ Linked' = Linked /\ Made' = Made /\ AllAreLinked' = AllAreLinked /\ AllStand' = AllStand
      /\ \A c \in Linked : c \in Card /\ card[c].issue \in Issue
  BY <1>2 DEF Linked, Here, OneCard, SidesAreTyped, CardAt, Made, AllAreLinked, AllStand, Standing
<1>5. FirstTime => FirstTime'
  BY <1>2, <1>3, <1>4 DEF FirstTime
<1>6. ASSUME SecondTime PROVE SecondTime'
  <2>1. AllStand /\ \A c \in Linked : IsTold(c)
    BY <1>2, <1>6 DEF SecondTime
  <2>2. ASSUME NEW c \in Linked PROVE IsTold(c)'
    <3> DEFINE i == card[c].issue
    <3>1. /\ card[c].title = issue[i].title /\ (IsClosed(c) <=> issue[i].closed)
          /\ issue[i].label = card[c].list \/ \E k \in sync.labels : k.id = i
          /\ \A k \in sync.labels : k.id = i => k.list = card[c].list
      BY <1>2, <2>1 DEF IsTold
    <3>2. /\ card'[c].title = issue'[i].title /\ (IsClosed(c)' <=> issue'[i].closed) /\ card'[c].issue = i
          /\ card'[c].list = card[c].list
      BY <1>2, <1>4, <3>1 DEF IsClosed
    <3>3. issue'[i].label = card[c].list \/ \E k \in sync'.labels : k.id = i
      <4>1. CASE i = l.id
        BY <1>2, <3>1, <4>1
      <4>2. CASE i # l.id
        BY <1>2, <1>3, <1>4, <3>1, <4>2
      <4> QED
        BY <4>1, <4>2
    <3> HIDE DEF i
    <3> QED
      BY <1>3, <3>1, <3>2, <3>3 DEF IsTold
  <2> QED
    BY <1>3, <1>4, <1>6, <2>1, <2>2 DEF SecondTime
<1>7. ~(OnePageHoldsAll /\ calm = 2)
  BY DEF CalmInv, EverAfter
<1> QED
  BY <1>2, <1>3, <1>5, <1>6, <1>7 DEF CalmInv

LEMMA ListsDiffer == Arriving # Finishing
<1>1. IsFiniteSet({Middle}) /\ Cardinality({Middle}) = 1
  BY FS_Singleton
<1>2. IsFiniteSet({Middle} \union {Arriving}) /\ Cardinality({Middle} \union {Arriving}) <= 2
  BY <1>1, FS_AddElement
<1>3. Arriving = Finishing => Board = {Middle} \union {Arriving}
  BY DEF Board
<1> QED
  BY <1>2, <1>3, SyncAssumption

(* What a write does with a card whose issue was answered.                  *)
LEMMA WhatIsSettled ==
  ASSUME OneCard, FirstTime, WriteWhatArrived,
         NEW f \in sync.found, NEW k \in sync.read, f.id = k.issue
  PROVE  /\ k.id \in Card /\ card'[k.id].is = "here" /\ card'[k.id].issue = f.id
         /\ card'[k.id].list = Settlement(f, k).to
         /\ card'[k.id].title = IF CardChangedLast(f, k) THEN k.title ELSE f.title
         /\ card'[k.id].list = Finishing <=> IF CardChangedLast(f, k) THEN k.list = Finishing ELSE f.closed
<1>1. /\ k.id \in Card /\ Here(k.id) /\ k.list = card[k.id].list /\ k.title = card[k.id].title
      /\ k.issue = card[k.id].issue /\ card[k.id] \in CardAt(now) /\ Paired(k.id, f, k)
  BY DEF OneCard, SidesAreTyped, SyncHolds, SyncIsTyped, Look, FirstTime, Paired
<1>2. PICK g \in sync.found, l \in sync.read :
        /\ Paired(k.id, g, l)
        /\ card'[k.id] = [card[k.id] EXCEPT
             !.list = IF Settlement(g, l).moves THEN Settlement(g, l).to ELSE @,
             !.title = IF Settlement(g, l).pulls THEN g.title ELSE @]
  BY <1>1, WhatIsWritten DEF OneCard, Here
<1>3. g = f /\ l = k
  <2>1. l = k
    BY <1>1, <1>2 DEF OneCard, SyncHolds, Paired
  <2> QED
    BY <1>1, <1>2, <2>1 DEF OneCard, SyncHolds, Paired
<1>4. /\ card'[k.id].is = "here" /\ card'[k.id].issue = f.id
      /\ card'[k.id].list = IF Settlement(f, k).moves THEN Settlement(f, k).to ELSE k.list
      /\ card'[k.id].title = IF Settlement(f, k).pulls THEN f.title ELSE k.title
  BY <1>1, <1>2, <1>3 DEF CardAt, Here
<1>5. /\ Settlement(f, k).pulls <=> (~CardChangedLast(f, k) /\ k.title # f.title)
      /\ ~Settlement(f, k).moves => Settlement(f, k).to = k.list
      /\ Settlement(f, k).to = Finishing <=> IF CardChangedLast(f, k) THEN k.list = Finishing ELSE f.closed
  BY ListsDiffer DEF Settlement
<1> QED
  BY <1>1, <1>4, <1>5

LEMMA WritingStaysCalm ==
  ASSUME OneCard, OneCard', CalmInv, WriteWhatArrived
  PROVE  CalmInv'
<1> DEFINE changed == {Change(p[1], p[2]) : p \in {p \in Pairs : CardChangedLast(p[1], p[2])}}
           changes == {ch \in changed : ch.reword \/ ch.close}
           labels == {Label(p[1], Settlement(p[1], p[2]).to) :
                        p \in {p \in Pairs : p[1].label # Settlement(p[1], p[2]).to}}
                     \union {Label(f, Arrival(f).list) :
                               f \in {f \in Unseen : f.label # Arrival(f).list}}
<1>1. /\ sync' = [Idle EXCEPT !.phase = "pushing", !.changes = changes, !.labels = labels]
      /\ UNCHANGED <<issue, dismissed, calm>> /\ sync.phase = "read" /\ Made' = Made
  BY DEF WriteWhatArrived, Made
<1>2. /\ sync'.found = {} /\ sync'.waiting = {} /\ sync'.read = {} /\ sync'.phase = "pushing"
      /\ sync'.changes = changes /\ sync'.labels = labels /\ sync'.turnedDown = {}
  BY <1>1 DEF Idle
(* What is told, pair by pair.                                              *)
<1>3. \A f \in sync.found, k \in sync.read : f.id = k.issue /\ CardChangedLast(f, k) =>
        /\ k.title # f.title => \E ch \in changes : ch.id = f.id /\ ch.reword
        /\ f.closed # (k.list = Finishing) => \E ch \in changes : ch.id = f.id /\ ch.close
  <2>1. ASSUME NEW f \in sync.found, NEW k \in sync.read, f.id = k.issue, CardChangedLast(f, k)
        PROVE  /\ Change(f, k) \in changed /\ Change(f, k).id = f.id
               /\ Change(f, k).reword <=> k.title # f.title
               /\ Change(f, k).close <=> f.closed # (k.list = Finishing)
    <3>1. <<f, k>> \in {p \in Pairs : CardChangedLast(p[1], p[2])}
      BY <2>1 DEF Pairs
    <3>2. Change(f, k) \in changed
      BY <3>1
    <3> QED
      BY <3>2 DEF Change
  <2> HIDE DEF changed
  <2> QED
    BY <2>1
<1>4. \A ch \in changes : \E f \in sync.found, k \in sync.read :
        /\ f.id = k.issue /\ CardChangedLast(f, k) /\ ch = Change(f, k)
        /\ ch.reword \/ ch.close
  BY DEF Pairs
<1>5. \A f \in sync.found, k \in sync.read : f.id = k.issue /\ f.label # Settlement(f, k).to =>
        \E l \in labels : l.id = f.id
  <2>1. ASSUME NEW f \in sync.found, NEW k \in sync.read, f.id = k.issue, f.label # Settlement(f, k).to
        PROVE  Label(f, Settlement(f, k).to) \in labels /\ Label(f, Settlement(f, k).to).id = f.id
    <3>1. <<f, k>> \in {p \in Pairs : p[1].label # Settlement(p[1], p[2]).to}
      BY <2>1 DEF Pairs
    <3>2. Label(f, Settlement(f, k).to) \in labels
      BY <3>1
    <3> QED
      BY <3>2 DEF Label
  <2> HIDE DEF labels
  <2> QED
    BY <2>1
<1>6. \A f \in Unseen : f.label # Arrival(f).list => \E l \in labels : l.id = f.id
  <2>1. ASSUME NEW f \in Unseen, f.label # Arrival(f).list
        PROVE  Label(f, Arrival(f).list) \in labels /\ Label(f, Arrival(f).list).id = f.id
    <3>1. Label(f, Arrival(f).list) \in labels
      BY <2>1
    <3> QED
      BY <3>1 DEF Label
  <2> HIDE DEF labels
  <2> QED
    BY <2>1
<1>7. \A l \in labels :
        \/ \E f \in sync.found, k \in sync.read :
             f.id = k.issue /\ l.id = f.id /\ l.list = Settlement(f, k).to /\ f.label # Settlement(f, k).to
        \/ \E f \in Unseen : l.id = f.id /\ l.list = Arrival(f).list
  <2>1. \A f, b : Label(f, b).id = f.id /\ Label(f, b).list = b
    BY DEF Label
  <2>2. \A p \in Pairs : p[1] \in sync.found /\ p[2] \in sync.read /\ p[1].id = p[2].issue
    BY DEF Pairs
  <2> QED
    BY <2>1, <2>2
<1> HIDE DEF changed, changes, labels
(* What a write keeps.                                                      *)
<1>8. /\ \A c \in Card : card[c].is # "unmade" => card'[c].is = card[c].is /\ card'[c].issue = card[c].issue
      /\ \A c \in Card : card[c].is = "unmade" => card'[c] = card[c] \/ \E f \in Unseen : c = NewCardFor(f)
  BY WhatAWriteKeeps DEF OneCard
<1>9. \A f \in Unseen : /\ NewCardFor(f) \in Card /\ card'[NewCardFor(f)] = Arrival(f)
                        /\ f \in sync.found /\ f.id \in Made /\ f.id # NoIssue
                        /\ Arrival(f).is = "here" /\ Arrival(f).issue = f.id /\ Arrival(f).title = f.title
                        /\ Arrival(f).list = IF f.closed THEN Finishing ELSE Arriving
  <2>1. \A f \in Unseen : NewCardFor(f) \in Card /\ card'[NewCardFor(f)] = Arrival(f) /\ f \in sync.found
    BY WhatIsWritten DEF OneCard, Unseen
  <2>2. \A f \in sync.found : f.id \in Made
    BY DEF OneCard, SyncHolds
  <2>3. NoIssue \notin Made
    BY SyncAssumption DEF Made, Issue, NoIssue
  <2>4. \A f : /\ Arrival(f).is = "here" /\ Arrival(f).issue = f.id /\ Arrival(f).title = f.title
               /\ Arrival(f).list = IF f.closed THEN Finishing ELSE Arriving
    BY DEF Arrival
  <2> QED
    BY <2>1, <2>2, <2>3, <2>4
<1>10. calm >= 0 => FirstTime'
  <2> SUFFICES ASSUME calm >= 0 PROVE FirstTime'
    OBVIOUS
  <2>1. FirstTime /\ AllAreLinked
    BY <1>1 DEF CalmInv, FirstTime
  <2>2. ASSUME NEW c \in Card \ Private, Here(c)' PROVE c \in Linked'
    <3>1. CASE card[c].is = "unmade"
      <4>1. PICK f \in Unseen : c = NewCardFor(f)
        BY <1>8, <2>2, <3>1 DEF Here
      <4>2. card'[c].issue = f.id
        BY <1>9, <4>1
      <4> QED
        BY <1>9, <2>2, <4>2 DEF Linked
    <3>2. CASE card[c].is # "unmade"
      BY <1>8, <2>1, <2>2, <3>2 DEF AllAreLinked, Linked, Here
    <3> QED
      BY <3>1, <3>2
  <2> QED
    BY <1>2, <2>2 DEF FirstTime, AllAreLinked
<1>11. ASSUME OnePageHoldsAll, calm >= 1 PROVE SecondTime'
  <2>1. /\ FirstTime /\ AllAreLinked /\ AllAreLinked'
        /\ \A i \in Made : \E f \in sync.found : f.id = i
    <3>1. FirstTime /\ SecondTime /\ FirstTime'
      <4>1. calm >= 0
        BY <1>11 DEF OneCard, SidesAreTyped
      <4> QED
        BY <1>10, <1>11, <4>1 DEF CalmInv
    <3>2. AllAreLinked' /\ AllAreLinked
      BY <1>2, <3>1 DEF FirstTime, SecondTime
    <3> QED
      BY <1>1, <3>1, <3>2 DEF SecondTime
  <2>2. /\ \A f \in sync.found : /\ f.title = issue[f.id].title /\ f.closed = issue[f.id].closed
                                 /\ f.label = issue[f.id].label
        /\ \A f, g \in sync.found : f.id = g.id => f = g
    BY <2>1 DEF FirstTime, Answer, OneCard, SyncHolds
  <2>3. \A k, l \in sync.read : k.issue = l.issue => k = l
    <3>1. \A k \in sync.read : k.id \in Card /\ Here(k.id) /\ card[k.id].issue = k.issue /\ k.issue # NoIssue
      BY SyncAssumption, <2>1 DEF FirstTime, OneCard, SyncIsTyped, SyncHolds, Look, Issue, NoIssue
    <3>2. \A k, l \in sync.read : k.issue = l.issue => k.id = l.id
      BY <3>1 DEF OneCard, LinksHold
    <3> QED
      BY <3>2 DEF OneCard, SyncHolds
  <2>4. \A f \in Unseen, k \in sync.read : f.id # k.issue
    BY DEF Unseen
  <2>5. AllStand'
    <3> SUFFICES ASSUME NEW i \in Made, i \notin dismissed PROVE Standing(i)' # {}
      BY <1>1 DEF AllStand
    <3>1. PICK f \in sync.found : f.id = i
      BY <2>1
    <3>2. CASE \E k \in sync.read : k.issue = i
      <4>1. PICK k \in sync.read : k.issue = i
        BY <3>2
      <4>2. k.id \in Card /\ card'[k.id].is = "here" /\ card'[k.id].issue = i
        BY <2>1, <3>1, <4>1, WhatIsSettled
      <4> QED
        BY <4>2 DEF Standing, Here
    <3>3. CASE ~\E k \in sync.read : k.issue = i
      <4>1. f \in Unseen
        BY <1>11, <3>1, <3>3 DEF Unseen, OnePageHoldsAll, CalmInv
      <4>2. card'[NewCardFor(f)].is = "here" /\ card'[NewCardFor(f)].issue = i /\ NewCardFor(f) \in Card
        BY <1>9, <3>1, <4>1
      <4> QED
        BY <4>2 DEF Standing, Here
    <3> QED
      BY <3>2, <3>3
  <2>6. ASSUME NEW c \in Linked' PROVE IsTold(c)'
    <3>1. c \in Card /\ card'[c].is = "here" /\ card'[c].issue # NoIssue
      BY DEF Linked, Here
    <3>2. CASE card[c].is = "unmade"
      <4>1. PICK f \in Unseen : c = NewCardFor(f)
        BY <1>8, <3>1, <3>2
      <4>2. /\ card'[c].issue = f.id /\ card'[c].title = f.title /\ card'[c].list = Arrival(f).list
            /\ Arrival(f).list = Finishing <=> f.closed
            /\ f \in sync.found
        BY <1>9, <4>1, ListsDiffer
      <4>3. \A ch \in changes : ch.id # f.id
        BY <1>4, <2>4, <4>1 DEF Change
      <4>4. \A l \in labels : l.id = f.id => l.list = Arrival(f).list
        BY <1>7, <1>9, <2>2, <2>4, <4>1
      <4>5. f.label = Arrival(f).list \/ \E l \in labels : l.id = f.id
        BY <1>6, <4>1
      <4>6. card'[c].title = issue'[f.id].title /\ (IsClosed(c)' <=> issue'[f.id].closed)
            /\ issue'[f.id].label = f.label
        BY <1>1, <2>2, <4>2 DEF IsClosed
      <4> QED
        BY <1>2, <4>2, <4>3, <4>4, <4>5, <4>6 DEF IsTold
    <3>3. CASE card[c].is # "unmade"
      <4>1. c \in Linked /\ card[c].issue \in Made
        BY <1>8, <3>1, <3>3 DEF Linked, Here, OneCard, LinksHold
      <4>2. PICK k \in sync.read : k.id = c
        BY <1>1, <4>1 DEF OneCard, SyncHolds
      <4>3. PICK f \in sync.found : f.id = k.issue
        BY <2>1, <4>1, <4>2 DEF OneCard, SyncHolds
      <4>4. /\ card'[c].issue = f.id /\ card'[c].list = Settlement(f, k).to
            /\ card'[c].title = IF CardChangedLast(f, k) THEN k.title ELSE f.title
            /\ card'[c].list = Finishing <=> IF CardChangedLast(f, k) THEN k.list = Finishing ELSE f.closed
        BY <2>1, <4>2, <4>3, WhatIsSettled
      <4>5. \A ch \in changes : ch.id = f.id =>
              CardChangedLast(f, k) /\ ch.title = k.title /\ (ch.closed <=> k.list = Finishing)
        <5> SUFFICES ASSUME NEW ch \in changes, ch.id = f.id
                     PROVE  CardChangedLast(f, k) /\ ch.title = k.title /\ (ch.closed <=> k.list = Finishing)
          OBVIOUS
        <5>1. PICK g \in sync.found, l \in sync.read :
                g.id = l.issue /\ CardChangedLast(g, l) /\ ch = Change(g, l)
          BY <1>4
        <5>2. g.id = ch.id /\ ch.title = l.title /\ (ch.closed <=> l.list = Finishing)
          BY <5>1 DEF Change
        <5>3. g = f /\ l = k
          BY <2>2, <2>3, <4>3, <5>1, <5>2
        <5> QED
          BY <5>1, <5>2, <5>3
      <4>6. \A l \in labels : l.id = f.id => l.list = Settlement(f, k).to
        BY <1>7, <2>2, <2>3, <2>4, <4>3
      <4>7. f.label = Settlement(f, k).to \/ \E l \in labels : l.id = f.id
        BY <1>5, <4>3
      <4>8. /\ card'[c].title = f.title \/ \E ch \in changes : ch.id = f.id /\ ch.reword
            /\ (card'[c].list = Finishing <=> f.closed) \/ \E ch \in changes : ch.id = f.id /\ ch.close
        <5>1. CASE CardChangedLast(f, k)
          BY <1>3, <4>3, <4>4, <5>1
        <5>2. CASE ~CardChangedLast(f, k)
          BY <4>4, <5>2
        <5> QED
          BY <5>1, <5>2
      <4>9. /\ issue'[f.id].title = f.title /\ issue'[f.id].closed = f.closed /\ issue'[f.id].label = f.label
            /\ IsClosed(c)' <=> card'[c].list = Finishing
        BY <1>1, <2>2 DEF IsClosed
      <4>10. \A ch \in changes : ch.id = f.id => ch.title = card'[c].title /\ (ch.closed <=> IsClosed(c)')
        BY <4>4, <4>5, <4>9
      <4> QED
        BY <1>2, <4>4, <4>6, <4>7, <4>8, <4>9, <4>10 DEF IsTold
    <3> QED
      BY <3>2, <3>3
  <2>7. \A ch, other \in changes : ch.id = other.id => ch = other
    <3> SUFFICES ASSUME NEW ch \in changes, NEW other \in changes, ch.id = other.id PROVE ch = other
      OBVIOUS
    <3>1. PICK f \in sync.found, k \in sync.read : f.id = k.issue /\ ch = Change(f, k)
      BY <1>4
    <3>2. PICK g \in sync.found, l \in sync.read : g.id = l.issue /\ other = Change(g, l)
      BY <1>4
    <3>3. ch.id = f.id /\ other.id = g.id
      BY <3>1, <3>2 DEF Change
    <3>4. f = g /\ k = l
      BY <2>2, <2>3, <3>1, <3>2, <3>3
    <3> QED
      BY <3>1, <3>2, <3>4
  <2> QED
    BY <1>2, <2>1, <2>5, <2>6, <2>7 DEF SecondTime
<1>12. ASSUME OnePageHoldsAll, calm = 2 PROVE EverAfter'
  <2>1. FirstTime /\ SecondTime /\ EverAfter /\ SecondTime'
    BY <1>11, <1>12 DEF CalmInv
  <2>2. \A k \in sync.read : /\ k.id \in Linked /\ k.issue = card[k.id].issue /\ k.title = card[k.id].title
                             /\ k.list = card[k.id].list
    BY <2>1, SyncAssumption
       DEF FirstTime, OneCard, SyncIsTyped, SyncHolds, Look, Linked, Issue, NoIssue
  <2>3. \A f \in sync.found, k \in sync.read : f.id = k.issue =>
          /\ k.title = f.title /\ f.closed = (k.list = Finishing) /\ f.label = k.list
    <3> SUFFICES ASSUME NEW f \in sync.found, NEW k \in sync.read, f.id = k.issue
                 PROVE  k.title = f.title /\ f.closed = (k.list = Finishing) /\ f.label = k.list
      OBVIOUS
    <3>1. f.title = issue[f.id].title /\ f.closed = issue[f.id].closed /\ f.label = issue[f.id].label
      BY <2>1 DEF FirstTime, Answer
    <3>2. SaysAllTheSame(k.id)
      BY <2>1, <2>2 DEF EverAfter
    <3>3. f.closed \in BOOLEAN
      BY DEF OneCard, SyncIsTyped, Reply
    <3> QED
      BY <2>2, <3>1, <3>2, <3>3 DEF SaysAllTheSame, Agree, IsClosed
  <2>4. changes = {}
    <3> SUFFICES ASSUME NEW ch \in changes PROVE FALSE
      OBVIOUS
    <3>1. PICK f \in sync.found, k \in sync.read :
            f.id = k.issue /\ ch = Change(f, k) /\ (ch.reword \/ ch.close)
      BY <1>4
    <3> QED
      BY <2>3, <3>1 DEF Change
  <2>5. Unseen = {}
    <3> SUFFICES ASSUME NEW f \in Unseen PROVE FALSE
      OBVIOUS
    <3>1. f.id \in Made /\ f.id \notin sync.turnedDown /\ \A k \in sync.read : k.issue # f.id
      BY <1>9 DEF Unseen
    <3>2. f.id \notin dismissed
      BY <1>1, <3>1 DEF OneCard, SyncHolds
    <3>3. PICK c \in Card : Here(c) /\ card[c].issue = f.id
      BY <2>1, <3>1, <3>2 DEF EverAfter, AllStand, Standing
    <3>4. c \in Linked
      BY <1>9, <3>3 DEF Linked
    <3> QED
      BY <1>1, <3>1, <3>3, <3>4 DEF OneCard, SyncHolds
  <2>6. labels = {}
    <3> SUFFICES ASSUME NEW l \in labels PROVE FALSE
      OBVIOUS
    <3>1. PICK f \in sync.found, k \in sync.read : f.id = k.issue /\ f.label # Settlement(f, k).to
      BY <1>7, <2>5
    <3>2. Settlement(f, k).to = k.list
      BY <2>3, <3>1 DEF Settlement
    <3> QED
      BY <2>3, <3>1, <3>2
  <2>7. AllStand' /\ \A c \in Linked' : SaysAllTheSame(c)'
    <3>1. AllStand' /\ \A c \in Linked' : IsTold(c)'
      BY <1>2, <2>1 DEF SecondTime
    <3>2. \A c \in Linked' : SaysAllTheSame(c)'
      BY <1>2, <2>4, <2>6, <3>1 DEF IsTold, SaysAllTheSame, Agree
    <3> QED
      BY <3>1, <3>2
  <2> QED
    BY <1>2, <2>4, <2>6, <2>7 DEF EverAfter
<1> QED
  BY <1>1, <1>2, <1>10, <1>11, <1>12 DEF CalmInv

LEMMA CalmIsKept ==
  ASSUME OneCard, OneCard', CalmInv, [Next]_vars
  PROVE  CalmInv'
<1>1. ASSUME NEW ch \in sync.changes, ChangeIssue(ch) PROVE CalmInv'
  BY <1>1, TellingStaysCalm
<1>2. ASSUME NEW l \in sync.labels, LabelIssue(l) PROVE CalmInv'
  BY <1>2, LabellingStaysCalm
<1>3. CASE UNCHANGED vars
  BY <1>3 DEF vars, CalmInv, FirstTime, SecondTime, EverAfter, AllAreLinked, AllStand, IsTold, SaysAllTheSame,
              Agree, IsClosed, Linked, Here, Made, Standing, Answer
<1> QED
  BY <1>1, <1>2, <1>3, PeopleStayCalm, ReadingStaysCalm, EndingStaysCalm, RaisingStaysCalm, LinkingStaysCalm,
     WritingStaysCalm
     DEF Next, SyncStep

(* Two syncs in a row that nobody disturbs, and whatever broke off before   *)
(* them, bring cards and issues into step, and they stay in step until      *)
(* somebody does something (IssueSync.InStep): for any numbers of either,   *)
(* as long as one page of the forge's answer holds every issue.             *)
THEOREM UndisturbedSyncsSettle == OnePageHoldsAll => (Spec => []InStep)
<1>1. Init => CalmInv
  BY DEF Init, Idle, CalmInv, FirstTime
<1>2. IInv /\ IInv' /\ CalmInv /\ [Next]_vars => CalmInv'
  BY CalmIsKept DEF IInv
<1>3. Spec => []CalmInv
  BY <1>1, <1>2, IssueSyncInvariant, PTL DEF Spec
<1> SUFFICES ASSUME OnePageHoldsAll PROVE Spec => []InStep
  OBVIOUS
<1>4. CalmInv => InStep
  <2> SUFFICES ASSUME CalmInv, calm = 2
               PROVE  /\ \A c \in Card \ Private : Here(c) => c \in Linked
                      /\ \A i \in Made \ dismissed : Standing(i) # {}
                      /\ \A c \in Linked : Agree(c) /\ issue[card[c].issue].label = card[c].list
    BY DEF InStep
  <2>1. SecondTime /\ EverAfter
    BY DEF CalmInv
  <2> QED
    BY <2>1 DEF SecondTime, EverAfter, AllAreLinked, AllStand, SaysAllTheSame
<1> QED
  BY <1>3, <1>4, PTL
=============================================================================

------------------------- MODULE CommandOutboxProofs -------------------------
(***************************************************************************)
(* Proofs about CommandOutbox for every set of commands, requests, events  *)
(* and workers, every number of consumers and crashes and every batch size.*)
(***************************************************************************)
EXTENDS CommandOutbox, TLAPS

-----------------------------------------------------------------------------
(* The inductive invariant.                                                 *)

(* One open transaction per command id, and none once the id is logged.     *)
OpenIsExclusive ==
  \A a \in Attempt :
    request[a] \in Open =>
      /\ CommandOf[a] \notin commandLog
      /\ KeyIsFree(a)

(* A request that got past its commit, or found one, has its row logged.    *)
DoneIsLogged ==
  \A a \in Attempt :
    request[a] \in Succeeded \union {"committed", "lost"} => CommandOf[a] \in commandLog

(* A drain has tried only what it holds, and what it tried was offered.     *)
TriedWasHeld ==
  \A w \in Worker : \A p \in tried[w] :
    p \in batch[w] \X Consumer /\ offers[p] > 0

(* Before a row is processed, an offer beyond the number of lost drains     *)
(* belongs to a drain that is still open.                                   *)
OffersAreCounted ==
  \A e \in Event, k \in Consumer :
    /\ offers[<<e, k>>] <= 1 + crashes
    /\ (event[e] # "processed" /\ \A w \in Worker : <<e, k>> \notin tried[w])
         => offers[<<e, k>>] <= crashes

RequestInv == OpenIsExclusive /\ DoneIsLogged /\ WriteLogAndEventsAgree

DrainInv == ClaimsAreDisjoint /\ TriedWasHeld /\ OffersAreCounted /\ ProcessedWasOffered

IInv == TypeOK /\ RequestInv /\ DrainInv

-----------------------------------------------------------------------------

(* Every variable keeps its type.                                           *)
LEMMA TypeInvariance == TypeOK /\ [Next]_vars => TypeOK'
<1> SUFFICES ASSUME TypeOK, [Next]_vars PROVE TypeOK'
  OBVIOUS
<1> USE RequestsAssumption, DrainAssumption
          DEF TypeOK, RequestState, Open, Succeeded, Consumer
<1>1. ASSUME NEW a \in Attempt, Send(a) PROVE TypeOK'
  BY <1>1 DEF Send, To, drainVars
<1>2. ASSUME NEW a \in Attempt, Record(a) PROVE TypeOK'
  BY <1>2 DEF Record, To, drainVars
<1>3. ASSUME NEW a \in Attempt, Repeat(a) PROVE TypeOK'
  BY <1>3 DEF Repeat, To, drainVars
<1>4. ASSUME NEW a \in Attempt, Run(a) PROVE TypeOK'
  BY <1>4 DEF Run, To, drainVars
<1>5. ASSUME NEW a \in Attempt, Commit(a) PROVE TypeOK'
  BY <1>5 DEF Commit, To, drainVars
<1>6. ASSUME NEW a \in Attempt, Answer(a) PROVE TypeOK'
  BY <1>6 DEF Answer, To, drainVars
<1>7. ASSUME NEW a \in Attempt, Rollback(a) PROVE TypeOK'
  BY <1>7 DEF Rollback, To, drainVars
<1>8. ASSUME NEW w \in Worker, Claim(w) PROVE TypeOK'
  BY <1>8 DEF Claim, requestVars
<1>9. ASSUME NEW w \in Worker, NEW e \in Event, NEW k \in Consumer, Handle(w, e, k)
      PROVE TypeOK'
  BY <1>9 DEF Handle, requestVars
<1>10. ASSUME NEW w \in Worker, MarkProcessed(w) PROVE TypeOK'
  BY <1>10 DEF MarkProcessed, requestVars
<1>11. ASSUME NEW w \in Worker, Crash(w) PROVE TypeOK'
  BY <1>11 DEF Crash, requestVars
<1>12. CASE UNCHANGED vars
  BY <1>12 DEF vars
<1> QED
  BY <1>1, <1>2, <1>3, <1>4, <1>5, <1>6, <1>7, <1>8, <1>9, <1>10, <1>11, <1>12
     DEF Next, Serve, Drain

(* Type correctness of every behaviour (CommandOutbox.TypeOK).              *)
THEOREM TypeCorrect == SafeSpec => []TypeOK
<1>1. Init => TypeOK
  BY DrainAssumption DEF Init, TypeOK, RequestState
<1> QED
  BY <1>1, TypeInvariance, PTL DEF SafeSpec

-----------------------------------------------------------------------------
(* The request half.                                                        *)

(* Sending, recording, running, committing and rolling back keep the log,   *)
(* the writes and the events in step; a drain never undoes it, because it   *)
(* only marks rows that are there.                                          *)
LEMMA RequestInductive ==
  TypeOK /\ RequestInv /\ ClaimsAreDisjoint /\ [Next]_vars => RequestInv'
<1> SUFFICES ASSUME TypeOK, RequestInv, ClaimsAreDisjoint, [Next]_vars PROVE RequestInv'
  OBVIOUS
<1> USE RequestsAssumption DEF RequestInv, OpenIsExclusive, DoneIsLogged
<1>q. ASSUME UNCHANGED <<commandLog, writes, event>> PROVE WriteLogAndEventsAgree'
  BY <1>q DEF WriteLogAndEventsAgree, EventsOf
<1>1. ASSUME NEW a \in Attempt, Send(a) PROVE RequestInv'
  BY <1>1, <1>q DEF Send, To, TypeOK, KeyIsFree, Open, Succeeded, drainVars
<1>2. ASSUME NEW a \in Attempt, Record(a) PROVE RequestInv'
  BY <1>2, <1>q DEF Record, To, TypeOK, KeyIsFree, Open, Succeeded, drainVars
<1>3. ASSUME NEW a \in Attempt, Repeat(a) PROVE RequestInv'
  BY <1>3, <1>q DEF Repeat, To, TypeOK, KeyIsFree, Open, Succeeded, drainVars
<1>4. ASSUME NEW a \in Attempt, Run(a) PROVE RequestInv'
  BY <1>4, <1>q DEF Run, To, TypeOK, KeyIsFree, Open, Succeeded, drainVars
<1>5. ASSUME NEW a \in Attempt, Commit(a) PROVE RequestInv'
  <2>1. OpenIsExclusive' /\ DoneIsLogged'
    BY <1>5 DEF Commit, To, TypeOK, KeyIsFree, Open, Succeeded
  <2>2. WriteLogAndEventsAgree'
    BY <1>5 DEF Commit, TypeOK, Open, WriteLogAndEventsAgree, EventsOf
  <2> QED
    BY <2>1, <2>2
<1>6. ASSUME NEW a \in Attempt, Answer(a) PROVE RequestInv'
  BY <1>6, <1>q DEF Answer, To, TypeOK, KeyIsFree, Open, Succeeded, drainVars
<1>7. ASSUME NEW a \in Attempt, Rollback(a) PROVE RequestInv'
  BY <1>7, <1>q DEF Rollback, To, TypeOK, KeyIsFree, Open, Succeeded, drainVars
<1>8. ASSUME UNCHANGED <<requestVars, event>> PROVE RequestInv'
  BY <1>8, <1>q DEF requestVars, KeyIsFree
<1>9. ASSUME NEW w \in Worker, MarkProcessed(w) PROVE RequestInv'
  BY <1>9 DEF MarkProcessed, requestVars, KeyIsFree, ClaimsAreDisjoint,
              WriteLogAndEventsAgree, EventsOf, TypeOK
<1> QED
  BY <1>1, <1>2, <1>3, <1>4, <1>5, <1>6, <1>7, <1>8, <1>9
     DEF Next, Serve, Drain, Claim, Handle, Crash, vars, requestVars

-----------------------------------------------------------------------------
(* The drain half.                                                          *)

(* A step of a request locks nothing and offers nothing; the rows it adds   *)
(* were nobody's.                                                           *)
LEMMA RequestsLeaveDrains ==
  ASSUME TypeOK, RequestInv, DrainInv, UNCHANGED drainVars,
         \A e \in Event : event'[e] = event[e] \/ (event[e] = "none" /\ event'[e] = "waiting")
  PROVE  DrainInv'
BY DEF DrainInv, ClaimsAreDisjoint, TriedWasHeld, OffersAreCounted, ProcessedWasOffered,
       drainVars, TypeOK

(* Claiming, handing over, marking and crashing keep claims disjoint and    *)
(* offers accounted for.                                                    *)
LEMMA DrainInductive == TypeOK /\ RequestInv /\ DrainInv /\ [Next]_vars => DrainInv'
<1> SUFFICES ASSUME TypeOK, RequestInv, DrainInv, [Next]_vars PROVE DrainInv'
  OBVIOUS
<1> USE DrainAssumption DEF Consumer
<1>1. ASSUME NEW a \in Attempt, Send(a) \/ Serve(a) \/ Rollback(a) PROVE DrainInv'
  <2>1. UNCHANGED drainVars
    BY <1>1 DEF Serve, Send, Record, Repeat, Run, Answer, Rollback, Commit, drainVars
  <2>2. CASE Commit(a)
    <3>1. \A e \in EventsOf(CommandOf[a]) : event[e] = "none"
      BY <2>2, RequestsAssumption
         DEF Commit, RequestInv, OpenIsExclusive, Open, WriteLogAndEventsAgree, TypeOK
    <3>2. \A e \in Event : event'[e] = event[e] \/ (event[e] = "none" /\ event'[e] = "waiting")
      BY <2>2, <3>1 DEF Commit
    <3> QED
      BY <2>1, <3>2, RequestsLeaveDrains
  <2>3. CASE UNCHANGED event
    BY <2>1, <2>3, RequestsLeaveDrains
  <2> QED
    BY <1>1, <2>2, <2>3 DEF Serve, Send, Record, Repeat, Run, Answer, Rollback
<1>2. ASSUME NEW w \in Worker, Claim(w) PROVE DrainInv'
  <2>1. PICK S \in SUBSET Event : OldestUnlocked(S) /\ batch' = [batch EXCEPT ![w] = S]
    BY <1>2 DEF Claim
  <2>2. ClaimsAreDisjoint'
    BY <1>2, <2>1 DEF Claim, OldestUnlocked, Unlocked, DrainInv, ClaimsAreDisjoint, TypeOK
  <2>3. TriedWasHeld'
    BY <1>2, <2>1 DEF Claim, DrainInv, TriedWasHeld, TypeOK
  <2>4. OffersAreCounted' /\ ProcessedWasOffered'
    BY <1>2 DEF Claim, DrainInv, OffersAreCounted, ProcessedWasOffered
  <2> QED
    BY <2>2, <2>3, <2>4 DEF DrainInv
<1>3. ASSUME NEW w \in Worker, NEW e \in Event, NEW k \in Consumer, Handle(w, e, k)
      PROVE DrainInv'
  <2>1. ClaimsAreDisjoint'
    BY <1>3 DEF Handle, DrainInv, ClaimsAreDisjoint
  <2>2. TriedWasHeld'
    BY <1>3 DEF Handle, IsNext, DrainInv, TriedWasHeld, TypeOK
  <2>3. /\ event[e] = "waiting"
        /\ \A v \in Worker : <<e, k>> \notin tried[v]
    BY <1>3 DEF Handle, IsNext, DrainInv, ClaimsAreDisjoint, TriedWasHeld
  <2>4. offers[<<e, k>>] <= crashes
    BY <2>3 DEF DrainInv, OffersAreCounted
  <2>5. ASSUME NEW f \in Event, NEW j \in Consumer
        PROVE /\ offers'[<<f, j>>] <= 1 + crashes
              /\ (event[f] # "processed" /\ \A v \in Worker : <<f, j>> \notin tried'[v])
                   => offers'[<<f, j>>] <= crashes
    <3>1. CASE <<f, j>> = <<e, k>>
      <4>1. offers'[<<f, j>>] = offers[<<e, k>>] + 1 /\ <<f, j>> \in tried'[w]
        BY <1>3, <3>1 DEF Handle, TypeOK
      <4> QED
        BY <4>1, <2>4 DEF TypeOK
    <3>2. CASE <<f, j>> # <<e, k>>
      BY <1>3, <3>2 DEF Handle, TypeOK, DrainInv, OffersAreCounted
    <3> QED
      BY <3>1, <3>2
  <2>6. OffersAreCounted'
    BY <1>3, <2>5 DEF Handle, OffersAreCounted
  <2>7. ProcessedWasOffered'
    BY <1>3 DEF Handle, DrainInv, ProcessedWasOffered, TypeOK
  <2> QED
    BY <2>1, <2>2, <2>6, <2>7 DEF DrainInv
<1>4. ASSUME NEW w \in Worker, MarkProcessed(w) PROVE DrainInv'
  <2>1. ClaimsAreDisjoint' /\ TriedWasHeld'
    BY <1>4 DEF MarkProcessed, DrainInv, ClaimsAreDisjoint, TriedWasHeld, TypeOK
  <2>2. ASSUME NEW e \in Event, NEW k \in Consumer,
               event'[e] # "processed", \A v \in Worker : <<e, k>> \notin tried'[v]
        PROVE  offers[<<e, k>>] <= crashes
    <3>1. e \notin batch[w] /\ event[e] # "processed"
      BY <1>4, <2>2 DEF MarkProcessed, TypeOK
    <3>2. <<e, k>> \notin tried[w]
      BY <3>1 DEF DrainInv, TriedWasHeld
    <3>3. \A v \in Worker : <<e, k>> \notin tried[v]
      BY <1>4, <2>2, <3>2 DEF MarkProcessed, TypeOK
    <3> QED
      BY <3>1, <3>3 DEF DrainInv, OffersAreCounted
  <2>4. OffersAreCounted'
    BY <1>4, <2>2 DEF MarkProcessed, DrainInv, OffersAreCounted
  <2>3. ProcessedWasOffered'
    BY <1>4 DEF MarkProcessed, DrainInv, TriedWasHeld, ProcessedWasOffered, TypeOK
  <2> QED
    BY <2>1, <2>3, <2>4 DEF DrainInv
<1>5. ASSUME NEW w \in Worker, Crash(w) PROVE DrainInv'
  <2>1. ClaimsAreDisjoint' /\ TriedWasHeld' /\ ProcessedWasOffered'
    BY <1>5 DEF Crash, DrainInv, ClaimsAreDisjoint, TriedWasHeld, ProcessedWasOffered, TypeOK
  <2>2. \A e \in Event, k \in Consumer :
          offers'[<<e, k>>] \in Nat /\ offers'[<<e, k>>] <= 1 + crashes
    BY <1>5 DEF Crash, DrainInv, OffersAreCounted, TypeOK
  <2>3. crashes \in Nat /\ crashes' = crashes + 1
    BY <1>5 DEF Crash, TypeOK
  <2>4. ASSUME NEW e \in Event, NEW k \in Consumer
        PROVE  offers'[<<e, k>>] <= crashes' /\ offers'[<<e, k>>] <= 1 + crashes'
    <3>1. offers'[<<e, k>>] \in Nat /\ offers'[<<e, k>>] <= 1 + crashes
      BY <2>2
    <3> QED
      BY <3>1, <2>3
  <2>5. OffersAreCounted'
    BY <2>4 DEF OffersAreCounted
  <2> QED
    BY <2>1, <2>5 DEF DrainInv
<1>6. CASE UNCHANGED vars
  BY <1>6, RequestsLeaveDrains DEF vars, drainVars
<1> QED
  BY <1>1, <1>2, <1>3, <1>4, <1>5, <1>6 DEF Next, Drain

-----------------------------------------------------------------------------

(* The inductive invariant holds of every behaviour.                        *)
THEOREM Inductive == SafeSpec => []IInv
<1>1. Init => IInv
  <2> SUFFICES ASSUME Init PROVE IInv
    OBVIOUS
  <2>1. TypeOK
    BY DrainAssumption DEF Init, TypeOK, RequestState
  <2>2. RequestInv
    BY RequestsAssumption
       DEF Init, RequestInv, OpenIsExclusive, DoneIsLogged, Open, Succeeded,
           WriteLogAndEventsAgree, EventsOf
  <2>3. DrainInv
    BY DrainAssumption
       DEF Init, DrainInv, ClaimsAreDisjoint, TriedWasHeld, OffersAreCounted,
           ProcessedWasOffered
  <2> QED
    BY <2>1, <2>2, <2>3 DEF IInv
<1>2. IInv /\ [Next]_vars => IInv'
  BY TypeInvariance, RequestInductive, DrainInductive DEF IInv, DrainInv
<1> QED
  BY <1>1, <1>2, PTL DEF SafeSpec

(* An answer of success is true: the change is in the database exactly once *)
(* (execute-command.ts, for first sendings and repeats alike).              *)
THEOREM SuccessIsTrue == SafeSpec => []SuccessMeansWritten
<1>1. IInv => SuccessMeansWritten
  BY RequestsAssumption
     DEF IInv, RequestInv, DoneIsLogged, WriteLogAndEventsAgree, SuccessMeansWritten
<1> QED
  BY <1>1, Inductive, PTL

(* The log, the change and the events stand or fall together.               *)
THEOREM TransactionIsWhole == SafeSpec => []WriteLogAndEventsAgree
<1>1. IInv => WriteLogAndEventsAgree
  BY DEF IInv, RequestInv
<1> QED
  BY <1>1, Inductive, PTL

(* Any number of workers claim disjoint batches of unprocessed rows.        *)
THEOREM WorkersClaimApart == SafeSpec => []ClaimsAreDisjoint
<1>1. IInv => ClaimsAreDisjoint
  BY DEF IInv, DrainInv
<1> QED
  BY <1>1, Inductive, PTL

(* A consumer is handed an event at most once more than drains were lost,   *)
(* and every consumer was handed every processed event.                     *)
THEOREM RepeatsAreBounded == SafeSpec => [](RepeatsNeedACrash /\ ProcessedWasOffered)
<1>1. IInv => RepeatsNeedACrash /\ ProcessedWasOffered
  <2> SUFFICES ASSUME IInv PROVE RepeatsNeedACrash /\ ProcessedWasOffered
    OBVIOUS
  <2>1. \A p \in Event \X Consumer : \E e \in Event, k \in Consumer : p = <<e, k>>
    OBVIOUS
  <2> QED
    BY <2>1 DEF IInv, DrainInv, OffersAreCounted, RepeatsNeedACrash, ProcessedWasOffered
<1> QED
  BY <1>1, Inductive, PTL

(* Nothing happens to a row after it is marked (markEventsProcessed).       *)
THEOREM MarkedIsOver == SafeSpec => ProcessedIsFinal
<1> DEFINE Final == \A e \in Event : event[e] = "processed" =>
                      /\ event'[e] = "processed"
                      /\ \A k \in Consumer : offers'[<<e, k>>] = offers[<<e, k>>]
<1>1. IInv /\ [Next]_vars => [Final]_vars
  <2> SUFFICES ASSUME IInv, Next PROVE Final
    BY DEF vars
  <2> USE DEF IInv, TypeOK
  <2>1. ASSUME NEW a \in Attempt, Send(a) \/ Serve(a) \/ Rollback(a) PROVE Final
    <3>1. CASE Commit(a)
      BY <3>1, RequestsAssumption
         DEF Commit, drainVars, RequestInv, OpenIsExclusive, Open, WriteLogAndEventsAgree, EventsOf
    <3> QED
      BY <2>1, <3>1 DEF Serve, Send, Record, Repeat, Run, Answer, Rollback, drainVars
  <2>2. ASSUME NEW w \in Worker, NEW e \in Event, NEW k \in Consumer, Handle(w, e, k)
        PROVE Final
    BY <2>2 DEF Handle, IsNext, DrainInv, ClaimsAreDisjoint
  <2>3. ASSUME NEW w \in Worker, Claim(w) \/ MarkProcessed(w) \/ Crash(w) PROVE Final
    BY <2>3 DEF Claim, MarkProcessed, Crash
  <2> QED
    BY <2>1, <2>2, <2>3 DEF Next, Drain
<1> QED
  BY <1>1, Inductive, PTL DEF SafeSpec, ProcessedIsFinal

-----------------------------------------------------------------------------
(* The refinement.                                                          *)

Told == {CommandOf[a] : a \in {b \in Attempt : request[b] \in Succeeded}}

Announced == {e \in Event : event[e] # "none"}

Offered == {p \in Event \X Consumer : offers[p] > 0}

Settled == {e \in Event : event[e] = "processed"}

(* Each step of the server is a step of the promise, or none.               *)
LEMMA EveryStepIsPromised ==
  ASSUME IInv, [Next]_vars
  PROVE  [Promise!Next]_(Promise!vars)
<1> USE DEF IInv, Consumer
<1> DEFINE Goal == [Promise!Next]_(Promise!vars)
<1>1. ASSUME UNCHANGED <<writes, event, offers>>, Told' = Told PROVE Goal
  BY <1>1 DEF Promise!vars, Told
<1>2. ASSUME NEW a \in Attempt, UNCHANGED <<writes, event, offers>>,
             request[a] \in {"sent", "committed"}, CommandOf[a] \in commandLog,
             request' = [request EXCEPT ![a] = "applied"]
               \/ request' = [request EXCEPT ![a] = "duplicate"]
      PROVE Goal
  <2>1. request[a] \notin Succeeded /\ request'[a] \in Succeeded
    BY <1>2 DEF Succeeded, TypeOK
  <2>2. \A b \in Attempt \ {a} : request'[b] = request[b]
    BY <1>2 DEF TypeOK
  <2>3. Told' = Told \union {CommandOf[a]}
    BY <2>1, <2>2 DEF Told
  <2>4. writes[CommandOf[a]] = 1 /\ CommandOf[a] \in Command
    BY <1>2, RequestsAssumption DEF RequestInv, WriteLogAndEventsAgree
  <2>5. Promise!Tell(CommandOf[a])
    BY <1>2, <2>3, <2>4 DEF Promise!Tell, Told
  <2> QED
    BY <2>4, <2>5 DEF Promise!Next
<1>3. ASSUME NEW a \in Attempt, NEW s \in RequestState \ Succeeded,
             request[a] \notin Succeeded, To(a, s)
      PROVE Told' = Told
  <2>1. \A b \in Attempt : request'[b] \in Succeeded <=> request[b] \in Succeeded
    BY <1>3 DEF To, TypeOK
  <2> QED
    BY <2>1 DEF Told
<1>4. ASSUME NEW a \in Attempt, Send(a) PROVE Goal
  BY <1>1, <1>3, <1>4 DEF Send, RequestState, Succeeded, Open, drainVars
<1>5. ASSUME NEW a \in Attempt, Record(a) PROVE Goal
  BY <1>1, <1>3, <1>5 DEF Record, RequestState, Succeeded, Open, drainVars
<1>6. ASSUME NEW a \in Attempt, Run(a) PROVE Goal
  BY <1>1, <1>3, <1>6 DEF Run, RequestState, Succeeded, Open, drainVars
<1>7. ASSUME NEW a \in Attempt, Rollback(a) PROVE Goal
  BY <1>1, <1>3, <1>7 DEF Rollback, RequestState, Succeeded, Open, drainVars
<1>8. ASSUME NEW a \in Attempt, Repeat(a) PROVE Goal
  BY <1>2, <1>8 DEF Repeat, To, drainVars
<1>9. ASSUME NEW a \in Attempt, Answer(a) PROVE Goal
  <2>1. CASE To(a, "lost")
    BY <1>1, <1>3, <1>9, <2>1 DEF Answer, RequestState, Succeeded, Open, drainVars
  <2>2. CASE To(a, "applied")
    <3>1. CommandOf[a] \in commandLog
      BY <1>9 DEF Answer, RequestInv, DoneIsLogged
    <3> QED
      BY <1>2, <1>9, <2>2, <3>1 DEF Answer, To, drainVars
  <2> QED
    BY <1>9, <2>1, <2>2 DEF Answer
<1>10. ASSUME NEW a \in Attempt, Commit(a) PROVE Goal
  <2> DEFINE c == CommandOf[a]
  <2>1. c \in Command /\ c \notin commandLog /\ writes[c] = 0
    BY <1>10, RequestsAssumption
       DEF Commit, Open, RequestInv, OpenIsExclusive, WriteLogAndEventsAgree
  <2>2. \A e \in EventsOf(c) : event[e] = "none"
    BY <2>1, RequestsAssumption DEF RequestInv, WriteLogAndEventsAgree
  <2>3. Told' = Told
    BY <1>3, <1>10 DEF Commit, RequestState, Succeeded, Open
  <2>4. Announced' = Announced \union EventsOf(c)
    BY <1>10 DEF Commit, Announced, EventsOf
  <2>5. Settled' = Settled
    BY <1>10, <2>2 DEF Commit, Settled
  <2>6. writes' = [writes EXCEPT ![c] = 1]
    BY <1>10, <2>1 DEF Commit, TypeOK
  <2>7. offers' = offers
    BY <1>10 DEF Commit, drainVars
  <2>8. Promise!Apply(c)
    BY <2>1, <2>3, <2>4, <2>5, <2>6, <2>7
       DEF Promise!Apply, Promise!EventsOf, EventsOf, Told, Announced, Settled
  <2> QED
    BY <2>1, <2>8 DEF Promise!Next
<1>11. ASSUME NEW w \in Worker, Claim(w) \/ Crash(w) PROVE Goal
  BY <1>1, <1>11 DEF Claim, Crash, requestVars, Told
<1>12. ASSUME NEW w \in Worker, NEW e \in Event, NEW k \in Consumer, Handle(w, e, k)
       PROVE Goal
  <2>1. event[e] = "waiting"
    BY <1>12 DEF Handle, IsNext, DrainInv, ClaimsAreDisjoint
  <2>2. offers'[<<e, k>>] > 0
    BY <1>12 DEF Handle, TypeOK
  <2>3. \A p \in Event \X Consumer : p # <<e, k>> => offers'[p] = offers[p]
    BY <1>12 DEF Handle, TypeOK
  <2>4. Offered' = Offered \union {<<e, k>>}
    BY <2>2, <2>3 DEF Offered
  <2>5. Promise!Offer(e, k)
    BY <1>12, <2>1, <2>4 DEF Promise!Offer, Handle, Offered, requestVars
  <2> QED
    BY <2>5 DEF Promise!Next
<1>13. ASSUME NEW w \in Worker, MarkProcessed(w) PROVE Goal
  <2>1. batch[w] \in SUBSET Event /\ \A e \in batch[w] : event[e] = "waiting"
    BY <1>13 DEF DrainInv, ClaimsAreDisjoint, TypeOK
  <2>2. PICK S \in SUBSET Event : S = batch[w]
    BY <2>1
  <2>3. Settled' = Settled \union S
    BY <1>13, <2>1, <2>2 DEF MarkProcessed, Settled
  <2>4. Announced' = Announced
    BY <1>13, <2>1 DEF MarkProcessed, Announced
  <2>5. S \X Consumer \subseteq Offered /\ S \subseteq Announced
    BY <1>13, <2>1, <2>2 DEF MarkProcessed, DrainInv, TriedWasHeld, Offered, Announced
  <2>6. Promise!Settle(S)
    BY <1>13, <2>3, <2>4, <2>5
       DEF Promise!Settle, MarkProcessed, Settled, Announced, Offered, requestVars
  <2> QED
    BY <2>6 DEF Promise!Next
<1>14. CASE UNCHANGED vars
  BY <1>1, <1>14 DEF vars, Told
<1> QED
  BY <1>4, <1>5, <1>6, <1>7, <1>8, <1>9, <1>10, <1>11, <1>12, <1>13, <1>14
     DEF Next, Serve, Drain

(* The server keeps the promise of CommandsOnce, for any number of          *)
(* requests, repeats, workers and crashes.                                  *)
THEOREM Refinement == SafeSpec => KeepsThePromise
<1>1. Init => Promise!Init
  BY DEF Init, Promise!Init, Succeeded
<1>2. IInv /\ [Next]_vars => [Promise!Next]_(Promise!vars)
  BY EveryStepIsPromised
<1> QED
  BY <1>1, <1>2, Inductive, PTL DEF SafeSpec, KeepsThePromise, Promise!Spec
=============================================================================

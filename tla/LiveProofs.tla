----------------------------- MODULE LiveProofs -----------------------------
(***************************************************************************)
(* What is proved of the realtime layer, for any files, places, projects   *)
(* and tabs, any size of a batch and whatever a crash, a lost connection   *)
(* or a restart takes: types hold, and a screen that shows something stale *)
(* has something on its way that will make it ask again.                   *)
(***************************************************************************)
EXTENDS Live, SequenceTheorems, TLAPS

-----------------------------------------------------------------------------
(* The queue and the drain.                                                 *)

(* What a queue still holds behind its first n.                             *)
Behind(q, n) == {q[i] : i \in n + 1 .. Len(q)}

(* How many of the queue a drain has sent the frames of.                    *)
Sent == IF drain.next \in {"make", "announce"} THEN drain.at
        ELSE IF drain.next = "claim" THEN 0 ELSE drain.at - 1

DrainGoesOn ==
  /\ queue \in Seq(Announcement)
  /\ drain \in [held : Nat, at : Nat, next : {"claim", "publish", "make", "announce", "mark"}]
  /\ drain.held <= Len(queue)
  /\ drain.next = "claim" => drain = Idle
  /\ drain.next \in {"publish", "make", "announce"} => drain.at \in 1 .. drain.held
  /\ drain.next = "mark" => drain.at = drain.held + 1

LEMMA OneAdded ==
  ASSUME NEW q \in Seq(Announcement), NEW e \in Announcement, NEW n \in Nat, n <= Len(q)
  PROVE  /\ Append(q, e) \in Seq(Announcement) /\ Len(Append(q, e)) = Len(q) + 1
         /\ Behind(Append(q, e), n) = Behind(q, n) \union {e}
<1> DEFINE a == Append(q, e)
<1>1. /\ a \in Seq(Announcement) /\ Len(a) = Len(q) + 1 /\ Len(q) \in Nat
      /\ \A i \in 1 .. Len(q) : a[i] = q[i]
      /\ a[Len(q) + 1] = e
  BY AppendProperties, LenProperties
<1> HIDE DEF a
<1>2. n + 1 .. Len(a) = (n + 1 .. Len(q)) \union {Len(q) + 1}
  BY <1>1
<1>3. \A i \in n + 1 .. Len(q) : a[i] = q[i]
  BY <1>1
<1>4. Behind(a, n) = Behind(q, n) \union {e}
  BY <1>1, <1>2, <1>3 DEF Behind
<1> QED
  BY <1>1, <1>4 DEF a

LEMMA FirstTaken ==
  ASSUME NEW q \in Seq(Announcement), NEW n \in Nat, n <= Len(q)
  PROVE  LET s == SubSeq(q, n + 1, Len(q)) IN
         s \in Seq(Announcement) /\ Behind(s, 0) = Behind(q, n)
<1> DEFINE s == SubSeq(q, n + 1, Len(q))
<1>1. Len(q) \in Nat /\ \A i \in 1 .. Len(q) : q[i] \in Announcement
  BY LenProperties, ElementOfSeq
<1>2. \A i \in n + 1 .. Len(q) : q[i] \in Announcement
  BY <1>1
<1>3. /\ s \in Seq(Announcement) /\ Len(s) = IF n + 1 <= Len(q) THEN Len(q) - (n + 1) + 1 ELSE 0
      /\ \A i \in 1 .. Len(q) - (n + 1) + 1 : s[i] = q[(n + 1) + i - 1]
  BY <1>1, <1>2, SubSeqProperties
<1> HIDE DEF s
<1>4. Len(s) = Len(q) - n /\ \A i \in 1 .. Len(q) - n : s[i] = q[n + i]
  BY <1>1, <1>3
<1>5. ASSUME NEW e \in Behind(s, 0) PROVE e \in Behind(q, n)
  <2>1. PICK i \in 1 .. Len(q) - n : e = s[i]
    BY <1>4, <1>5 DEF Behind
  <2>2. n + i \in n + 1 .. Len(q) /\ e = q[n + i]
    BY <1>1, <1>4, <2>1
  <2> QED
    BY <2>2 DEF Behind
<1>6. ASSUME NEW e \in Behind(q, n) PROVE e \in Behind(s, 0)
  <2>1. PICK i \in n + 1 .. Len(q) : e = q[i]
    BY <1>6 DEF Behind
  <2>2. i - n \in 1 .. Len(q) - n /\ n + (i - n) = i
    BY <1>1, <2>1
  <2>3. e = s[i - n] /\ i - n \in 0 + 1 .. Len(s)
    BY <1>1, <1>4, <2>1, <2>2
  <2> QED
    BY <2>3 DEF Behind
<1> QED
  BY <1>3, <1>5, <1>6 DEF s

LEMMA NextTaken ==
  ASSUME NEW q \in Seq(Announcement), NEW n \in Nat, n < Len(q)
  PROVE  Behind(q, n) = Behind(q, n + 1) \union {q[n + 1]}
<1>1. Len(q) \in Nat
  BY LenProperties
<1>2. n + 1 .. Len(q) = {n + 1} \union ((n + 1) + 1 .. Len(q))
  BY <1>1
<1> QED
  BY <1>2 DEF Behind

LEMMA WhatIsUnpublished ==
  ASSUME DrainGoesOn
  PROVE  /\ Unpublished = Behind(queue, Sent) /\ Sent \in Nat /\ Sent <= drain.held /\ Sent <= Len(queue)
         /\ Unpublished \subseteq Behind(queue, 0) /\ Unpublished \subseteq Announcement
<1>1. Len(queue) \in Nat /\ \A i \in 1 .. Len(queue) : queue[i] \in Announcement
  BY LenProperties, ElementOfSeq DEF DrainGoesOn
<1>2. Sent \in Nat /\ Sent <= drain.held /\ Sent <= Len(queue)
  BY <1>1 DEF DrainGoesOn, Sent, Idle
<1>3. Unpublished = Behind(queue, Sent)
  BY DEF Unpublished, Behind, Sent
<1>4. Behind(queue, Sent) \subseteq Behind(queue, 0) /\ Behind(queue, Sent) \subseteq Announcement
  BY <1>1, <1>2 DEF Behind
<1> QED
  BY <1>2, <1>3, <1>4

(* What happens to the queue and the drain, and what is left to publish.    *)
LEMMA TellingAddsOne ==
  ASSUME DrainGoesOn, NEW name \in {"files.uploaded", "files.detached"}, NEW f \in File,
         NEW x \in Project \union {NoProject}, Tell(name, f, x)
  PROVE  /\ DrainGoesOn'
         /\ Unpublished' = Unpublished \union {[name |-> name, file |-> f, project |-> x]}
<1> DEFINE e == [name |-> name, file |-> f, project |-> x]
<1>1. e \in Announcement
  BY DEF Announcement
<1>2. queue' = Append(queue, e) /\ drain' = drain
  BY DEF Tell
<1>3. Unpublished = Behind(queue, Sent) /\ Sent \in Nat /\ Sent <= Len(queue)
  BY WhatIsUnpublished
<1> HIDE DEF e
<1>4. queue' \in Seq(Announcement) /\ Len(queue') = Len(queue) + 1 /\ Behind(queue', Sent) = Behind(queue, Sent) \union {e}
  BY <1>1, <1>2, <1>3, OneAdded DEF DrainGoesOn
<1>5. Len(queue) \in Nat
  BY LenProperties DEF DrainGoesOn
<1>6. DrainGoesOn'
  BY <1>2, <1>4, <1>5 DEF DrainGoesOn
<1>7. Unpublished' = Behind(queue', Sent)
  BY <1>2 DEF Unpublished, Behind, Sent
<1> QED
  BY <1>3, <1>4, <1>6, <1>7 DEF e

LEMMA GoingOn ==
  ASSUME DrainGoesOn, drain.next \in {"publish", "make", "announce"}, queue' \in Seq(Announcement),
         Len(queue') >= Len(queue),
         GoOn \/ (drain.next = "publish" /\ GoTo("make")) \/ (drain.next = "make" /\ GoTo("announce"))
  PROVE  /\ DrainGoesOn' /\ Sent' = drain.at
<1>1. Len(queue) \in Nat /\ Len(queue') \in Nat
  BY LenProperties DEF DrainGoesOn
<1>2. CASE GoOn
  <2>1. /\ drain.held \in Nat /\ drain.at \in 1 .. drain.held /\ drain.held <= Len(queue)
        /\ drain = [held |-> drain.held, at |-> drain.at, next |-> drain.next]
    BY DEF DrainGoesOn
  <2>2. /\ drain'.held = drain.held /\ drain'.at = drain.at + 1
        /\ drain'.next = IF drain.at = drain.held THEN "mark" ELSE "publish"
        /\ drain' = [held |-> drain'.held, at |-> drain'.at, next |-> drain'.next]
    BY <1>2, <2>1 DEF GoOn
  <2>3. /\ drain'.held \in Nat /\ drain'.at \in Nat /\ drain'.held <= Len(queue')
        /\ drain'.next \in {"publish", "mark"}
        /\ drain'.next = "publish" => drain'.at \in 1 .. drain'.held
        /\ drain'.next = "mark" => drain'.at = drain'.held + 1
    BY <1>1, <2>1, <2>2
  <2>4. DrainGoesOn'
    BY <2>2, <2>3 DEF DrainGoesOn
  <2> QED
    BY <2>1, <2>2, <2>3, <2>4 DEF Sent
<1>3. CASE (drain.next = "publish" /\ GoTo("make")) \/ (drain.next = "make" /\ GoTo("announce"))
  BY <1>1, <1>3 DEF GoTo, DrainGoesOn, Sent
<1> QED
  BY <1>2, <1>3

LEMMA PublishingOne ==
  ASSUME DrainGoesOn, NEW reached, Publish(reached)
  PROVE  DrainGoesOn' /\ Event \in Announcement /\ Unpublished = Unpublished' \union {Event}
<1>1. drain.next = "publish" /\ queue' = queue /\ (GoOn \/ GoTo("make"))
  BY DEF Publish
<1>2. Len(queue) \in Nat /\ drain.at \in 1 .. Len(queue)
  BY <1>1, LenProperties DEF DrainGoesOn
<1>3. DrainGoesOn' /\ Sent' = drain.at /\ Sent = drain.at - 1
  BY <1>1, <1>2, GoingOn DEF DrainGoesOn, Sent
<1>4. Unpublished' = Behind(queue, drain.at)
  BY <1>1, <1>3 DEF Unpublished, Sent, Behind
<1>5. Unpublished = Behind(queue, drain.at - 1)
  BY <1>3, WhatIsUnpublished
<1>6. Behind(queue, drain.at - 1) = Behind(queue, (drain.at - 1) + 1) \union {queue[(drain.at - 1) + 1]}
  BY <1>2, NextTaken DEF DrainGoesOn
<1>7. (drain.at - 1) + 1 = drain.at /\ Event \in Announcement
  BY <1>2, ElementOfSeq DEF Event, DrainGoesOn
<1> QED
  BY <1>3, <1>4, <1>5, <1>6, <1>7 DEF Event

LEMMA DrainingTheRest ==
  ASSUME DrainGoesOn,
         Claim \/ (\E works \in BOOLEAN : Make(works) \/ Announce(works)) \/ Mark \/ Crash
  PROVE  DrainGoesOn' /\ Unpublished \subseteq Unpublished'
<1>0. /\ Len(queue) \in Nat /\ queue \in Seq(Announcement)
      /\ Unpublished = Behind(queue, Sent) /\ Unpublished \subseteq Behind(queue, 0)
      /\ Sent \in Nat /\ Sent <= Len(queue)
  BY LenProperties, WhatIsUnpublished DEF DrainGoesOn
<1>1. CASE Claim
  <2>1. queue # <<>> /\ queue' = queue /\ drain' = [held |-> drain'.held, at |-> 1, next |-> "publish"]
    BY <1>1 DEF Claim
  <2>2. Len(queue) # 0
    BY <1>0, <2>1, EmptySeq
  <2>5. drain'.held \in 1 .. Len(queue)
    BY <1>0, <1>1, <2>2, LiveAssumption DEF Claim
  <2>3. DrainGoesOn'
    BY <1>0, <2>1, <2>5 DEF DrainGoesOn
  <2>4. Unpublished' = Behind(queue, 0)
    BY <2>1 DEF Unpublished, Behind
  <2> QED
    BY <1>0, <2>3, <2>4
<1>2. ASSUME NEW works \in BOOLEAN, Make(works) PROVE DrainGoesOn' /\ Unpublished \subseteq Unpublished'
  <2>1. queue' = queue /\ drain.next = "make" /\ (GoOn \/ GoTo("announce"))
    BY <1>2 DEF Make
  <2>2. DrainGoesOn' /\ Sent' = drain.at /\ Sent = drain.at
    BY <1>0, <2>1, GoingOn DEF Sent
  <2>3. Unpublished' = Behind(queue, drain.at)
    BY <2>1, <2>2 DEF Unpublished, Sent, Behind
  <2> QED
    BY <1>0, <2>2, <2>3
<1>3. ASSUME NEW works \in BOOLEAN, Announce(works) PROVE DrainGoesOn' /\ Unpublished \subseteq Unpublished'
  <2>1. drain.next = "announce" /\ GoOn /\
          (queue' = queue \/ queue' = Append(queue, [Event EXCEPT !.name = "files.thumbnailed"]))
    BY <1>3 DEF Announce
  <2>2. Event \in Announcement
    BY <1>0, <2>1, ElementOfSeq DEF Event, DrainGoesOn
  <2>3. [Event EXCEPT !.name = "files.thumbnailed"] \in Announcement
    BY <2>2 DEF Announcement
  <2>4. queue' \in Seq(Announcement) /\ Len(queue') >= Len(queue) /\ Behind(queue, Sent) \subseteq Behind(queue', Sent)
    <3> DEFINE e == [Event EXCEPT !.name = "files.thumbnailed"]
    <3>1. e \in Announcement /\ (queue' = queue \/ queue' = Append(queue, e))
      BY <2>1, <2>3
    <3> HIDE DEF e
    <3>2. /\ Append(queue, e) \in Seq(Announcement) /\ Len(Append(queue, e)) = Len(queue) + 1
          /\ Behind(Append(queue, e), Sent) = Behind(queue, Sent) \union {e}
      BY <1>0, <3>1, OneAdded
    <3>3. CASE queue' = queue
      BY <1>0, <3>3
    <3>4. CASE queue' = Append(queue, e)
      BY <1>0, <3>2, <3>4
    <3> QED
      BY <3>1, <3>3, <3>4
  <2>5. DrainGoesOn' /\ Sent' = drain.at /\ Sent = drain.at
    BY <2>1, <2>4, GoingOn DEF Sent
  <2>6. Unpublished' = Behind(queue', drain.at)
    BY <2>5 DEF Unpublished, Sent, Behind
  <2> QED
    BY <1>0, <2>4, <2>5, <2>6
<1>4. CASE Mark
  <2>1. drain.next = "mark" /\ queue' = SubSeq(queue, drain.held + 1, Len(queue)) /\ drain' = Idle
    BY <1>4 DEF Mark
  <2>2. drain.held \in Nat /\ drain.held <= Len(queue) /\ Sent = drain.held
    BY <2>1 DEF DrainGoesOn, Sent
  <2>3. queue' \in Seq(Announcement) /\ Behind(queue', 0) = Behind(queue, drain.held)
    BY <1>0, <2>1, <2>2, FirstTaken
  <2>4. DrainGoesOn'
    BY <2>1, <2>3, LenProperties DEF DrainGoesOn, Idle
  <2>5. Unpublished' = Behind(queue', 0)
    BY <2>1 DEF Unpublished, Behind, Idle
  <2> QED
    BY <1>0, <2>2, <2>3, <2>4, <2>5
<1>5. CASE Crash
  <2>1. queue' = queue /\ drain' = Idle
    BY <1>5 DEF Crash
  <2>2. DrainGoesOn'
    BY <1>0, <2>1 DEF DrainGoesOn, Idle
  <2>3. Unpublished' = Behind(queue, 0)
    BY <2>1 DEF Unpublished, Behind, Idle
  <2> QED
    BY <1>0, <2>2, <2>3
<1> QED
  BY <1>1, <1>2, <1>3, <1>4, <1>5

-----------------------------------------------------------------------------
(* The files, the wires and the tabs.                                       *)

WiresAndTabs ==
  /\ state \in [File -> {"none", "pending", "stored"}]
  /\ kept \subseteq File /\ small \subseteq File /\ failed \subseteq File
  /\ noted \in BOOLEAN /\ subscribed \in BOOLEAN
  /\ onWire \subseteq Project /\ watchers \subseteq Tab /\ word \subseteq watchers
  /\ asked \subseteq Tab /\ missed \subseteq Tab
  /\ answer \in [Tab -> SUBSET SUBSET (Place \X File)]
  /\ shown \in [Tab -> SUBSET SUBSET (Place \X File)]

(* A file hangs in one place, and has a row.                                *)
FilesHang ==
  /\ attached \subseteq Place \X File
  /\ \A pf \in attached : state[pf[2]] # "none"
  /\ \A pf, qf \in attached : pf[2] = qf[2] => pf = qf

(* Word of what changed on a tab's project is to come, or has passed it by. *)
Coming(t) ==
  \/ t \in word \/ (t \in watchers /\ On[t] \in onWire)
  \/ \E e \in Unpublished : e.project = On[t]
  \/ t \in missed

IsInStep(t) ==
  /\ \/ shown[t] \in {{}, {View(On[t])}} \/ t \in asked
     \/ answer[t] = {View(On[t])} \/ Coming(t)
  /\ answer[t] \in {{}, {View(On[t])}} \/ Coming(t)
  /\ t \in asked => answer[t] = {}

LiveInv == WiresAndTabs /\ FilesHang /\ DrainGoesOn /\ \A t \in Tab : IsInStep(t)

(* What leaves the tabs alone keeps them in step, if it tells of what it    *)
(* changes.                                                                 *)
LEMMA TabsStay ==
  ASSUME NEW t \in Tab, IsInStep(t), UNCHANGED <<asked, answer, shown>>,
         Coming(t) => Coming(t)', View(On[t])' = View(On[t]) \/ Coming(t)'
  PROVE  IsInStep(t)'
  BY DEF IsInStep

(* What changes no file changes no view.                                    *)
LEMMA ViewsStay ==
  ASSUME state' = state, attached' = attached, NEW x
  PROVE  View(x)' = View(x)
  BY DEF View

LEMMA ViewsAreTyped ==
  ASSUME FilesHang, NEW x
  PROVE  {View(x)} \in SUBSET SUBSET (Place \X File)
  BY DEF View, FilesHang

LEMMA UploadingKeepsStep ==
  ASSUME LiveInv, Upload
  PROVE  LiveInv'
<1> USE DEF LiveInv
<1>0. /\ FilesHang /\ DrainGoesOn
      /\ \A pf \in attached : pf = <<pf[1], pf[2]>> /\ pf[1] \in Place /\ pf[2] \in File
  BY DEF FilesHang
<1>1. ASSUME NEW f \in File, NEW p \in Place, RequestUpload(f, p) PROVE LiveInv'
  <2>1. /\ state[f] = "none" /\ state' = [state EXCEPT ![f] = "pending"]
        /\ attached' = {pf \in attached : pf[1] # p \/ Kind[p] \in {"card", "asset"}} \union {<<p, f>>}
        /\ UNCHANGED <<kept, outbox, hub, tabs>>
    BY <1>1 DEF RequestUpload
  <2>2. \A pf \in attached : pf[2] # f
    BY <1>0, <2>1 DEF FilesHang
  <2>3. FilesHang'
    BY <1>0, <2>1, <2>2 DEF FilesHang, WiresAndTabs
  <2>4. DrainGoesOn' /\ Unpublished' = Unpublished
    BY <2>1 DEF DrainGoesOn, outbox, Unpublished
  <2>5. ASSUME NEW x PROVE View(x)' = View(x)
    <3>1. \A g \in File : state'[g] = "stored" <=> state[g] = "stored"
      BY <2>1 DEF WiresAndTabs
    <3>2. state'[f] # "stored"
      BY <2>1 DEF WiresAndTabs
    <3>3. \A pf : pf \in View(x)' <=> pf \in View(x)
      BY <1>0, <2>1, <2>2, <3>1, <3>2 DEF View
    <3> QED
      BY <3>3 DEF View
  <2>6. \A t \in Tab : IsInStep(t)'
    BY <2>1, <2>4, <2>5, TabsStay DEF Coming, hub, tabs
  <2> QED
    BY <2>1, <2>3, <2>4, <2>6 DEF WiresAndTabs, outbox, hub, tabs
<1>2. ASSUME NEW f \in File, SendBytes(f) PROVE LiveInv'
  <2>1. UNCHANGED <<state, attached, outbox, hub, tabs>> /\ kept' = kept \union {f}
    BY <1>2 DEF SendBytes
  <2>2. DrainGoesOn' /\ Unpublished' = Unpublished
    BY <2>1 DEF DrainGoesOn, outbox, Unpublished
  <2>3. \A t \in Tab : IsInStep(t)'
    BY <2>1, <2>2, TabsStay, ViewsStay DEF Coming, hub, tabs
  <2> QED
    BY <2>1, <2>2, <2>3 DEF WiresAndTabs, FilesHang, outbox, hub, tabs
<1>3. ASSUME NEW f \in File, ConfirmUpload(f) PROVE LiveInv'
  <2> DEFINE x == OwningProject(f)
             e == [name |-> "files.uploaded", file |-> f, project |-> x]
  <2>1. /\ state' = [state EXCEPT ![f] = "stored"]
        /\ Tell("files.uploaded", f, x) /\ UNCHANGED <<attached, kept, hub, tabs>>
    BY <1>3 DEF ConfirmUpload
  <2>2. x \in Project \union {NoProject}
    BY LiveAssumption DEF OwningProject
  <2>3. \A p \in Place : <<p, f>> \in attached => x = At[p]
    <3>1. \A p, q \in Place : <<p, f>> \in attached /\ <<q, f>> \in attached => p = q
      BY <1>0 DEF FilesHang
    <3> QED
      BY <3>1 DEF OwningProject
  <2> HIDE DEF x
  <2>4. DrainGoesOn' /\ Unpublished' = Unpublished \union {e}
    BY <2>1, <2>2, TellingAddsOne
  <2>5. FilesHang' /\ WiresAndTabs'
    BY <1>0, <2>1 DEF FilesHang, WiresAndTabs, hub, tabs, Tell
  <2>6. ASSUME NEW y, y # x PROVE View(y)' = View(y)
    <3>1. \A g \in File \ {f} : state'[g] = state[g]
      BY <2>1 DEF WiresAndTabs
    <3>2. \A pf \in attached : At[pf[1]] = y => pf[2] # f
      BY <1>0, <2>3, <2>6
    <3> QED
      BY <1>0, <2>1, <3>1, <3>2 DEF View
  <2>7. ASSUME NEW t \in Tab PROVE IsInStep(t)'
    <3>1. Coming(t) => Coming(t)'
      BY <2>1, <2>4 DEF Coming, hub, tabs
    <3>2. On[t] = x => Coming(t)'
      <4>1. e \in Unpublished' /\ e.project = x
        BY <2>4
      <4> HIDE DEF e
      <4> QED
        BY <4>1 DEF Coming
    <3> QED
      BY <2>1, <2>6, <3>1, <3>2, TabsStay DEF tabs
  <2> QED
    BY <2>4, <2>5, <2>7
<1>4. ASSUME NEW f \in File, NEW p \in Place, DetachFile(p, f) PROVE LiveInv'
  <2> DEFINE e == [name |-> "files.detached", file |-> f, project |-> At[p]]
  <2>1. /\ attached' = attached \ {<<p, f>>} /\ UNCHANGED <<state, kept, hub, tabs>>
        /\ Tell("files.detached", f, At[p])
    BY <1>4 DEF DetachFile
  <2>2. At[p] \in Project \union {NoProject}
    BY LiveAssumption
  <2>3. DrainGoesOn' /\ Unpublished' = Unpublished \union {e}
    BY <2>1, <2>2, TellingAddsOne
  <2>4. FilesHang' /\ WiresAndTabs'
    BY <1>0, <2>1 DEF FilesHang, WiresAndTabs, hub, tabs, Tell
  <2>5. ASSUME NEW y, y # At[p] PROVE View(y)' = View(y)
    BY <1>0, <2>1, <2>5 DEF View
  <2>6. ASSUME NEW t \in Tab PROVE IsInStep(t)'
    <3>1. Coming(t) => Coming(t)'
      BY <2>1, <2>3 DEF Coming, hub, tabs
    <3>2. On[t] = At[p] => Coming(t)'
      <4>1. e \in Unpublished' /\ e.project = At[p]
        BY <2>3
      <4> HIDE DEF e
      <4> QED
        BY <4>1 DEF Coming
    <3> QED
      BY <2>1, <2>5, <3>1, <3>2, TabsStay DEF tabs
  <2> QED
    BY <2>3, <2>4, <2>6
<1> QED
  BY <1>1, <1>2, <1>3, <1>4 DEF Upload

LEMMA DrainingKeepsStep ==
  ASSUME LiveInv, Drain \/ Crash
  PROVE  LiveInv'
<1> USE DEF LiveInv
<1>1. ASSUME NEW reached \in BOOLEAN, Publish(reached) PROVE LiveInv'
  <2> DEFINE x == Event.project
             told == IF reached /\ subscribed THEN Watching(x) ELSE {}
  <2>1. /\ onWire' = IF reached /\ subscribed THEN onWire \union ({x} \ {NoProject}) ELSE onWire
        /\ missed' = missed \union {t \in Tab : On[t] = x /\ t \notin told}
        /\ UNCHANGED <<files, small, failed, queue, crashes, noted, subscribed, watchers, word,
                       asked, answer, shown>>
    BY <1>1 DEF Publish
  <2>2. DrainGoesOn' /\ Event \in Announcement /\ Unpublished = Unpublished' \union {Event}
    BY <1>1, PublishingOne
  <2>3. x \in Project \union {NoProject}
    BY <2>2 DEF Announcement
  <2> HIDE DEF x
  <2>4. WiresAndTabs' /\ FilesHang'
    BY <2>1, <2>3 DEF WiresAndTabs, FilesHang, files
  <2>5. ASSUME NEW t \in Tab PROVE IsInStep(t)'
    <3>1. On[t] \in Project /\ On[t] # NoProject
      BY LiveAssumption
    <3>2. ASSUME On[t] = x PROVE Coming(t)'
      BY <2>1, <3>1, <3>2 DEF Coming, Watching
    <3>3. Coming(t) => Coming(t)'
      BY <2>1, <2>2, <3>2 DEF Coming, x
    <3> QED
      BY <2>1, <3>3, TabsStay, ViewsStay DEF files
  <2> QED
    BY <2>2, <2>4, <2>5
<1>2. ASSUME Claim \/ (\E works \in BOOLEAN : Make(works) \/ Announce(works)) \/ Mark \/ Crash
      PROVE  LiveInv'
  <2>1. DrainGoesOn' /\ Unpublished \subseteq Unpublished'
    BY <1>2, DrainingTheRest
  <2>2. UNCHANGED <<files, hub, tabs>>
    BY <1>2 DEF Claim, Make, Announce, Mark, Crash
  <2>3. small' \subseteq small \union File /\ failed' \subseteq failed \union File
    <3>1. drain.next \in {"make", "announce"} => Event.file \in File
      <4>1. Len(queue) \in Nat /\ \A i \in 1 .. Len(queue) : queue[i] \in Announcement
        BY LenProperties, ElementOfSeq DEF DrainGoesOn
      <4>2. drain.next \in {"make", "announce"} => drain.at \in 1 .. Len(queue)
        BY <4>1 DEF DrainGoesOn
      <4> QED
        BY <4>1, <4>2 DEF Event, Announcement
    <3> QED
      BY <1>2, <3>1 DEF Claim, Make, Announce, Mark, Crash
  <2>4. WiresAndTabs' /\ FilesHang'
    BY <2>2, <2>3 DEF WiresAndTabs, FilesHang, files, hub, tabs
  <2>5. \A t \in Tab : IsInStep(t)'
    BY <2>1, <2>2, TabsStay, ViewsStay DEF Coming, files, hub, tabs
  <2> QED
    BY <2>1, <2>4, <2>5
<1> QED
  BY <1>1, <1>2 DEF Drain

LEMMA RealtimeKeepsStep ==
  ASSUME LiveInv, Realtime
  PROVE  LiveInv'
<1> USE DEF LiveInv
<1>1. UNCHANGED <<files, outbox, asked, answer, shown>>
  BY DEF Realtime, Watch, Drop, FanOut, RedisAnswers, LoseRedis, RestartApi, tabs
<1>2. DrainGoesOn' /\ Unpublished' = Unpublished /\ FilesHang'
  BY <1>1 DEF DrainGoesOn, outbox, Unpublished, files, FilesHang
<1> DEFINE StillComing == WiresAndTabs' /\ \A t \in Tab : Coming(t) => Coming(t)'
<1> USE <1>1, <1>2 DEF WiresAndTabs, Coming, files, outbox, tabs
<1>3. ASSUME NEW t \in Tab, Watch(t) PROVE StillComing
  BY <1>3 DEF Watch
<1>4. ASSUME NEW t \in Tab, Drop(t) PROVE StillComing
  BY <1>4 DEF Drop, GoneWith
<1>5. ASSUME NEW x \in Project, FanOut(x) PROVE StillComing
  BY <1>5 DEF FanOut, Watching
<1>6. ASSUME RedisAnswers PROVE StillComing
  BY <1>6 DEF RedisAnswers
<1>7. ASSUME LoseRedis PROVE StillComing
  BY <1>7 DEF LoseRedis
<1>8. ASSUME RestartApi PROVE StillComing
  BY <1>8 DEF RestartApi, GoneWith
<1>9. StillComing
  BY <1>3, <1>4, <1>5, <1>6, <1>7, <1>8 DEF Realtime
<1>10. \A t \in Tab : IsInStep(t)'
  <2> USE <1>9
  <2> HIDE DEF WiresAndTabs, Coming
  <2> QED
    BY TabsStay, ViewsStay
<1> QED
  BY <1>9, <1>10

LEMMA ScreensKeepStep ==
  ASSUME LiveInv, Screen
  PROVE  LiveInv'
<1> USE DEF LiveInv
<1>1. UNCHANGED <<files, outbox, noted, subscribed, onWire, watchers>>
  BY DEF Screen, Hear, Refetch, ReadFor, Arrive, FetchFails, hub
<1>2. DrainGoesOn' /\ Unpublished' = Unpublished /\ FilesHang' /\ \A x : View(x)' = View(x)
  BY <1>1 DEF DrainGoesOn, outbox, Unpublished, files, FilesHang, View
<1>3. \A x : {View(x)} \in SUBSET SUBSET (Place \X File) /\ {} \in SUBSET SUBSET (Place \X File)
  BY ViewsAreTyped
<1>4. PICK t \in Tab : Hear(t) \/ Refetch(t) \/ ReadFor(t) \/ Arrive(t) \/ FetchFails(t)
  BY DEF Screen
<1>5. /\ \A u \in Tab \ {t} :
           /\ answer'[u] = answer[u] /\ shown'[u] = shown[u]
           /\ (u \in asked' <=> u \in asked)
           /\ (u \in missed' <=> u \in missed)
           /\ (u \in word' <=> u \in word)
      /\ WiresAndTabs'
  <2> USE <1>1, <1>3 DEF WiresAndTabs, files, outbox
  <2>1. CASE Hear(t)
    BY <2>1 DEF Hear, Ask
  <2>2. CASE Refetch(t)
    BY <2>2 DEF Refetch, Ask, hub
  <2>3. CASE ReadFor(t)
    BY <2>3 DEF ReadFor, hub
  <2>4. CASE Arrive(t)
    BY <2>4 DEF Arrive, hub
  <2>5. CASE FetchFails(t)
    BY <2>5 DEF FetchFails, hub
  <2> QED
    BY <1>4, <2>1, <2>2, <2>3, <2>4, <2>5
<1>6. ASSUME NEW u \in Tab, u # t PROVE IsInStep(u)'
  BY <1>1, <1>2, <1>5, <1>6 DEF IsInStep, Coming
<1>7. IsInStep(t)'
  <2> USE <1>2 DEF WiresAndTabs, IsInStep
  <2>1. CASE Hear(t)
    <3>1. CASE shown[t] = {} /\ (t \in asked \/ answer[t] # {})
      BY <1>1, <2>1, <3>1 DEF Hear, Coming
    <3>2. CASE ~(shown[t] = {} /\ (t \in asked \/ answer[t] # {}))
      BY <2>1, <3>2 DEF Hear, Ask
    <3> QED
      BY <3>1, <3>2
  <2>2. CASE Refetch(t)
    BY <2>2 DEF Refetch, Ask
  <2>3. CASE ReadFor(t)
    BY <2>3 DEF ReadFor
  <2>4. CASE Arrive(t)
    BY <1>1, <2>4 DEF Arrive, Coming, hub
  <2>5. CASE FetchFails(t)
    BY <2>5 DEF FetchFails, Coming
  <2> QED
    BY <1>4, <2>1, <2>2, <2>3, <2>4, <2>5
<1> QED
  BY <1>2, <1>5, <1>6, <1>7

LEMMA LiveInvInit == Init => LiveInv
<1> SUFFICES ASSUME Init PROVE LiveInv
  OBVIOUS
<1>1. DrainGoesOn
  BY EmptySeq DEF Init, DrainGoesOn, Idle
<1>2. WiresAndTabs /\ FilesHang
  BY DEF Init, WiresAndTabs, FilesHang
<1>3. \A t \in Tab : IsInStep(t)
  BY DEF Init, IsInStep
<1> QED
  BY <1>1, <1>2, <1>3 DEF LiveInv

LEMMA LiveInvStep ==
  ASSUME LiveInv, [Next]_vars
  PROVE  LiveInv'
<1>1. CASE UNCHANGED vars
  <2>1. DrainGoesOn' /\ Unpublished' = Unpublished /\ FilesHang' /\ WiresAndTabs'
    BY <1>1 DEF vars, LiveInv, DrainGoesOn, Unpublished, FilesHang, WiresAndTabs
  <2>2. \A t \in Tab : IsInStep(t)'
    BY <1>1, <2>1, TabsStay, ViewsStay DEF vars, LiveInv, Coming
  <2> QED
    BY <2>1, <2>2 DEF LiveInv
<1> QED
  BY <1>1, UploadingKeepsStep, DrainingKeepsStep, RealtimeKeepsStep, ScreensKeepStep DEF Next

THEOREM LiveInvariant == Spec => []LiveInv
  BY LiveInvInit, LiveInvStep, PTL DEF Spec

(* Everything from the upload to the screen is typed (Live.TypeOK).         *)
THEOREM LiveIsTyped == Spec => []TypeOK
<1>1. LiveInv => TypeOK
  <2> SUFFICES ASSUME LiveInv PROVE TypeOK
    OBVIOUS
  <2>1. Len(queue) \in Nat
    BY LenProperties DEF LiveInv, DrainGoesOn
  <2> QED
    BY <2>1 DEF LiveInv, WiresAndTabs, FilesHang, DrainGoesOn, TypeOK
<1> QED
  BY <1>1, LiveInvariant, PTL

(* Whatever is lost on the way, a tab shows what there is to see, or word   *)
(* of it is on its way, or a frame has passed it by                         *)
(* (Live.ScreensAreInStep).                                                 *)
THEOREM ScreensStayInStep == Spec => []ScreensAreInStep
<1>1. LiveInv => ScreensAreInStep
  BY DEF LiveInv, IsInStep, Coming, ScreensAreInStep, OnItsWay
<1> QED
  BY <1>1, LiveInvariant, PTL
=============================================================================

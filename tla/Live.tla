-------------------------------- MODULE Live --------------------------------
(***************************************************************************)
(* From an upload to everybody's screen: a file is asked for, sent and     *)
(* confirmed; the outbox says so to the publisher and to the maker of      *)
(* thumbnails, which says so in its turn; a frame goes over Redis to the   *)
(* hub of the API and from there to every tab on the project; and a tab    *)
(* that hears one fetches again.  Frames may be lost wherever they can be: *)
(* no subscription yet, a socket down, an API restarted, Redis away.       *)
(* One account, as an install has, and one worker.                         *)
(***************************************************************************)
EXTENDS Naturals, Sequences

CONSTANTS File, Place, Project, Tab,
          NoProject,     \* of an event that happened in none
          At,            \* the project a place is in
          Kind,          \* what a place is: "card", "asset", "project" or "person"
          On,            \* the project a tab shows
          Picture,       \* files that decode as one and are not too large
          BatchSize,     \* DEFAULT_BATCH_SIZE, a hundred
          MostWaiting,   \* bound: events waiting when a command adds one
          MostCrashes    \* bound: drains lost

ASSUME LiveAssumption ==
  /\ Kind \in [Place -> {"card", "asset", "project", "person"}]
  /\ At \in [Place -> Project \union {NoProject}]
  /\ \A p \in Place : At[p] = NoProject <=> Kind[p] = "person"
  /\ NoProject \notin Project
  /\ On \in [Tab -> Project]
  /\ Picture \subseteq File
  /\ BatchSize \in Nat \ {0}
  /\ MostWaiting \in Nat /\ MostCrashes \in Nat

VARIABLES state,       \* file.state, or "none" before there is a row
          attached,    \* what hangs where: pairs of a place and a file
          kept,        \* files whose bytes are in the store
          small,       \* files with a thumbnail_key
          failed,      \* pictures whose thumbnail was given up or not announced
          queue,       \* domain_event rows not processed, oldest first
          drain,       \* the drain: how many it holds, which it is at, what is next
          crashes,
          noted,       \* subscribedAccounts has the account
          subscribed,  \* and Redis has answered
          onWire,      \* projects there is a frame about between Redis and the hub
          watchers,    \* tabs the hub sends to, each down a socket of its own
          word,        \* tabs with a frame on its way from the hub
          asked,       \* tabs whose fetch has not been read yet
          answer,      \* what was read for one: none, or one view
          shown,       \* what a tab shows: none before its first fetch, or one view
          missed       \* tabs a frame passed by since what they show was read

files == <<state, attached, kept>>
outbox == <<small, failed, queue, drain, crashes>>
hub == <<noted, subscribed, onWire, watchers, word>>
tabs == <<asked, answer, shown, missed>>
vars == <<state, attached, kept, small, failed, queue, drain, crashes,
          noted, subscribed, onWire, watchers, word, asked, answer, shown, missed>>

Idle == [held |-> 0, at |-> 0, next |-> "claim"]

(* Tabs that have just been opened, on an install with nothing uploaded.    *)
Init ==
  /\ state = [f \in File |-> "none"] /\ attached = {} /\ kept = {}
  /\ small = {} /\ failed = {} /\ queue = <<>> /\ drain = Idle /\ crashes = 0
  /\ noted = FALSE /\ subscribed = FALSE /\ onWire = {}
  /\ watchers = {} /\ word = {}
  /\ asked = Tab /\ answer = [t \in Tab |-> {}] /\ shown = [t \in Tab |-> {}] /\ missed = {}

(* What the queries behind the board and the assets answer: a file that has *)
(* arrived, where it hangs.  An asset's own page names a file from when it  *)
(* is asked for, which nobody is told of; here it counts from its arrival.  *)
View(x) ==
  {pf \in attached : At[pf[1]] = x /\ Kind[pf[1]] \in {"card", "asset"} /\ state[pf[2]] = "stored"}

Watching(x) == {t \in watchers : On[t] = x}

-----------------------------------------------------------------------------
(* Uploads.                                                                 *)

(* The row and where it hangs, pending.  A card and an asset gather files;  *)
(* a project's picture and a person's is replaced, from now on.             *)
RequestUpload(f, p) ==
  /\ state[f] = "none"
  /\ state' = [state EXCEPT ![f] = "pending"]
  /\ attached' = {pf \in attached : pf[1] # p \/ Kind[p] \in {"card", "asset"}} \union {<<p, f>>}
  /\ UNCHANGED <<kept, outbox, hub, tabs>>

SendBytes(f) ==
  /\ state[f] = "pending"
  /\ kept' = kept \union {f}
  /\ UNCHANGED <<state, attached, outbox, hub, tabs>>

Tell(name, f, x) ==
  /\ Len(queue) < MostWaiting
  /\ queue' = Append(queue, [name |-> name, file |-> f, project |-> x])
  /\ UNCHANGED <<small, failed, drain, crashes>>

(* Mutant: an upload is announced where it hangs on a card.                 *)
OwningProjectOfACard(f) ==
  LET on == {p \in Place : <<p, f>> \in attached /\ Kind[p] = "card"}
  IN IF on = {} THEN NoProject ELSE At[CHOOSE p \in on : TRUE]

(* findOwningProject: it may have been taken off, or be somebody's picture. *)
OwningProject(f) ==
  LET on == {p \in Place : <<p, f>> \in attached}
  IN IF on = {} THEN NoProject ELSE At[CHOOSE p \in on : TRUE]

(* Refused unless the bytes are there, and done again if it is asked again. *)
ConfirmUpload(f) ==
  /\ f \in kept
  /\ state' = [state EXCEPT ![f] = "stored"]
  /\ Tell("files.uploaded", f, OwningProject(f))
  /\ UNCHANGED <<attached, kept, hub, tabs>>

DetachFile(p, f) ==
  /\ <<p, f>> \in attached /\ Kind[p] = "card"
  /\ attached' = attached \ {<<p, f>>}
  /\ Tell("files.detached", f, At[p])
  /\ UNCHANGED <<state, kept, hub, tabs>>

-----------------------------------------------------------------------------
(* The worker's drain.                                                      *)

Event == queue[drain.at]

GoTo(step) == drain' = [drain EXCEPT !.next = step]

GoOn == drain' = [drain EXCEPT !.at = @ + 1, !.next = IF drain.at = drain.held THEN "mark" ELSE "publish"]

Claim ==
  /\ drain.next = "claim" /\ queue # <<>>
  /\ drain' = [held |-> IF Len(queue) < BatchSize THEN Len(queue) ELSE BatchSize,
               at |-> 1, next |-> "publish"]
  /\ UNCHANGED <<files, small, failed, queue, crashes, hub, tabs>>

(* The frame names the project.  Redis hands it to who has subscribed, or   *)
(* cannot be reached and it is nobody's.                                    *)
Publish(reached) ==
  LET x == Event.project
      told == IF reached /\ subscribed THEN Watching(x) ELSE {}
  IN /\ drain.next = "publish"
     /\ onWire' = IF reached /\ subscribed THEN onWire \union ({x} \ {NoProject}) ELSE onWire
     /\ missed' = missed \union {t \in Tab : On[t] = x /\ t \notin told}
     /\ IF Event.name = "files.uploaded" THEN GoTo("make") ELSE GoOn
     /\ UNCHANGED <<files, small, failed, queue, crashes, noted, subscribed, watchers, word,
                    asked, answer, shown>>

(* Reads the row, the bytes, and writes the thumbnail and its key.          *)
Make(works) ==
  LET f == Event.file
      worth == state[f] = "stored" /\ f \in Picture
  IN /\ drain.next = "make"
     /\ small' = IF worth /\ works THEN small \union {f} ELSE small
     /\ failed' = IF worth /\ ~works THEN failed \union {f} ELSE failed
     /\ IF worth /\ works /\ Event.project # NoProject THEN GoTo("announce") ELSE GoOn
     /\ UNCHANGED <<files, queue, crashes, hub, tabs>>

(* An insert of its own: what makes it is not in the drain's transaction.   *)
Announce(works) ==
  /\ drain.next = "announce"
  /\ queue' = IF works THEN Append(queue, [Event EXCEPT !.name = "files.thumbnailed"]) ELSE queue
  /\ failed' = IF works THEN failed ELSE failed \union {Event.file}
  /\ GoOn
  /\ UNCHANGED <<files, small, crashes, hub, tabs>>

Mark ==
  /\ drain.next = "mark"
  /\ queue' = SubSeq(queue, drain.held + 1, Len(queue))
  /\ drain' = Idle
  /\ UNCHANGED <<files, small, failed, crashes, hub, tabs>>

(* Mutant: the batch was marked when it was claimed.                        *)
CrashHavingMarked ==
  /\ drain # Idle /\ crashes < MostCrashes
  /\ crashes' = crashes + 1
  /\ drain' = Idle
  /\ queue' = SubSeq(queue, drain.held + 1, Len(queue))
  /\ UNCHANGED <<files, small, failed, hub, tabs>>

(* Nothing it claimed is marked.                                            *)
Crash ==
  /\ drain # Idle /\ crashes < MostCrashes
  /\ crashes' = crashes + 1
  /\ drain' = Idle
  /\ UNCHANGED <<files, small, failed, queue, hub, tabs>>

-----------------------------------------------------------------------------
(* The hub and its sockets.                                                 *)

(* A socket is opened and the watch it sends is let in.  The first one noted *)
(* asks Redis; those behind it wait for nothing.  A watch refused, for want  *)
(* of a session or of a project, is not answered.                            *)
Watch(t) ==
  /\ t \notin watchers
  /\ watchers' = watchers \union {t}
  /\ noted' = TRUE
  /\ UNCHANGED <<files, outbox, subscribed, onWire, word, tabs>>

RedisAnswers ==
  /\ noted /\ ~subscribed
  /\ subscribed' = TRUE
  /\ UNCHANGED <<files, outbox, noted, onWire, watchers, word, tabs>>

FanOut(x) ==
  /\ x \in onWire
  /\ onWire' = onWire \ {x}
  /\ word' = word \union Watching(x)
  /\ UNCHANGED <<files, outbox, noted, subscribed, watchers, tabs>>

(* Whose frames go with these sockets.                                      *)
GoneWith(T) == missed' = missed \union {t \in T : t \in word \/ (t \in watchers /\ On[t] \in onWire)}

(* The hub forgets the socket; the tab opens another in two seconds.        *)
Drop(t) ==
  /\ t \in watchers
  /\ watchers' = watchers \ {t} /\ word' = word \ {t}
  /\ GoneWith({t})
  /\ UNCHANGED <<files, outbox, noted, subscribed, onWire, asked, answer, shown>>

RestartApi ==
  /\ watchers' = {} /\ word' = {} /\ onWire' = {}
  /\ noted' = FALSE /\ subscribed' = FALSE
  /\ GoneWith(Tab)
  /\ UNCHANGED <<files, outbox, asked, answer, shown>>

(* The connection is lost with what was on it, and subscribes again itself. *)
LoseRedis ==
  /\ subscribed
  /\ subscribed' = FALSE
  /\ onWire' = {}
  /\ missed' = missed \union {t \in watchers : On[t] \in onWire}
  /\ UNCHANGED <<files, outbox, noted, watchers, word, asked, answer, shown>>

-----------------------------------------------------------------------------
(* A tab.                                                                   *)

Ask(t) == asked' = asked \union {t} /\ answer' = [answer EXCEPT ![t] = {}]

(* A fetch under way is given up for a new one, except the first, which an  *)
(* invalidation does not disturb.                                           *)
Hear(t) ==
  LET first == shown[t] = {} /\ (t \in asked \/ answer[t] # {})
  IN /\ t \in word
     /\ word' = word \ {t}
     /\ IF first
        THEN /\ missed' = IF answer[t] # {} THEN missed \union {t} ELSE missed
             /\ UNCHANGED <<asked, answer>>
        ELSE Ask(t) /\ UNCHANGED missed
     /\ UNCHANGED <<files, outbox, noted, subscribed, onWire, watchers, shown>>

(* The page is opened again, or did something itself.                       *)
Refetch(t) ==
  /\ Ask(t)
  /\ UNCHANGED <<files, outbox, hub, shown, missed>>

ReadFor(t) ==
  /\ t \in asked
  /\ asked' = asked \ {t}
  /\ answer' = [answer EXCEPT ![t] = {View(On[t])}]
  /\ missed' = missed \ {t}
  /\ UNCHANGED <<files, outbox, hub, shown>>

Arrive(t) ==
  /\ answer[t] # {}
  /\ shown' = [shown EXCEPT ![t] = answer[t]]
  /\ answer' = [answer EXCEPT ![t] = {}]
  /\ UNCHANGED <<files, outbox, hub, asked, missed>>

(* Not tried again: the client retries no query.                            *)
FetchFails(t) ==
  /\ t \in asked \/ answer[t] # {}
  /\ asked' = asked \ {t}
  /\ answer' = [answer EXCEPT ![t] = {}]
  /\ missed' = missed \union {t}
  /\ UNCHANGED <<files, outbox, hub, shown>>

-----------------------------------------------------------------------------
Upload ==
  \E f \in File :
    \/ \E p \in Place : RequestUpload(f, p) \/ DetachFile(p, f)
    \/ SendBytes(f)
    \/ ConfirmUpload(f)

Drain ==
  \/ Claim
  \/ \E works \in BOOLEAN : Publish(works) \/ Make(works) \/ Announce(works)
  \/ Mark

Realtime ==
  \/ \E t \in Tab : Watch(t) \/ Drop(t)
  \/ \E x \in Project : FanOut(x)
  \/ RedisAnswers \/ LoseRedis \/ RestartApi

Screen == \E t \in Tab : Hear(t) \/ Refetch(t) \/ ReadFor(t) \/ Arrive(t) \/ FetchFails(t)

Next == Upload \/ Drain \/ Crash \/ Realtime \/ Screen

(* The loop of the worker goes on (run-outbox-loop.ts); nothing is asked of *)
(* people, sockets or Redis.                                                *)
Spec == Init /\ [][Next]_vars /\ WF_vars(Drain)

-----------------------------------------------------------------------------
(* Properties.                                                              *)

Announcement == [name : {"files.uploaded", "files.thumbnailed", "files.detached"},
           file : File, project : Project \union {NoProject}]

TypeOK ==
  /\ state \in [File -> {"none", "pending", "stored"}]
  /\ attached \subseteq Place \X File
  /\ kept \subseteq File /\ small \subseteq File /\ failed \subseteq File
  /\ queue \in Seq(Announcement)
  /\ drain.held \in 0 .. Len(queue)
  /\ drain.next \in {"publish", "make", "announce"} => drain.at \in 1 .. drain.held
  /\ noted \in BOOLEAN /\ subscribed \in BOOLEAN
  /\ onWire \subseteq Project
  /\ watchers \subseteq Tab /\ word \subseteq watchers
  /\ asked \subseteq Tab /\ missed \subseteq Tab
  /\ answer \in [Tab -> SUBSET SUBSET (Place \X File)]
  /\ shown \in [Tab -> SUBSET SUBSET (Place \X File)]

(* Events whose frame has not gone out since they were last claimed.        *)
Unpublished ==
  LET out == IF drain.next \in {"make", "announce"} THEN drain.at
             ELSE IF drain.next = "claim" THEN 0 ELSE drain.at - 1
  IN {queue[i] : i \in out + 1 .. Len(queue)}

OnItsWay(t) ==
  \/ t \in asked \/ answer[t] = {View(On[t])}
  \/ t \in word \/ On[t] \in onWire
  \/ \E e \in Unpublished : e.project = On[t]

(* "Keeps what is on screen in step with what other people are doing": a    *)
(* tab shows every file that has arrived on its project's cards and assets  *)
(* and none that was taken off, or word of it is on its way, or a frame has *)
(* passed it by since what it shows was read.                               *)
ScreensAreInStep ==
  \A t \in Tab : shown[t] \in {{}, {View(On[t])}} \/ OnItsWay(t) \/ t \in missed

(* A picture that has arrived is made small, or what makes it gave up: a    *)
(* drain lost with the upload in hand, at any point, is not the end of it.  *)
PicturesAreMadeSmall ==
  \A f \in Picture : state[f] = "stored" ~> f \in small \union failed
=============================================================================

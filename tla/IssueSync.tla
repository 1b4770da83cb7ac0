------------------------------ MODULE IssueSync ------------------------------
(***************************************************************************)
(* A board and the issue list of the repository behind it, brought into    *)
(* step by one sync at a time (the claim of SyncClaim gives that) while    *)
(* people go on working on both sides.  A sync is a sequence of requests   *)
(* to the forge and of transactions here, and anything may happen between  *)
(* two of them.  A title is known by the moment somebody wrote it, so that *)
(* whose words a card carries can be told.                                 *)
(***************************************************************************)
EXTENDS Naturals, Integers, FiniteSets, FiniteSetsExt

CONSTANTS MaxCards, MaxIssues,          \* bounds on what is ever made
          MaxActs,                      \* bound on what people do
          MaxStops,                     \* bound on the syncs that break off
          PageSize,                     \* MOST_ISSUES
          OpenOnly,                     \* project.sync_open_issues_only
          Interrupts,                   \* whether people act while a sync runs: either or both
          Private,                      \* cards older than the connection, and legends
          Arriving, Middle, Finishing,  \* the lists of the board
          NoLabel                       \* an issue that wears no list's label

Card == 1..MaxCards
Issue == 1..MaxIssues
NoIssue == 0
Board == {Arriving, Middle, Finishing}

ASSUME SyncAssumption ==
  /\ MaxCards \in Nat /\ MaxIssues \in Nat /\ MaxActs \in Nat /\ MaxStops \in Nat
  /\ PageSize \in Nat \ {0}
  /\ OpenOnly \in BOOLEAN /\ Interrupts \subseteq BOOLEAN
  /\ Private \subseteq Card
  /\ Cardinality(Board) = 3 /\ NoLabel \notin Board

VARIABLES now,        \* the clock both sides read
          card,       \* the cards
          issue,      \* the issues, numbered as they were opened
          dismissed,  \* the dismissed_issue rows
          syncedAt,   \* scm_connection.issues_synced_at, 0 for null
          sync,       \* the sync under way
          interrupt,  \* whether people act while a sync runs, from beginning to end
          acts, stops,
          calm        \* syncs begun and finished since anybody did anything

vars == <<now, card, issue, dismissed, syncedAt, sync, interrupt, acts, stops, calm>>

NoCard == [is |-> "unmade", list |-> Arriving, title |-> 0, touched |-> 0, issue |-> NoIssue]
NoSuchIssue == [made |-> FALSE, title |-> 0, closed |-> FALSE, updated |-> 0,
                label |-> NoLabel, spoken |-> 0, raisedFor |-> 0]
Idle == [phase |-> "idle", found |-> {}, waiting |-> {}, posted |-> NoIssue,
         read |-> {}, turnedDown |-> {}, changes |-> {}, labels |-> {}]

Here(c) == card[c].is = "here"
Made == {i \in Issue : issue[i].made}
Standing(i) == {c \in Card : Here(c) /\ card[c].issue = i}
IsClosed(c) == card[c].list = Finishing

(* Cards and issues are made in order.                                      *)
Unmade == {c \in Card : card[c].is = "unmade"}
NextCard == Min(Unmade)
NextIssue == Cardinality(Made) + 1

Init ==
  /\ now = 1
  /\ card = [c \in Card |-> NoCard]
  /\ issue = [i \in Issue |-> NoSuchIssue]
  /\ dismissed = {}
  /\ syncedAt = 0
  /\ sync = Idle
  /\ interrupt \in Interrupts
  /\ acts = 0 /\ stops = 0 /\ calm = 0

-----------------------------------------------------------------------------
(* What people do, on the board and on the forge.                           *)

Act ==
  /\ acts < MaxActs
  /\ ~interrupt => sync.phase = "idle"
  /\ acts' = acts + 1
  /\ now' = now + 1
  /\ calm' = IF sync.phase = "idle" THEN 0 ELSE -1
  /\ UNCHANGED <<syncedAt, sync, interrupt, stops>>

CreateCard(l) ==
  /\ Unmade # {}
  /\ Act
  /\ card' = [card EXCEPT ![NextCard] = [is |-> "here", list |-> l, title |-> now',
                                         touched |-> now', issue |-> NoIssue]]
  /\ UNCHANGED <<issue, dismissed>>

UpdateCard(c) ==
  /\ Here(c)
  /\ Act
  /\ card' = [card EXCEPT ![c].title = now', ![c].touched = now']
  /\ UNCHANGED <<issue, dismissed>>

MoveCard(c, l) ==
  /\ Here(c)
  /\ Act
  /\ card' = [card EXCEPT ![c].list = l, ![c].touched = now']
  /\ UNCHANGED <<issue, dismissed>>

(* dismissTheIssue: a card that stands for an issue leaves a note of it.    *)
DeleteCard(c) ==
  /\ Here(c)
  /\ Act
  /\ card' = [card EXCEPT ![c].is = "gone"]
  /\ dismissed' = dismissed \union ({card[c].issue} \ {NoIssue})
  /\ UNCHANGED issue

OpenIssue ==
  /\ NextIssue \in Issue
  /\ Act
  /\ issue' = [issue EXCEPT ![NextIssue] =
                 [NoSuchIssue EXCEPT !.made = TRUE, !.title = now', !.updated = now', !.spoken = now']]
  /\ UNCHANGED <<card, dismissed>>

RewordIssue(i) ==
  /\ i \in Made
  /\ Act
  /\ issue' = [issue EXCEPT ![i].title = now', ![i].updated = now', ![i].spoken = now']
  /\ UNCHANGED <<card, dismissed>>

CloseOrReopenIssue(i) ==
  /\ i \in Made
  /\ Act
  /\ issue' = [issue EXCEPT ![i].closed = ~@, ![i].updated = now', ![i].spoken = now']
  /\ UNCHANGED <<card, dismissed>>

-----------------------------------------------------------------------------
(* The sync.                                                                *)

(* An issue as the forge answers it.                                        *)
Answer(i) == [id |-> i, title |-> issue[i].title, closed |-> issue[i].closed,
              updated |-> issue[i].updated, label |-> issue[i].label]

(* fetchForgeIssues: the newest page, and what changed since the board last *)
(* reconciled when something on the board stands for an issue.              *)
Newest == LET asked == {i \in Made : OpenOnly => ~issue[i].closed}
          IN {i \in asked : Cardinality({j \in asked : j > i}) < PageSize}

ChangedSince ==
  LET asked == {i \in Made : (OpenOnly => issue[i].closed) /\ issue[i].updated > syncedAt}
      linked == \E c \in Card : Here(c) /\ card[c].issue # NoIssue
  IN IF syncedAt = 0 \/ ~linked THEN {}
     ELSE {i \in asked : Cardinality({j \in asked : issue[j].updated > issue[i].updated}) < PageSize}

FetchForgeIssues ==
  /\ sync.phase = "idle"
  /\ sync' = [sync EXCEPT !.phase = "fetched", !.found = {Answer(i) : i \in Newest \union ChangedSince}]
  /\ UNCHANGED <<now, card, issue, dismissed, syncedAt, interrupt, acts, stops, calm>>

(* raiseMissingIssues: the cards waiting are read once, with their words.   *)
GatherWaiting ==
  /\ sync.phase = "fetched"
  /\ sync' = [sync EXCEPT !.phase = "raising",
                !.waiting = {[card |-> c, title |-> card[c].title] :
                               c \in {c \in Card \ Private : Here(c) /\ card[c].issue = NoIssue}}]
  /\ UNCHANGED <<now, card, issue, dismissed, syncedAt, interrupt, acts, stops, calm>>

(* The oldest card goes first.                                              *)
NextWaiting == CHOOSE w \in sync.waiting : \A v \in sync.waiting : w.card <= v.card

(* A request that makes an open issue, whatever list the card is on.        *)
RaiseIssue ==
  /\ sync.phase = "raising"
  /\ sync.waiting # {}
  /\ NextIssue \in Issue
  /\ now' = now + 1
  /\ issue' = [issue EXCEPT ![NextIssue] =
                 [NoSuchIssue EXCEPT !.made = TRUE, !.title = NextWaiting.title, !.updated = now',
                                     !.raisedFor = NextWaiting.card]]
  /\ sync' = [sync EXCEPT !.phase = "posted", !.posted = NextIssue]
  /\ UNCHANGED <<card, dismissed, syncedAt, interrupt, acts, stops, calm>>

(* Mutant: the links are left to be written later.                          *)
LinkIssueLater ==
  /\ sync.phase = "posted"
  /\ sync' = [sync EXCEPT !.phase = "raising", !.posted = NoIssue, !.waiting = @ \ {NextWaiting}]
  /\ UNCHANGED <<now, card, issue, dismissed, syncedAt, interrupt, acts, stops, calm>>

(* The link is an update by id: of nothing, when the card has gone.         *)
LinkIssue ==
  /\ sync.phase = "posted"
  /\ card' = [card EXCEPT ![NextWaiting.card].issue =
                 IF Here(NextWaiting.card) THEN sync.posted ELSE @]
  /\ sync' = [sync EXCEPT !.phase = "raising", !.posted = NoIssue, !.waiting = @ \ {NextWaiting}]
  /\ UNCHANGED <<now, issue, dismissed, syncedAt, interrupt, acts, stops, calm>>

(* reconcile begins by reading what stands for what and what was turned     *)
(* down.                                                                    *)
ReadLinkedCards ==
  /\ sync.phase = "raising"
  /\ sync.waiting = {}
  /\ sync' = [sync EXCEPT !.phase = "read", !.turnedDown = dismissed,
                !.read = {[id |-> c, issue |-> card[c].issue, list |-> card[c].list,
                           title |-> card[c].title, touched |-> card[c].touched] :
                            c \in {c \in Card : Here(c) /\ card[c].issue # NoIssue}}]
  /\ UNCHANGED <<now, card, issue, dismissed, syncedAt, interrupt, acts, stops, calm>>

(* Mutant: the side that changed first.                                     *)
CardChangedFirst(f, k) == k.touched < f.updated

(* settle: the side that changed last says whether it is finished, and has  *)
(* its words kept.                                                          *)
CardChangedLast(f, k) == k.touched > f.updated

Settlement(f, k) ==
  LET closed == IF CardChangedLast(f, k) THEN k.list = Finishing ELSE f.closed
  IN [card |-> k.id,
      moves |-> closed # (k.list = Finishing),
      to |-> IF closed # (k.list = Finishing)
               THEN (IF closed THEN Finishing ELSE Arriving) ELSE k.list,
      pulls |-> ~CardChangedLast(f, k) /\ k.title # f.title,
      title |-> f.title]

(* Mutant: an issue is new though it was turned down.                       *)
UnseenOrDismissed ==
  {f \in sync.found : (\A k \in sync.read : k.issue # f.id) /\ (OpenOnly => ~f.closed)}

(* addCard: an issue nobody here has seen, unless somebody deleted its card *)
(* or it is closed and only open ones are asked for.                        *)
Unseen == {f \in sync.found :
             /\ \A k \in sync.read : k.issue # f.id
             /\ f.id \notin sync.turnedDown
             /\ OpenOnly => ~f.closed}

NewCardFor(f) == NextCard + Cardinality({g \in Unseen : g.id < f.id})

Arrival(f) == [is |-> "here", list |-> IF f.closed THEN Finishing ELSE Arriving,
               title |-> f.title, touched |-> f.updated, issue |-> f.id]

(* Mutant: the words are told and the state is not.                         *)
ChangeOfWords(f, k) ==
  [id |-> f.id, reword |-> k.title # f.title, title |-> k.title,
   close |-> FALSE, closed |-> k.list = Finishing]

(* whatTheIssueShouldSay: what the card says and the answer does not.       *)
Change(f, k) ==
  [id |-> f.id, reword |-> k.title # f.title, title |-> k.title,
   close |-> f.closed # (k.list = Finishing), closed |-> k.list = Finishing]

(* planIssueLabels.                                                         *)
Label(f, list) == [id |-> f.id, list |-> list]

Pairs == {p \in sync.found \X sync.read : p[1].id = p[2].issue}

(* One transaction: the cards, and the stamp, which is the moment of the    *)
(* write: later than all that has happened, earlier than all that will.     *)
WriteWhatArrived ==
  /\ sync.phase = "read"
  /\ Cardinality(Unseen) <= Cardinality(Unmade)
  /\ LET settled == {Settlement(p[1], p[2]) : p \in Pairs}
         changed == {Change(p[1], p[2]) : p \in {p \in Pairs : CardChangedLast(p[1], p[2])}}
     IN /\ card' = [c \in Card |->
             IF \E f \in Unseen : c = NewCardFor(f)
               THEN Arrival(CHOOSE f \in Unseen : c = NewCardFor(f))
             ELSE IF Here(c) /\ \E s \in settled : s.card = c
               THEN LET s == CHOOSE s \in settled : s.card = c
                    IN [card[c] EXCEPT !.list = IF s.moves THEN s.to ELSE @,
                                       !.title = IF s.pulls THEN s.title ELSE @]
             ELSE card[c]]
        /\ sync' = [Idle EXCEPT !.phase = "pushing",
             !.changes = {ch \in changed : ch.reword \/ ch.close},
             !.labels = {Label(p[1], Settlement(p[1], p[2]).to) :
                           p \in {p \in Pairs : p[1].label # Settlement(p[1], p[2]).to}}
                        \union {Label(f, Arrival(f).list) :
                                  f \in {f \in Unseen : f.label # Arrival(f).list}}]
  /\ syncedAt' = now
  /\ UNCHANGED <<now, issue, dismissed, interrupt, acts, stops, calm>>

(* pushBack: the words and the state, one request an issue.                 *)
ChangeIssue(ch) ==
  /\ sync.phase = "pushing"
  /\ now' = now + 1
  /\ issue' = [issue EXCEPT ![ch.id].title = IF ch.reword THEN ch.title ELSE @,
                            ![ch.id].closed = IF ch.close THEN ch.closed ELSE @,
                            ![ch.id].updated = now']
  /\ sync' = [sync EXCEPT !.changes = @ \ {ch}]
  /\ UNCHANGED <<card, dismissed, syncedAt, interrupt, acts, stops, calm>>

(* Then the labels.                                                         *)
LabelIssue(l) ==
  /\ sync.phase = "pushing"
  /\ sync.changes = {}
  /\ now' = now + 1
  /\ issue' = [issue EXCEPT ![l.id].label = l.list, ![l.id].updated = now']
  /\ sync' = [sync EXCEPT !.labels = @ \ {l}]
  /\ UNCHANGED <<card, dismissed, syncedAt, interrupt, acts, stops, calm>>

Finish ==
  /\ sync.phase = "pushing"
  /\ sync.changes = {} /\ sync.labels = {}
  /\ sync' = Idle
  /\ calm' = Min({calm + 1, 2})
  /\ UNCHANGED <<now, card, issue, dismissed, syncedAt, interrupt, acts, stops>>

(* The process dies, or the forge refuses, wherever it had got to.          *)
Stop ==
  /\ sync.phase # "idle"
  /\ stops < MaxStops
  /\ stops' = stops + 1
  /\ sync' = Idle
  /\ calm' = 0
  /\ UNCHANGED <<now, card, issue, dismissed, syncedAt, interrupt, acts>>

-----------------------------------------------------------------------------

OnTheBoard ==
  \/ \E l \in Board : CreateCard(l)
  \/ \E c \in Card : UpdateCard(c) \/ DeleteCard(c)
  \/ \E c \in Card, l \in Board : MoveCard(c, l)

OnTheForge == OpenIssue \/ \E i \in Issue : RewordIssue(i) \/ CloseOrReopenIssue(i)

SyncStep ==
  \/ FetchForgeIssues \/ GatherWaiting \/ RaiseIssue \/ LinkIssue
  \/ ReadLinkedCards \/ WriteWhatArrived
  \/ \E ch \in sync.changes : ChangeIssue(ch)
  \/ \E l \in sync.labels : LabelIssue(l)
  \/ Finish

Next == OnTheBoard \/ OnTheForge \/ SyncStep \/ Stop

Spec == Init /\ [][Next]_vars

-----------------------------------------------------------------------------
(* Properties.                                                              *)

TypeOK ==
  /\ now \in Nat /\ syncedAt \in 0..now
  /\ card \in [Card -> [is : {"unmade", "here", "gone"}, list : Board, title : 0..now,
                        touched : 0..now, issue : Issue \union {NoIssue}]]
  /\ issue \in [Issue -> [made : BOOLEAN, title : 0..now, closed : BOOLEAN, updated : 0..now,
                          label : Board \union {NoLabel}, spoken : 0..now,
                          raisedFor : Card \union {0}]]
  /\ dismissed \subseteq Made
  /\ sync.phase \in {"idle", "fetched", "raising", "posted", "read", "pushing"}
  /\ \A f \in sync.found : f.id \in Made /\ f.updated <= issue[f.id].updated
  /\ \A ch \in sync.changes \union sync.labels : ch.id \in Made
  /\ acts \in 0..MaxActs /\ stops \in 0..MaxStops /\ calm \in -1..2

(* An issue never has two cards, whatever was raised, deleted or broken off *)
(* meanwhile; and only a sync broken off between a request and its link     *)
(* raises a card twice.                                                     *)
OneCardPerIssue ==
  /\ \A i \in Issue : Cardinality(Standing(i)) <= 1
  /\ \A c \in Card : Cardinality({i \in Made : issue[i].raisedFor = c}) <= 1 + stops

Agree(c) ==
  LET i == card[c].issue IN
  /\ card[c].title = issue[i].title
  /\ IsClosed(c) <=> issue[i].closed

Linked == {c \in Card : Here(c) /\ card[c].issue # NoIssue}

(* Two syncs nobody disturbed bring the two sides into step: every card and *)
(* every issue has its other half, they say the same, and the issue wears   *)
(* the label of the list its card is on.                                    *)
InStep ==
  calm = 2 =>
    /\ \A c \in Card \ Private : Here(c) => c \in Linked
    /\ \A i \in Made \ dismissed : Standing(i) # {} \/ (OpenOnly /\ issue[i].closed)
    /\ \A c \in Linked : Agree(c) /\ issue[card[c].issue].label = card[c].list

(* "A card somebody deleted is not made again": an issue that was dismissed *)
(* has no card, and neither has one that was only just raised for the card, *)
(* when nobody works while a sync runs and none is broken off.              *)
DeletedIsNotMadeAgain ==
  /\ \A i \in dismissed : Standing(i) = {}
  /\ ~interrupt /\ stops = 0 =>
       \A i \in Made : LET c == issue[i].raisedFor IN
         c # 0 => (card[c].is = "gone" => Standing(i) = {})

(* "Whichever changed last wins": when nobody works while a sync runs, it   *)
(* rewords a card only because the forge spoke last.                        *)
OnlyTheForgeRewordsIt ==
  [][~interrupt =>
       \A c \in Linked :
         Here(c)' /\ card'[c].touched = card[c].touched /\ card'[c].title # card[c].title
           => issue[card[c].issue].spoken > card[c].touched]_vars

(* "Where a card sits is the board's to say": a sync moves a card only      *)
(* because somebody on the forge spoke last.                                *)
OnlyTheForgeMovesIt ==
  [][\A c \in Linked :
       Here(c)' /\ card'[c].touched = card[c].touched /\ card'[c].list # card[c].list
         => issue[card[c].issue].spoken > card[c].touched]_vars
=============================================================================

# LazyProjectManager, specified

TLA+ modules for the server of LazyProjectManager and for what its client drags, TLC
configurations that check them on small instances, and TLAPS proofs of what matters
most for every instance. Paths below are relative to the repository root (`src/` in
`PROJECT.json` is that root); `S` stands for `app/Server/src`.

To check a run: `tlc -config MCBoard.cfg MCBoard`. To check a proof:
`tlapm SyncProofs.tla`. `PROJECT.json` lists every run, what it is
expected to show, the lines each definition stands for, and for every property a
plausible mistake in the code (the operators commented *Mutant*) that breaks it.

## The system

A project manager for small game studios: an API, one or more workers, Postgres,
Redis for pub/sub, an object store, a browser client, and the forge (GitHub or
another) a project's repository lives on. What matters for its correctness:

* Postgres runs at READ COMMITTED. Nothing in the server takes a row lock except
  two `FOR UPDATE SKIP LOCKED` queries, and nothing raises the isolation level.
  A handler that reads, decides and writes can be overtaken between the two.
* Every write goes through `executeCommand`, one transaction that holds the
  command's key, its change and its events.
* Everything that leaves the server after a write (realtime frames, thumbnails)
  is done by a worker from the event rows; everything that comes from the forge
  comes through webhook rows a worker reads, or through a sync.

| Component | State | Operations | Talks to | Hard part | Correct when |
|---|---|---|---|---|---|
| Command execution `S/cqrs` | `command_log`, the tables a handler writes, `domain_event` | execute, repeat, roll back | API above, outbox below | a repeat while the first sending is open; a failure after the write | one effect a command; key, write and events together; no false success |
| Outbox drain `S/outbox` | `domain_event.processed_at`, row locks | claim, fan out, mark | Redis, thumbnails | overlapping workers, a drain lost half way | every event offered to every consumer; repeats only after a loss |
| Worker loop `S/worker` | back-off, heartbeat, the date of the last purge | one pass after another | ingest, sync, bin, outbox | a pass that throws, hangs or is killed | every part gets its turn; a heartbeat means work |
| Sync claim `S/modules/board/sync/claim-the-sync.ts` | `syncing_since`, `sync_failed_at` | claim, release, fail | button (API), clock (worker) | a holder that dies or outlives its lease | one sync at a time; dead claims taken over |
| Sync schedule `sync-due-projects.ts` | `issues_synced_at`, `forge_spoke_at`, back-off in memory | read due, sync each, note failures | claim, issue sync, ingest | a limited list with failing heads; null dates | every healthy project synced again and again; the forge is heard |
| Issue sync `sync-project-issues.ts` | cards, issues, `dismissed_issue`, stamp | fetch, raise, link, settle, push | forge, board | people act between any two steps; the process stops between a request and a row | one card an issue; deleted stays deleted; both sides end in step |
| Board `S/modules/board/commands` | lists, cards, limits, `closed_at`; links, legends, milestones | create, move, tie, delete | executeCommand, bin | stale reads of limits, of the last list, of a list's cards | no card lost off the board; limits kept; closed means finished; links whole |
| Hand-made order `S/ordering`, `S/domain/ordering` | positions | place between, at the end, spread out | board, assets, documents | named neighbours that moved on; gaps too tight | a row lands where asked; positions distinct |
| Dragging `app/Client/src/logic` | the cached answer, an order of one's own | pick up, step, let go, give up | commands, realtime | answers and refusals while a row is in the hand or a move is out | lands where shown; the screen comes to rest on what there is |
| Forge deliveries `S/modules/scm` | `scm_event_raw`, `scm_link` | store, claim, read, skip | webhook, worker, schedule | two workers, unreadable rows, crashes | each announced once; unreadable ones stop nobody |
| Releases `S/modules/releases` | releases | sync, type, edit, bin | forge, bin | a page read before the transaction; tags used twice | nothing typed is destroyed; a sync lands what it read |
| Asset library `S/modules/assets` | the tree of categories, assets, links | create, move, delete | bin, board | two moves at once; a delete that lifts, moves and renames | no category inside itself; every key meets a row |
| Recycle bin `S/modules/recovery` | `deleted_thing` | bin, restore, purge | every module | a restore into a project that moved on | a restore is a delete undone; nothing is refused that may come back |
| People, permissions `S/modules/identity`, `S/domain/authorization` | accounts, roles, sessions, rules, groups, teams | set up, invite, demote, suspend, sign in, rule, share | bin, every command | checks made before the transaction that writes | somebody can administer; no session outlives its password |
| Uploads and thumbnails `S/modules/files`, `S/outbox/make-thumbnails.ts` | file rows, bytes, thumbnails | request, put, confirm, make small | object store, outbox | three writes at three times | every picture that arrived is made small |
| Realtime `S/realtime`, `logic/realtime` | watchers, subscribed accounts, tabs | watch, fan out, reconnect, refetch | Redis, client | frames between subscribe and answer, and while a socket is down | a tab that heard everything shows what there is |

The rest (asset tabs, documents' text, logged work, mentions; queries and read
models; HTTP, storage and secrets; the screens themselves; the schema) is listed
in `PROJECT.json` with the reason it is left out.

## Modules

| Module | Models | Used by |
|---|---|---|
| `CommandsOnce` | what commands and the outbox promise, with no attempt, transaction, worker or crash | refined by `CommandOutbox` |
| `CommandOutbox` | `execute-command.ts`, `drain-domain-events.ts` | `MCCommandOutbox`, `CommandOutboxProofs` |
| `SyncClaim` | `claim-the-sync.ts` | `WorkerLoop`, `SyncProofs` |
| `WorkerLoop` | `run-outbox-loop.ts` and the button, over `SyncClaim` | `MCWorkerLoop`, `SyncProofs` |
| `SyncSchedule` | `sync-due-projects.ts`, the button | `MCSyncSchedule`, `ForgeProofs` |
| `IssueSync` | `sync-project-issues.ts` and the files it calls, people at the board and on the forge | `MCIssueSync`, `SyncProofs` |
| `Board` | the commands of cards and lists | `MCBoard`, `BoardProofs` |
| `Ordering` | `place-in-order.ts`, `place-among.ts`, `asset-references.ts` | `Dragging`, `BoardProofs` |
| `Dragging` | what is dragged in the client, over `Ordering` | `MCDragging`, `BoardProofs` |
| `ScmDeliveries` | the webhook route and `ingest-deliveries.ts` | `MCScmDeliveries`, `ForgeProofs` |
| `Library` | categories, assets, their links to cards, and the bin behind them | `RecycleBin`, `RecycleBinProofs` |
| `CardTies` | legends, milestones, links between cards, and the bin behind them | `RecycleBin`, `RecycleBinProofs` |
| `RecycleBin` | the two over one recycle bin | `MCRecycleBin`, `RecycleBinProofs` |
| `Releases` | releases typed and synced, and the bin behind them | `MCReleases`, `ForgeProofs` |
| `Authority` | the permission decision as operators, and what a team's or group's delete takes along | `Access` |
| `Access` | people, sessions, agents, teams, projects and rules | `MCAccess`, `AccessProofs` |
| `Live` | upload, thumbnail, outbox, frame, hub, socket and refetch | `MCLive`, `LiveProofs` |
| `FiniteInduction` | induction over finite sets and over numbers, and folds, in a form the provers take | the proofs |

Modules whose proofs share a module have names that do not clash: `ClaimInit` and
`ClaimNext` in `SyncClaim`, `DeliveryInit` in `ScmDeliveries`, `OrderInit` in
`Ordering`, and so on; where nothing is shared they are `Init`, `Next` and `Spec`.

### CommandOutbox

`request[a]` is where one sending of a command has got to. `Record` is the insert
into `command_log`: the primary key makes it wait while another transaction has
the same key open (`KeyIsFree`) and then turns it into `Repeat` if that one
committed. `Run`, `Commit` and `Rollback` are the rest of the transaction;
`Answer` may be lost. The handler's change is `writes[c]`, a counter, so that a
change made twice is seen. A drain is `Claim` (oldest unlocked rows, at most a
batch), `Handle` for every event and every consumer in their order, and
`MarkProcessed`; what a consumer throws is caught, so `Handle` is one action
whether the call worked or not. `Crash` loses the locks and the mark and keeps
what the consumers were told. `occurred_at` is the beginning of the transaction,
as `now()` is, so a row may become visible after younger ones.

### SyncClaim and SyncSchedule

Times are ages that stop growing one tick past the longest that anything
compares with, so the state space is finite with no bound on time itself.
`SyncClaim` has one action per statement (`ClaimTheSync`, `ReleaseTheSync`,
`ReleaseTheSyncAsFailed`) and `Die`. `SyncSchedule` composes its result: a
connection is in the hands of nobody, the worker or the button. `order` is the
connections by `issues_synced_at`, nulls first, which with `MostPerPass` is the
query's `ORDER BY ... LIMIT`; the back-off filters the answer afterwards, as in
the code. `unheard` is a history variable: the forge has spoken and no sync has
begun since.

### IssueSync

Each request to the forge and each transaction is an action, in the code's order:
fetch, gather the cards to raise, for each one request and one link, read what is
linked, write (cards and stamp in one transaction), push words and state, push
labels. `sync` holds what the code holds in local variables across its awaits,
which is how a stale read is stale in the model. A title is the moment somebody
wrote it, so that whose words a card carries can be told. `Stop` breaks a sync
off anywhere. People act between any two steps where `interrupt` is true and
only between syncs where it is false; which of the two is chosen once.

### Board

A command is two steps where its decision can be stale: `Begin...` does the reads
and the refusals, `Commit...` the writes, under no lock. `use` says how this
behaviour uses the board, from beginning to end: commands one at a time or
interleaved, lists that change or stay, cards created on the last list or not.
Properties that only hold for some uses name them.

### WorkerLoop

`step[w]` walks one pass of `runOnePass` in the code's order: ingest, sync, sweep,
drain. Anything may throw while the database refuses (`Outage`, `Recover`), the
sweep also when the bin holds what cannot be thrown away; `Throw` is the loop's
catch. The heartbeat is touched at the top of a pass if the one before came all the
way round. `Kill` and a restart forget the worker's variables and keep the claim and
the heartbeat file. The claim is `SyncClaim`'s own actions, taken by the worker or
by the button; `TheLoopImplementsTheClaim` proves that the composition uses it and
does nothing else to it. A tick is long next to every step but a sync.

### Ordering

Positions are integers, multiples of the finest gap `MaxMoves` halvings can make,
so `\div 2` never rounds, as a double's halving would not: the assumption `Gaps # {}`
says that `Step` can be halved that often. `way` chooses between
the three placements: "asked" is `placeInOrder`, which asks the database for each
neighbour (cards, assets, headings); "whole" is `placeAmong`, which reads all
siblings (lists, documents); "named" is `moveReference`, which goes between the two
that are named and looks for nothing (the pictures of a sheet), with `Promote` for
the thumbnail. A request names up to two neighbours: any two rows (`upToDate` false,
a screen long out of date) or the two it would really land between.

### Dragging

One person's screen over `Ordering`. `data` is the cached answer of the query. On a
board and in the library it is rewritten as the pointer travels (`StepAcross`); a
list is placed when it is let go; a heading or a document waits for the server; the
strip of pictures draws an order of its own (`kept`) until the server's is the same.
`LetGo` turns what is on the screen into a move that names neighbours, with the rows
the screen does not show (`unseen`: closed cards, rows past the limit, assets
filtered out) named by nobody, and cancels a question under way where the code does.
`Serve` runs the whole command, after which the answer may still be lost; `Settle`
is `onError` and `onSettled`; `HearFrame`, `Answer` and `Arrive` are a frame, the
server's reading and the answer's arrival, each at its own time. `overtaken` is a
history variable: something kept on the screen is older than an answer that came.

### Library, CardTies and RecycleBin

`lib` and `board` are the rows; a row of the bin is the thing's copy and its
repairs, as `binIt` stores them. Deletes and restores are operators from rows to
rows (`WithoutCategory`, `WithCategory`, ...), so that "a restore undoes a delete"
can be said of any reachable state without taking the steps. A restore is refused
where a unique or foreign key would refuse it (`Fits`). Moving a category is two
steps, the walk over the ancestors and the write; `crossed` says that two changes of
the tree's shape ever overlapped. Every other command is one step. `RecycleBin` puts
the two over one bin; neither reads a row the other writes, which
`TheHalvesKeepApart` proves, so each theorem about a half holds of the whole.

### Releases

`found[u]` is the page a sync has read; `WriteFound` is its one transaction, which a
unique key may refuse as a whole. Releases are typed, edited, binned and restored in
between, and the forge publishes, rewords and withdraws its own.

### Authority and Access

`Authority` is `decide` and what it reads: role, rules by name, by group and by team,
the reach of a project. `Access` has the commands that change those rows. What
decides about a person's own standing is split where the code splits it: authorised
before the transaction, decided, written; a password checked, its session written
later. `late` marks the session of a sign-in that had been checked before a reset or
a suspension.

### Live

One file's way: `RequestUpload` (row and attachment in one transaction), `SendBytes`,
`ConfirmUpload`; the drain as its parts, publisher before thumbnails, each of which
may fail, with `Crash` between any two; the frame from Redis to the hub to a tab; and
the tab's question, reading and answer as three steps. `Drop`, `RestartApi` and
`LoseRedis` lose whatever was on its way, and `missed` says whom a frame passed by.


### ScmDeliveries

`Receive` and `Store` are the beginning and the end of the webhook's transaction.
`ClaimDeliveries` is the `SELECT ... FOR UPDATE SKIP LOCKED`, which runs on the
connection pool outside any transaction: its locks end with it, so it excludes
only rows somebody holds at that instant. `RecordDelivery` is one transaction a
delivery (link and event, where the card named exists; stamp, mark); a delivery whose reading throws is skipped
and stays unprocessed.

## Runs

Eleven runs pass. The twelfth shows a place where the code does not do what its own
comment says; `PROJECT.json` quotes it under `findings`.

| Run | Question | Instance | Distinct states |
|---|---|---|---|
| `MCCommandOutbox` | Does a command happen once, is each sending answered, and is each event offered and settled? | two commands, one sent twice, an event each, two consumers, two workers, one lost drain | 155 k |
| `MCWorkerLoop` | Is one sync at a time assured, a dead claim taken over, a heartbeat worth something, the outbox drained? | one worker and the button, a lease of four ticks, one kill or outage | 442 k |
| `MCSyncSchedule` | Is every healthy connection synced again and again, and is the forge heard? | three connections: one refuses, one has its schedule off, one never synced; two a pass | 49 k |
| `MCBoard` | Are cards kept on the board, limits kept, and closed cards the finished ones? | three cards, two people, two lists and one to be added, limit one | 153 k |
| `MCIssueSync` | Do the two sides come into step and nothing come back or double, whatever people do during a sync? | three cards, three issues, three acts of people, one break-off | 1.7 M |
| `MCDragging` | Does a row land where it was asked to and where it was shown, do the others keep their order, and does the screen come to rest on what there is? | four rows and three changes of the set; or, on each of six screens, three rows, two changes and up to two drags | 1.6 M |
| `MCScmDeliveries` | Is each delivery announced once and read at last? | four deliveries (two about one link, one unreadable), a batch of two, two crashes | 34 k |
| `MCRecycleBin` | Is a restore a delete undone, whatever happened meanwhile, and is every key met? | three categories, an asset and a card; or three cards and a milestone; two things in the bin | 332 k |
| `MCReleases` | Does a sync keep what was typed and land what it read? | two releases on the forge, three rows, two tags, one in the bin | 135 k |
| `MCAccess` | Can somebody always administer, do sessions end with their password, is a restored team what it was? | two people, an agent, a team, two groups, a project | 264 k |
| `MCLive` | Does a tab that heard everything show what there is, and is every picture made small? | one file, a card, an asset and a face, one tab, batches of two, one lost drain | 445 k |
| `MCReleasesHeldTag` | *violation* `AHeldTagIsLeftAsItIs` | as `MCReleases` | |

**Why the bounds are enough.** Every race in these modules is between two actors, and
the third thing is there to be the bystander: two workers and two sendings of one
command beside another command; a second healthy connection; a third card. Four rows
are two neighbours, one that has come between them and one on its way; a step of 8
with a gap tight below 5 reaches the spreading-out at the second drop, where the code
(1000 and a millionth) takes about thirty. On a screen three rows and two
changes are a row dragged, its neighbour moved by somebody else, and one between
them; a second drag is explored on one screen of each kind that shows a move before
it is made. Three acts of people are enough to create, change and delete on two sides
around one sync. `PageSize` is above the number of issues: below it the two sides are
not brought into step at all (see below). Unreadable deliveries are fewer than a batch
and refusing connections fewer than a pass reads: at the limit the liveness
properties fail. In `MCWorkerLoop` a sync takes at most one tick (`Longest`) and one
thing goes wrong (`MostFaults`): a second adds no new order of steps.

Some runs are explored up to a `CONSTRAINT`. `MCRecycleBin` stops at the first overlap
of two changes of the tree's shape, where `NothingIsInsideItself` ends, and holds two
things in the bin, one name only for landings and two links; each behaviour is of the
library or of the board, which share no row, and one set of model values serves as
categories and as cards so that one symmetry serves both. `MCAccess` is explored
`NearTheStart`: the further people have moved from where they began, the fewer rows
there are, and the other way round. `MCDragging` holds the second drag to three rows
that all stay. Its rows are numbers that begin in their order, which replaces a
symmetry.

`CHECK_DEADLOCK FALSE` is set where the bounds let the system come to rest (no
more commands to send, cards to make, deliveries to come). `WorkerLoop` and
`SyncSchedule` never stop and are checked for it. Type invariants are not in the
configurations where a theorem has them; every one holds in its run.

### Fairness

* `CommandOutbox`: weak fairness of serving a request (the API finishes what it
  has begun, or `Rollback` does) and of each worker's drain, because
  `runOutboxLoop` comes round again after every pass, one that threw included.
  Nothing is assumed of `Send`, `Rollback` or `Crash`.
* `WorkerLoop`: a worker goes on with its pass (weak); when the claim is free again
  and again the clock's sync gets it at last (strong: it asks every pass); an outage
  ends; time passes. No fairness of release: a holder may die. Nobody is obliged to
  press the button.
* `SyncSchedule`: time, the worker's work, and the end of a sync the button began
  (a request ends).
* `ScmDeliveries`: a webhook's transaction ends; the worker's ingest runs on.
* `Live`: the drain runs on. Nothing is assumed of Redis, sockets or tabs.


## Proofs

TLAPS checks, for every value of the constants allowed by the named assumptions:

* `CommandOutboxProofs`: `TypeCorrect`, `Inductive`, `SuccessIsTrue`,
  `TransactionIsWhole`, `WorkersClaimApart`, `RepeatsAreBounded`, `MarkedIsOver`, and
  `Refinement`, that the machine implements `CommandsOnce`. All are about `SafeSpec`,
  any number of sendings, workers, consumers and lost drains.
* `SyncProofs`, the claim: `ClaimIsTyped`, `OneAtATime` (under `~Overruns`: no sync is
  still running when its lease is over) and `FailureDateIsKept`; that the worker's
  loop over the claim implements it (`TheLoopImplementsTheClaim`), from which
  `TheLoopSyncsOneAtATime` follows; and `HeartbeatsVouchForWork`. The sync itself:
  `IssueSyncInvariant`, `IssueSyncIsTyped`, `AnIssueHasOneCard`,
  `ADeletedCardStaysAway`, `ASyncRewordsForTheForge`, and `UndisturbedSyncsSettle`
  (under `OnePageHoldsAll`: closed issues are read too, and a page holds all there
  are), for any number of cards, issues, acts of people and syncs broken off.
* `ForgeProofs`: `BackoffIsRespected` and `TheScheduleIsTyped` (for a finite set of
  connections) of the schedule; `DeliveriesAreTyped` (for a
  finite set of deliveries) and `NoneIsAnnouncedTwice` (for one worker);
  `ReleasesInvariant`, `ReleasesAreTyped`, `WhatIsTypedStays`, `WhatIsReadLands` and
  `TypedRowsStopNoSync`.
* `BoardProofs`: `TypeCorrect`, `ClosedIsFinished`, `OpenWorkIsOnTheBoard` and
  `ArrivalsFindTheirRoom` of the board; `PlaceInvariant`, `OrderIsTyped`,
  `NoTwoShareAPlace`, `TheRestKeepTheirOrder` and `DropsLandBetween` of the hand-made
  order, for any step, tightness, rows and drops; `TheScreenArrangesTheSet`, that
  `Dragging` implements `Ordering`, `DropsLandWhereShown` and `TheScreenSettles`, for
  any of the six screens, whatever it hides and whatever others do meanwhile.
* `RecycleBinProofs`: `TheHalvesKeepApart`, that the two over one bin implement each
  of them; of the library `LibraryIsTyped`, `TheTreeHasOneTop`, `EveryKeyIsMet`,
  `TheBinComesBackInOrder` and `ARestoreIsADeleteUndone`, for any number of
  categories, assets, cards and rows of the bin; of the board's ties `TiesAreTyped`,
  `LinksAreWhole`, `TheBinAlwaysGivesBack` and `TheTiesComeBack`.
* `AccessProofs`: `InstallInvariant`, `TypesHold`, `SomebodyAlwaysAdministers`,
  `SessionsEnd` and `ARestoreUndoesADelete`.
* `LiveProofs`: `LiveInvariant`, `LiveIsTyped` and `ScreensStayInStep`, for any number
  of files, tabs and batches.
* `FiniteInduction`: `SmallestSet`, `LeastNumber`, `AFoldExists`, `OneElementAtATime`
  and `AFoldIsTheOnlyOne`, on which the others rest. The library's induction theorems
  take a predicate, which the provers cannot instantiate; these take the set of the
  subsets (or numbers) of which it holds.

**The invariant of CommandOutbox.** `SuccessMeansWritten` is not inductive: a
repeat is answered from the log, so one needs that the log and the writes agree;
that is kept by a commit only if the key was not logged before, which needs
`OpenIsExclusive`: of the sendings of a command at most one has a transaction
open, and none once it is logged. `RepeatsNeedACrash` is not inductive either: the
count of offers goes up in a drain and the count of crashes at its end, so
`OffersAreCounted` says that an offer beyond the crashes so far belongs to a drain
still open, and `TriedWasHeld` that it is of a row that drain has locked; with
`ClaimsAreDisjoint` only one drain can own it. `IInv` is their conjunction with
`TypeOK`. The refinement is then a step-by-step argument: `Commit` is `Apply`,
`Repeat` and a delivered `Answer` are `Tell`, `Handle` is `Offer`, `MarkProcessed`
is `Settle`, and the rest stutter.

**The invariant of SyncClaim.** While no sync outlives its lease, the one that
runs is exactly as old as the claim (`RunnerHoldsTheClaim`), so the connection is
not free while it runs. A claim left by a dead sync is older than every running
one, and harmless.

**The invariants of Board.** `RemovedAt`, `InsertedAt`, `WithoutOne` and
`MovedWithin` say what the sequence operators do to a list order with no list
twice. For `ClosedMeansFinished` the stamps of the cards are not enough: what each
transaction in flight is about to write must be right when it is written, so
`FixedInv` says that a move in flight stamps as its list asks (the last list cannot
change), and that a card being created is nowhere and in no other transaction
(`UnbornAreAlone`), so that nothing can have stamped it when it comes. For
`OpenCardsAreOnTheBoard` and `ArrivalsRespectTheLimit`, with one command at a time,
`AloneInv` and `RoomInv` say that what was read at the beginning is still so: the
list is there, an archive has every open card of its list in hand, the room is
there.

**The invariant of ScmDeliveries.** A delivery has been announced only when it is
marked, and then once at most, and nothing a worker holds is marked (`AnnouncedWhenMarked`). The second
half is what a second worker breaks, so the theorem says one.

**The invariant of SyncSchedule.** Whatever a pass has still to sync was not being
backed off from when the pass read it, and from then until its turn it only gets
older: a failure noted meanwhile is of a connection that has left the pass.

**The heartbeat.** A worker about to touch the file must have finished a pass at most a
tick ago. `BeatIsDue` says so at the two steps where it matters, and `late` tells
whether that tick has gone by; the age of the file then follows from pass to pass.

**The invariant of Library.** That no category is inside itself is not inductive: a
move is written after its walk, and the bin puts rows back. `LibraryInv` has, at all
times, that siblings have different names (`NamesSettle`) and that the bin and the
library hold different things, in the order they were deleted (`BinIsApart`); and,
until two changes of the tree's shape overlap, `Shape`: every set of categories has
one whose parent is outside it (`Rooted`, which needs no induction over paths), every
key meets a row (`Standing`), a move that was checked may still be written
(`MovesAreSafe`), and where the place a deleted thing was in is gone, that place was
deleted later or thrown away (`Order`).

**The invariant of CardTies.** `BoardInv`: what is off the board is tied to nothing, a
link is never there without its other half, and an id is never used twice. `RowInv`:
a row of the bin is of something that has gone, and the links it carries are whole
and all touch it. `OneRowEach`: nothing is in the bin twice. With these a restore
after `forgetWhatIsGone` finds every key it needs.

**The invariant of IssueSync.** That an issue has one card is not inductive: a sync
makes cards and links from lists it read many requests ago. `OneCard` says what those
lists still mean. Cards and issues are made in the order of their numbers
(`MadeInOrder`), so what is made since is in no list; two cards never stand for one
issue, nor a card for an issue that was turned down (`LinksHold`); a card waiting to be
raised stands for none, and what was read of a card is of the issue it still has
(`SyncHolds`); a card has cost one issue and one more for each break-off
(`RaisesAreCounted`). Where people act only between syncs `NothingWasDisturbed` adds
that what the sync holds is what there is. For `InStep` `CalmInv` follows the syncs
nobody disturbed since the last act: in the first every card gets its issue
(`FirstTime`), in the second every issue is in the answer, because a page holds them
all, and what is not the same on both sides is about to be told (`SecondTime`), and
after that there is nothing left to tell (`EverAfter`).

**The invariant of Ordering.** `PlaceInv`: after so many moves every place is a whole
multiple of the gap so many halvings leave, above nought, and below what a step a move
can reach; and where the premise of `PositionsAreDistinct` holds no two rows share one.
A midpoint is then strictly between its neighbours however tight they are, which is
what all three properties of a drop come down to; a set that is spread out keeps its
order, and has a whole step between any two rows.

**The invariants of Dragging.** `TabIsTyped` is more than types: every order the
screen holds is a line (each row once), and every request names the two rows its row
has in the order it was drawn in (`Draws`), which each of the six screens' ways to
drop is shown to do. So a request is one `Ordering` can serve, and the refinement is
step by step: `Serve` and `OtherActs` are its moves, the rest stutters. For
`LandsWhereShown`: positions that are apart give one order only (`OneOrder`,
`AClimbIsTheOrder`), the row lands in the very gap that was named even when the set is
spread or rows are hidden in it (`ItLandsBetween`), and a line that climbs with a row
put in where it belongs is the server's order (`AClimbWithOneMore`). For
`ScreensSettle`, `SettleInv` has five parts: an answer on its way is the server's or a
frame is behind it; so is what is on the screen, unless a request is to come back;
so is what a drag would put back; a drag that redraws the screen has moved only the
row in the hand; and a strip that keeps an order of its own has one request, which
will make the server's order that one (`StripIsAwaited`).

**The invariant of Releases.** `ReleasesInv` has that the rows fit the unique keys, a
release of the forge one row and a tag one row, that no more is in the bin than may
be, and that what a sync carries is a page. A page is written release by release, as a
fold; `Stands` says of every part of the page that has been written that what was
typed is as it was (`Settled`), that each release of it has its row (`Landed`), and
that a refusal means two of the page met on one tag; the whole page follows by
`OneElementAtATime`. A new row is found because there are rows for every tag and for
the bin (`ARowIsLeft`), which is the assumption.

**The invariant of Access.** `IInv` is that the owner's row says so, that while no two
decisions overlap at most one is being made and its leaving still leaves an admin
(`AdminsKept`), that every session opened with a password that is no longer the
account's is one of a sign-in that was checked before
(`SessionsEndWithTheirPassword`), and that rules, shares and memberships are of things
that are there, and the bin's of things that are not (`PlacesOK`). That a restore
undoes a delete is an induction over the bin, oldest first: `NothingIsLost` says that
once everything is put back, newest first, every row the bin carried is there whose
two ends are.

**The invariant of Live.** `IsInStep`, for each tab: it shows what there is, or it is
asking, or what there is is on its way, or word that it changed is still to come (on
the tab's socket, on the wire, or in an event not yet published) or has passed the tab
by. `DrainGoesOn` says how far an open drain has got, and `FilesHang` that a file hangs
in one place.

**Model-checked only.** Liveness under fairness everywhere (`EveryWriteIsAnnounced`,
`EverySendingIsAnswered`, `DeadClaimsAreTaken`, `TheOutboxIsDrained`,
`HealthyIsSynced`, `SpokenIsHeard`, `EveryDeliveryIsRead`, `PicturesAreMadeSmall`):
out of the prover's reach. Every safety property a run checks has its theorem.

## What the models show against the comments

The run that finds a violation is in `PROJECT.json` under `findings`, with the
comment it contradicts. Modelling met others of the same kind; they are in the
reachable behaviours of the modules as they stand, and the properties above are
stated under the premise that excludes them. Some can be seen with a definition that
stands beside them: add `DragsRespectTheLimit` (a PROPERTY) or `NothingIsStranded` to
`MCBoard.cfg`, `OnlyTheForgeMovesIt` (a PROPERTY) to `MCIssueSync.cfg`,
or `ReadByOneWorker` to `MCScmDeliveries.cfg` with two workers;
`LegendsAreOneLevelDeep` is in `CardTies`.

* *Claim.* `releaseTheSync` clears the claim by connection id
  (`claim-the-sync.ts:98`). A sync that outlives its lease gives back the claim of
  the one that took over, and a third may start: `OneSyncAtATime` fails with
  `Overruns = TRUE`, which is why `OneAtATime` has its premise.
* *Schedule off.* With `sync_every_seconds` null, `forge_spoke_at` is compared
  with a null `issues_synced_at` (`sync-due-projects.ts:173`) and the connection is
  never due before its first sync; and a delivery read while the button's sync is
  between its fetch and its stamp is older than the stamp and makes nothing due.
  `SpokenIsHeard` fails with a connection in both `Off` and `NeverSynced`, or in
  both `Off` and `Pressed`.
* *Closed means finished.* `createCard` never stamps a card
  (`create-card.ts:106`), and adding, moving or archiving a list changes which one
  is the last without stamping anybody (`list-commands.ts:210`), against
  `closing.ts:4`. `ClosedMeansFinished` fails without its premise on `use`. A later
  reordering inside such a list then reopens cards, so that a list becomes fuller
  without being asked (`move-card.ts:71`).
* *Archive.* A card moved onto a list between the archive's reading and its update
  stays on it (`list-commands.ts:285`): `OpenCardsAreOnTheBoard` needs `use.alone`.
* *Issue sync, disturbed.* The patch is written by id over whatever the card has
  become (`sync-project-issues.ts:672`), so words written meanwhile are replaced by
  older ones; a card deleted while its issue is being raised comes back (`:275`).
  `OnlyTheForgeRewordsIt` and `DeletedIsNotMadeAgain` need `~interrupt`.
* *Issue sync, old issues.* `issues_synced_at` is the moment of the write (`:321`)
  and the next sync asks for what changed since then, so an issue that is off the
  newest page and changed between a fetch and its stamp is in no later answer,
  against `fetch-issues.ts:37`; a card whose issue is off the newest page cannot
  tell it anything, against `docs/GitHub-App-For-Releases.md:220`. `InStep` fails
  with `PageSize = 1`. With `OpenOnly = TRUE` it fails in the same way for closed
  issues.
* *Deliveries.* The upsert compares no dates (`ingest-deliveries.ts:201`), and a
  delivery stored late or passed over is read after a newer one, against the
  comment at `:199`. A whole batch of unreadable deliveries is taken again for
  ever, against `:59`: `EveryDeliveryIsRead` fails with two in `Poison`.
* *Order.* Two rows named that are neighbours no more may have a third exactly at
  their midpoint (`place-in-order.ts:67`); and a drop that names only the row
  above, into a gap too tight, lands a step on after the spreading, where the next
  row has just been put (`:126`). `PositionsAreDistinct` needs `upToDate` for
  `placeInOrder`, and there both neighbours are named.
* *Dragging.* `AssetReferenceSheet.tsx` keeps the strip's own order until the server's
  is exactly the same, so a strip overtaken by somebody else's order, or whose
  pictures have changed, keeps its own for good, against
  `AssetReferenceSheet.tsx:262` ("two people reordering at once still converge"). Nor
  does it take a second person now: two moves that once named the same two
  neighbours, each unaware of the other, have the same midpoint, which
  `moveReference` never spreads, and the server may answer the two pictures either
  way round; a strip dropped on them later waits for the one it drew. The proof
  found that one, beyond the bounds of the run; `overtaken` covers it (`Answers # {Shown}`). A
  frame that arrives during a drag is answered before the drop and the drop is lost;
  a drag given up writes back the board from before it, older than an answer that
  came meanwhile. `ScreensSettle` needs `~overtaken`. The last tile dropped on the
  heading of its own category lands second to last, against `asset-drag.ts:244`.
  `moveReference` never spreads its gaps, so some fifty drops into one use them up.
* *Library.* Two moves at once can put two categories inside each other
  (`move-category.ts:145`); restoring a category fails on the foreign key while
  the one it was in is itself deleted; a restore gives back no positions; an asset restored
  before the card it was linked to has lost that link.
* *Card ties.* A restore can break "one level is the whole model": a card that was
  under a legend becomes one itself while its own legend is in the bin, and is put
  back under it. Two such restores make a ring. A repair sees that a card's milestone is empty, not that it
  was emptied since: a card moved to another milestone and then taken off it is
  promised again. Logged hours and mentions are in no recipe and go with the row,
  against `delete-card.ts:17`. `createCard` and `updateCard` never ask whether the
  milestone belongs to the project.
* *Worker loop.* A batch of deliveries nobody can read counts as work done, so the loop
  never sleeps (`run-outbox-loop.ts:170`). A pass slower than the heartbeat's limit
  makes a worker unhealthy that is only slow, against the comment at `:153`. With
  `Longest = 2` `TheOutboxIsDrained` fails: a sweep that throws and syncs as long as
  their schedule starve the drain.
* *Releases.* Two syncs that overlap may write the older page last; a sync in flight
  writes into a project archived meanwhile; a synced release that was deleted is added
  again by the next sync, and can then no longer be restored.
* *Access.* With no owner of the installation, or one who is suspended, two demotions
  at once leave no admin (`manage-users.ts:178`); `countActiveAdmins` counts agents
  (`:510`). A password that was checked before a reset or a suspension opens a session
  after it. "Neither outranks the other" (`session-store.ts:97`) is not what `decide`
  does.
* *Realtime.* Frames about files name scopes that do not refetch a project's key art.
  A second socket of an account is told it is watching before Redis has answered
  (`invalidation-hub.ts:41`); what is published while a socket is down is never heard
  of, and coming back refetches nothing. `requestUpload` points at the new picture
  before there are any bytes, against `upload-file.ts:39` ("nothing pointing at it").
  A thumbnailer that throws is caught and its event settled all the same, so that
  picture is never made small, where `make-thumbnails.ts:145` expects the event to be
  offered again for ever.
* *Outbox.* Events of one command may reach a consumer out of order
  (`drain-domain-events.ts:72`), and every command may write after the permission it
  was given has been taken back (`project-access.ts:182`).

## Not modelled

Within the modules: card text, tags, assignees, subtasks, comments, bug keys,
issue bodies (they follow the title), pull requests, how payloads and HTTP answers
are parsed, signatures; refusals because a project is archived. Consumers of the
outbox are an index in `CommandOutbox`; what two of them do with an event is in
`Live`. `Ordering` serves one drop at a time, so two drops into one gap at the same
moment, which take the same midpoint (`card-positions.ts:98`), are outside it.
`Dragging` takes frames as never lost (`Live` has the losses), questions as never
failing, and leaves out a heading dropped inside another and the keyboard. `Board`
takes creating a list, moving one, limiting one and deleting a card as one step each:
none of them decides on something another command's races could make worse than the
ones modelled. `ScmDeliveries` has at most one link a delivery. `IssueSync` takes the two
pages and the question before them as one reading, and a delete of a card as one step:
people act before and after, and what they do in between is as if before or after.
`WorkerLoop` drains its backlog in one step, where the code takes a hundred at a time
and comes round without sleeping; the batches are in `CommandOutbox` and `Live`.
`Live` takes events in the order they were added, where the code sorts by
`occurred_at`, and leaves out the list of an asset's files on its own page, which
names a file before it has arrived (`asset-detail.ts:211`). `Access` leaves out names, avatars, the leads of projects, and
outsourcers, whom nothing ever allows anything.

Parts left out: asset tabs and templates, documents' text and their tree, the work log,
mentions and notifications; read models, which are SQL over what the modules hold;
seed data; the screens, which draw; HTTP, cookies, storage and secrets, which are I/O.
Together these are most of the repository's lines: the client's screens and the
queries alone outweigh the code that decides anything, which is why the share of lines
with a definition is small.

## Plan

1. Documents and asset tabs in the bin, as a third part of `RecycleBin`.
2. Two drops at once over `Ordering`: read, then write, each on its own.
3. Work log and mentions beside `CardTies`, once a restore brings them back.

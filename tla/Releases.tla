------------------------------- MODULE Releases -------------------------------
(***************************************************************************)
(* What a project has shipped: releases somebody typed, releases read from *)
(* the forge's page, the sync that writes that page in, and the recycle    *)
(* bin.  A sync reads the page before its transaction opens, so anything   *)
(* may happen in between; what it writes is one transaction.               *)
(***************************************************************************)
EXTENDS Naturals, FiniteSetsExt

CONSTANTS Release,       \* rows there may be
          LastIssued,    \* the forge's releases are numbered 1 .. LastIssued
          Tag, Words,    \* what a release is called, and all it says
          Person,        \* people with a sync in flight
          Hand,          \* source and external_id of a typed release
          Nothing,       \* no row, no release on the forge, no sync
          Refused,       \* a sync a constraint stopped, all of it rolled back
          MostReleases,  \* MOST_RELEASES, one page
          MostBinned     \* bound: rows in the bin at once

Issued == 1 .. LastIssued

Says(from) == [tag : Tag, words : Words, from : from]

ASSUME ReleasesAssumption ==
  /\ LastIssued \in Nat /\ Hand \notin Issued
  /\ Nothing \notin Says(Issued \union {Hand})
  /\ Refused \notin [Release -> Says(Issued \union {Hand}) \union {Nothing}]
  /\ MostReleases \in Nat \ {0} /\ MostBinned \in Nat
  /\ IsFiniteSet(Release) /\ IsFiniteSet(Tag)
  /\ Cardinality(Release) >= Cardinality(Tag) + MostBinned

VARIABLES rows,      \* project_release and its release_assets
          binned,    \* the same, in deleted_thing
          archived,  \* the project's archivedAt
          forge,     \* what is published, and Nothing what is not or no longer
          issued,    \* how many the forge has numbered
          found      \* the page each person's sync has read and not yet written

vars == <<rows, binned, archived, forge, issued, found>>

-----------------------------------------------------------------------------
Held(rs) == {r \in Release : rs[r] # Nothing}

(* unique (project, tag) and unique (project, source, external_id).         *)
Fits(rs) ==
  \A r, s \in Held(rs) :
    r # s => rs[r].tag # rs[s].tag /\ (rs[r].from = Hand \/ rs[r].from # rs[s].from)

Free == {r \in Release : rows[r] = Nothing /\ binned[r] = Nothing}

(* Mutant: whoever they are from.                                           *)
TagsOfAny(rs, from) == {rs[r].tag : r \in Held(rs)}

Tags(rs, from) == {rs[r].tag : r \in {s \in Held(rs) : rs[s].from \in from}}

(* fetchForgeReleases: one page, the newest first.                          *)
Page ==
  LET out == {f \in Issued : forge[f] # Nothing}
  IN [f \in {g \in out : Cardinality({h \in out : h > g}) < MostReleases} |-> forge[f]]

(* A sync half written: the rows so far and the tags it has added.          *)
Put(w, r, row, more) ==
  LET rs == [w.rows EXCEPT ![r] = row]
  IN IF Fits(rs) THEN [rows |-> rs, added |-> w.added \union more] ELSE [w EXCEPT !.rows = Refused]

(* Mutant: the release's own id is not kept.                                *)
AsIfTyped(page, f) == [tag |-> page[f].tag, words |-> page[f].words, from |-> Hand]

(* columnsOf and writeAssets: all of what the forge says, and no more.      *)
AsTheForgeSays(page, f) == [tag |-> page[f].tag, words |-> page[f].words, from |-> f]

(* Mutant: a synced release that holds the tag is taken for this one.       *)
WriteOneByTag(held, page, w, f) ==
  LET same == {r \in Held(held) : held[r].tag = page[f].tag}
      free == {r \in Free : w.rows[r] = Nothing}
  IN IF w.rows = Refused THEN w
     ELSE IF same # {} THEN Put(w, CHOOSE r \in same : TRUE, AsTheForgeSays(page, f), {})
     ELSE IF free = {} THEN [w EXCEPT !.rows = Refused]
     ELSE Put(w, CHOOSE r \in free : TRUE, AsTheForgeSays(page, f), {page[f].tag})

(* One release of the page, against the rows held when the sync began: the  *)
(* row that has its id is refreshed; a tag somebody else typed, or this     *)
(* sync has just added, is left; anything else is added.  The tags of       *)
(* synced releases are not looked at: ownTags excuses them.                 *)
WriteOne(held, page, w, f) ==
  LET mine == {r \in Held(held) : held[r].from = f}
      taken == Tags(held, Issued \union {Hand}) \union w.added
      own == Tags(held, Issued)
      free == {r \in Free : w.rows[r] = Nothing}
  IN IF w.rows = Refused THEN w
     ELSE IF mine # {} THEN Put(w, CHOOSE r \in mine : TRUE, AsTheForgeSays(page, f), {})
     ELSE IF page[f].tag \in taken \ own THEN w
     ELSE IF free = {} THEN [w EXCEPT !.rows = Refused]
     ELSE Put(w, CHOOSE r \in free : TRUE, AsTheForgeSays(page, f), {page[f].tag})

(* writeFoundReleases: the whole page, or nothing.  Newest first: of any of *)
(* its releases, the oldest is written after the others.                    *)
Written(held, page) ==
  MapThenFoldSet(LAMBDA f, w : WriteOne(held, page, w, f), [rows |-> held, added |-> {}],
                 LAMBDA f : f, Min, DOMAIN page).rows

-----------------------------------------------------------------------------
Init ==
  /\ rows = [r \in Release |-> Nothing] /\ binned = [r \in Release |-> Nothing]
  /\ archived = FALSE
  /\ forge = [f \in Issued |-> Nothing] /\ issued = 0
  /\ found = [u \in Person |-> Nothing]

(* A command about one release, in one transaction that starts by asking    *)
(* whether the project is archived, and which the constraints may refuse.   *)
Change(rs) ==
  /\ ~archived
  /\ Fits(rs)
  /\ rows' = rs
  /\ UNCHANGED <<archived, forge, issued, found>>

RecordRelease(r, t, w) ==
  /\ r \in Free
  /\ Change([rows EXCEPT ![r] = [tag |-> t, words |-> w, from |-> Hand]])
  /\ UNCHANGED binned

(* Any release may be edited, a synced one until the next sync.             *)
UpdateRelease(r, t, w) ==
  /\ rows[r] # Nothing
  /\ Change([rows EXCEPT ![r].tag = t, ![r].words = w])
  /\ UNCHANGED binned

DeleteRelease(r) ==
  /\ rows[r] # Nothing
  /\ Cardinality(Held(binned)) < MostBinned
  /\ Change([rows EXCEPT ![r] = Nothing])
  /\ binned' = [binned EXCEPT ![r] = rows[r]]

(* The bin does not ask whether the project is archived.                    *)
RestoreRelease(r) ==
  /\ binned[r] # Nothing
  /\ Fits([rows EXCEPT ![r] = binned[r]])
  /\ rows' = [rows EXCEPT ![r] = binned[r]]
  /\ binned' = [binned EXCEPT ![r] = Nothing]
  /\ UNCHANGED <<archived, forge, issued, found>>

PurgeRelease(r) ==
  /\ binned[r] # Nothing
  /\ binned' = [binned EXCEPT ![r] = Nothing]
  /\ UNCHANGED <<rows, archived, forge, issued, found>>

ArchiveProject(on) ==
  /\ archived' = on
  /\ UNCHANGED <<rows, binned, forge, issued, found>>

(* The forge.  Nothing keeps two drafts there from sharing a tag.           *)
Publish(t, w) ==
  /\ issued < LastIssued
  /\ issued' = issued + 1
  /\ forge' = [forge EXCEPT ![issued + 1] = [tag |-> t, words |-> w]]
  /\ UNCHANGED <<rows, binned, archived, found>>

Reword(f, t, w) ==
  /\ forge[f] # Nothing
  /\ forge' = [forge EXCEPT ![f] = [tag |-> t, words |-> w]]
  /\ UNCHANGED <<rows, binned, archived, issued, found>>

Withdraw(f) ==
  /\ forge[f] # Nothing
  /\ forge' = [forge EXCEPT ![f] = Nothing]
  /\ UNCHANGED <<rows, binned, archived, issued, found>>

(* syncReleases, up to its transaction.                                     *)
ReadThePage(u) ==
  /\ found[u] = Nothing
  /\ ~archived
  /\ found' = [found EXCEPT ![u] = Page]
  /\ UNCHANGED <<rows, binned, archived, forge, issued>>

(* And its transaction.                                                     *)
WriteFound(u) ==
  /\ found[u] # Nothing
  /\ rows' = LET after == Written(rows, found[u]) IN IF after = Refused THEN rows ELSE after
  /\ found' = [found EXCEPT ![u] = Nothing]
  /\ UNCHANGED <<binned, archived, forge, issued>>

Next ==
  \/ \E r \in Release, t \in Tag, w \in Words : RecordRelease(r, t, w) \/ UpdateRelease(r, t, w)
  \/ \E r \in Release : DeleteRelease(r) \/ RestoreRelease(r) \/ PurgeRelease(r)
  \/ \E on \in BOOLEAN : ArchiveProject(on)
  \/ \E t \in Tag, w \in Words : Publish(t, w)
  \/ \E f \in Issued, t \in Tag, w \in Words : Reword(f, t, w)
  \/ \E f \in Issued : Withdraw(f)
  \/ \E u \in Person : ReadThePage(u) \/ WriteFound(u)

Spec == Init /\ [][Next]_vars

-----------------------------------------------------------------------------
(* Properties.                                                              *)

IsAPage(page) ==
  DOMAIN page \subseteq Issued /\ \A f \in DOMAIN page : page[f] \in [tag : Tag, words : Words]

TypeOK ==
  /\ rows \in [Release -> Says(Issued \union {Hand}) \union {Nothing}]
  /\ binned \in [Release -> Says(Issued \union {Hand}) \union {Nothing}]
  /\ archived \in BOOLEAN
  /\ forge \in [Issued -> [tag : Tag, words : Words] \union {Nothing}]
  /\ issued \in 0 .. LastIssued
  /\ \A u \in Person : found[u] = Nothing \/ IsAPage(found[u])
  /\ Fits(rows)

(* "A release somebody typed is never touched", "what the repository no     *)
(* longer has is left alone" (syncReleases): whatever was typed, renamed,   *)
(* restored or published since the page was read, the sync that writes it   *)
(* drops no row, gives none to another release, and leaves every typed row  *)
(* as it was.                                                               *)
ASyncDestroysNoWriting ==
  [][\A u \in Person : WriteFound(u) =>
       \A r \in Held(rows) :
         /\ rows'[r] # Nothing /\ rows'[r].from = rows[r].from
         /\ rows[r].from = Hand \/ rows[r].from \notin DOMAIN found[u] => rows'[r] = rows[r]]_vars

(* "A release the forge owns is whatever the forge now says it is": a sync  *)
(* that is not refused leaves each release of its page in a row that says   *)
(* what the page says, renamed ones in the row they had; a new one is left  *)
(* out only where its tag was typed by somebody or is on the page twice.    *)
ASyncLandsWhatItRead ==
  [][\A u \in Person : WriteFound(u) /\ Written(rows, found[u]) # Refused =>
       LET page == found[u] IN
       \A f \in DOMAIN page :
         LET mine == {r \in Held(rows) : rows[r].from = f} IN
         \/ \E r \in Held(rows') :
              /\ rows'[r] = [tag |-> page[f].tag, words |-> page[f].words, from |-> f]
              /\ mine \subseteq {r}
         \/ /\ mine = {}
            /\ \/ \E r \in Held(rows) : rows[r].tag = page[f].tag /\ rows[r].from = Hand
               \/ \E g \in DOMAIN page : g # f /\ page[g].tag = page[f].tag]_vars

(* "What a person wrote wins over what a forge says" (writeFoundReleases),  *)
(* and wins without stopping the rest: a sync of what is on the forge now   *)
(* is refused only where two of its releases share a tag, a new one brings  *)
(* a tag another synced row has, or a known one is renamed over some row.   *)
HandsStopNoSync ==
  Written(rows, Page) = Refused =>
    \/ \E f, g \in DOMAIN Page : f # g /\ Page[f].tag = Page[g].tag
    \/ \E f \in DOMAIN Page : \E r \in Held(rows) :
         /\ rows[r].tag = Page[f].tag /\ rows[r].from # f
         /\ rows[r].from # Hand \/ f \in {rows[s].from : s \in Held(rows)}

(* "A tag somebody typed by hand, or one another synced release already     *)
(* holds.  Left exactly as it is" (writeFoundReleases): a new release whose *)
(* tag a synced one holds, which the forge no longer has, does not stop the *)
(* sync.                                                                    *)
AHeldTagIsLeftAsItIs ==
  \A f \in DOMAIN Page : \A r \in Held(rows) :
    /\ rows[r].tag = Page[f].tag /\ rows[r].from \in Issued /\ forge[rows[r].from] = Nothing
    /\ \A s \in Held(rows) : rows[s].from # f
    => Written(rows, Page) # Refused
=============================================================================

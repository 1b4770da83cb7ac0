------------------------------- MODULE Access -------------------------------
(***************************************************************************)
(* The people of an install and what they may do: roles, suspensions,      *)
(* sign-ins and sessions, agents and their keys, teams, permission groups, *)
(* who is on which project, and the recycle bin behind teams and groups.   *)
(* A command is authorised before its transaction opens.  Where somebody's *)
(* own standing is at stake that moment is kept: requests past it may be   *)
(* as late as they like, a change of role or status is decided and then    *)
(* written, and a sign-in has its password checked and then its session.   *)
(***************************************************************************)
EXTENDS Authority, FiniteSets, SequencesExt

CONSTANTS Agent,       \* members of the install that are programs
          First,       \* the person setup made
          Second,      \* another owner, where setup was long ago
          Given,       \* roles that are handed out
          Ruled,       \* actions rules are written about
          NoRole,      \* somebody not on the install yet
          Nobody,      \* owner_user_id is null
          MostDeletes  \* bound: deletes there may be

ASSUME AccessAssumption ==
  /\ Agent \subseteq Person
  /\ First \in Person \ Agent /\ Second \in Person \ Agent /\ First # Second
  /\ Nobody \notin Person
  /\ Given \subseteq Role /\ NoRole \notin Role
  /\ Ruled \subseteq Action
  /\ {"user.manage", "team.manage", "agent.create", "agent.issueKey", "agent.revokeKey",
      "member.invite", "member.remove", "project.create", "project.archive",
      "recovery.restore", "recovery.purge"} \subseteq Action
  /\ MinimumLevel["user.manage"] = None
  /\ MostDeletes \in Nat

VARIABLES owner,       \* install_settings.owner_user_id
          role,        \* membership.role
          active,      \* whose app_user.status is active
          asked,       \* who has had a request past authoriseAdmin
          deciding,    \* changes of a role or status decided and not yet written
          overlapped,  \* whether two of those were ever under way at once
          checking,    \* sign-ins and changes of password past their check
          sessions,    \* session rows
          keys,        \* agents with an api_token not revoked
          tables, archived, bin, deletes

standing == <<owner, role, active, asked, deciding, overlapped>>
doors == <<checking, sessions, keys>>
places == <<tables, archived, bin, deletes>>
vars == <<owner, role, active, asked, deciding, overlapped, checking, sessions, keys,
          tables, archived, bin, deletes>>

Installed == {p \in Person : role[p] # NoRole}

Admins == {p \in active : role[p] = "owner"}

(* The install as setup leaves it, or one older than 0037: its first owner  *)
(* may be suspended by then, and need not be written down.                  *)
Init ==
  /\ \/ /\ role = [p \in Person |-> IF p = First THEN "owner" ELSE NoRole]
        /\ active = {First} /\ owner = First
     \/ /\ role = [p \in Person |-> IF p \in {First, Second} THEN "owner" ELSE NoRole]
        /\ active \in {{Second}, {First, Second}} /\ owner \in {First, Nobody}
  /\ asked = {} /\ deciding = {} /\ overlapped = FALSE
  /\ checking = {} /\ sessions = {} /\ keys = {}
  /\ tables = Nothing /\ archived = {} /\ bin = {} /\ deletes = 0

-----------------------------------------------------------------------------
(* The doors.                                                               *)

(* A sign-in has read the user, and a change of password has compared the   *)
(* current one.  Stale says that what they read has been superseded.        *)
Check(p, for) ==
  /\ p \in active \ Agent
  /\ for = "change" => \E s \in sessions : s.of = p
  /\ checking' = checking \union {[of |-> p, for |-> for, stale |-> FALSE]}
  /\ UNCHANGED <<standing, places, sessions, keys>>

Issued(c) == [of |-> c.of, stale |-> c.stale, late |-> c.stale]

Superseded(S, p) == {IF c.of = p THEN [c EXCEPT !.stale = TRUE] ELSE c : c \in S}

SignIn(c) ==
  /\ c \in checking /\ c.for = "signIn"
  /\ checking' = checking \ {c}
  /\ sessions' = sessions \union {Issued(c)}
  /\ UNCHANGED <<standing, places, keys>>

(* Every session ends, and this one is issued again.                        *)
ChangePassword(c) ==
  /\ c \in checking /\ c.for = "change"
  /\ checking' = Superseded(checking \ {c}, c.of)
  /\ sessions' = {s \in sessions : s.of # c.of} \union {Issued(c)}
  /\ UNCHANGED <<standing, places, keys>>

(* Signed out, or past its end.                                             *)
EndSession(s) ==
  /\ s \in sessions
  /\ sessions' = sessions \ {s}
  /\ UNCHANGED <<standing, places, checking, keys>>

(* findActorForSessionToken and findActorForApiToken.                       *)
Answered(p) == p \in active /\ (p \in keys \/ \E s \in sessions : s.of = p)

MayDo(p, a, level) == Can(role[p], Decide(tables, p, a), a, level)

(* Outside any project there is nothing to be short of.                     *)
Allowed(p, a) == Answered(p) /\ MayDo(p, a, Write)

(* A project nobody reaches is not found.                                   *)
AllowedWithin(p, a, x) ==
  LET level == ReachedLevel(tables, role[p], p, x)
  IN Answered(p) /\ level # None /\ MayDo(p, a, level)

-----------------------------------------------------------------------------
(* People.                                                                  *)

AuthoriseAdmin(p) ==
  /\ Allowed(p, "user.manage")
  /\ asked' = asked \union {p}
  /\ UNCHANGED <<owner, role, active, deciding, overlapped, doors, places>>

CreateUser(p, r) ==
  /\ p \notin Installed \union Agent
  /\ role' = [role EXCEPT ![p] = r]
  /\ active' = active \union {p}
  /\ UNCHANGED <<owner, asked, deciding, overlapped, doors, places>>

CreateAgent(p) ==
  /\ p \in Agent \ Installed
  /\ role' = [role EXCEPT ![p] = "viewer"]
  /\ active' = active \union {p}
  /\ UNCHANGED <<owner, asked, deciding, overlapped, doors, places>>

SetKey(p, held) ==
  /\ p \in Agent \intersect Installed
  /\ keys' = IF held THEN keys \union {p} ELSE keys \ {p}
  /\ UNCHANGED <<standing, places, checking, sessions>>

(* Mutant: owners are counted whether or not they are suspended.            *)
AnOwnerRemains(p) == p \in Admins => \E q \in Installed \ {p} : role[q] = "owner"

(* assertAnAdminRemains: not the only owner who is active.                  *)
AnAdminRemains(p) == p \in Admins => Admins # {p}

TakesAway(p, to) == to = "suspended" \/ (to \in Role /\ role[p] = "owner")

(* setUserRole and setUserStatus up to their write: nobody suspends         *)
(* themselves, nobody demotes or suspends the one who owns the install, and *)
(* the owners are counted before the change, under no lock.                 *)
Decided(by, p, to) ==
  /\ p \in Installed
  /\ to # role[p]
  /\ to = "suspended" => by # p
  /\ to # "active" => p # owner
  /\ TakesAway(p, to) => AnAdminRemains(p)
  /\ deciding' = deciding \union {[of |-> p, to |-> to]}
  /\ overlapped' = (overlapped \/ deciding # {})
  /\ UNCHANGED <<owner, role, active, asked, doors, places>>

SetUserRole(by, p, r) == r \in Role /\ Decided(by, p, r)

SetUserStatus(by, p, to) == to \in {"active", "suspended"} /\ Decided(by, p, to)

(* Mutant: a suspension leaves the sessions there are.                      *)
WrittenLeavingSessions(d) ==
  /\ d \in deciding
  /\ deciding' = deciding \ {d}
  /\ role' = IF d.to \in Role THEN [role EXCEPT ![d.of] = d.to] ELSE role
  /\ active' = IF d.to = "active" THEN active \union {d.of}
               ELSE IF d.to = "suspended" THEN active \ {d.of} ELSE active
  /\ sessions' = IF d.to = "suspended" THEN Superseded(sessions, d.of) ELSE sessions
  /\ checking' = IF d.to = "suspended" THEN Superseded(checking, d.of) ELSE checking
  /\ UNCHANGED <<owner, asked, overlapped, keys, places>>

Written(d) ==
  /\ d \in deciding
  /\ deciding' = deciding \ {d}
  /\ role' = IF d.to \in Role THEN [role EXCEPT ![d.of] = d.to] ELSE role
  /\ active' = IF d.to = "active" THEN active \union {d.of}
               ELSE IF d.to = "suspended" THEN active \ {d.of} ELSE active
  /\ sessions' = IF d.to = "suspended" THEN {s \in sessions : s.of # d.of} ELSE sessions
  /\ checking' = IF d.to = "suspended" THEN Superseded(checking, d.of) ELSE checking
  /\ UNCHANGED <<owner, asked, overlapped, keys, places>>

ResetUserPassword(p) ==
  /\ p \in Installed
  /\ sessions' = {s \in sessions : s.of # p}
  /\ checking' = Superseded(checking, p)
  /\ UNCHANGED <<standing, keys, places>>

-----------------------------------------------------------------------------
(* Teams, permission groups and projects: each command is authorised and    *)
(* written in one step, nothing it writes depending on the moment between.  *)

Change(t) ==
  /\ tables' = t
  /\ UNCHANGED <<standing, doors, archived, bin, deletes>>

(* A switch: pressed twice, it is where one press left it.                  *)
Switch(rows, r, held) == IF held THEN rows \union {r} ELSE rows \ {r}

IsThere(kind, x) ==
  IF kind = "team" THEN [team |-> x] \in tables.teams ELSE [group |-> x] \in tables.groups

InTheBin(kind, x) == \E e \in bin : e.kind = kind /\ e.id = x

CreateTeam(m) ==
  /\ ~IsThere("team", m) /\ ~InTheBin("team", m)
  /\ Change([tables EXCEPT !.teams = @ \union {[team |-> m]}])

CreateGroup(g) ==
  /\ ~IsThere("group", g) /\ ~InTheBin("group", g)
  /\ Change([tables EXCEPT !.groups = @ \union {[group |-> g]}])

SetPermissionRule(g, a, effect) ==
  LET others == {r \in tables.rules : r.group # g \/ r.action # a}
      rule == [group |-> g, action |-> a, effect |-> effect]
  IN /\ IsThere("group", g)
     /\ Change([tables EXCEPT !.rules = IF effect = "silence" THEN others ELSE others \union {rule}])

SetTeamGroup(m, g, held) ==
  /\ IsThere("team", m) /\ IsThere("group", g)
  /\ Change([tables EXCEPT !.teamHolds = Switch(@, [team |-> m, group |-> g], held)])

SetUserGroup(p, g, held) ==
  /\ IsThere("group", g) /\ p \in Installed
  /\ Change([tables EXCEPT !.personHolds = Switch(@, [person |-> p, group |-> g], held)])

SetTeamMember(m, p, held) ==
  /\ IsThere("team", m) /\ p \in Installed
  /\ Change([tables EXCEPT !.members = Switch(@, [team |-> m, person |-> p], held)])

CreateProject(by, x) ==
  /\ [project |-> x] \notin tables.projects
  /\ Change([tables EXCEPT !.projects = @ \union {[project |-> x]},
                           !.projectMembers = @ \union {[project |-> x, person |-> by, as |-> "owner"]}])

(* loadLiveProject.                                                         *)
Live(x) == [project |-> x] \in tables.projects /\ x \notin archived

(* Whoever is on it already stays on it as what they are.                   *)
SetProjectMember(x, p, held) ==
  LET there == {r \in tables.projectMembers : r.project = x /\ r.person = p}
      added == [project |-> x, person |-> p, as |-> "member"]
  IN /\ Live(x) /\ p \in Installed
     /\ Change([tables EXCEPT !.projectMembers =
                  IF ~held THEN @ \ there ELSE IF there # {} THEN @ ELSE @ \union {added}])

SetProjectTeam(x, m, held) ==
  /\ Live(x) /\ IsThere("team", m)
  /\ Change([tables EXCEPT !.projectTeams = Switch(@, [project |-> x, team |-> m], held)])

SetArchived(x, to) ==
  /\ [project |-> x] \in tables.projects
  /\ archived' = IF to THEN archived \union {x} ELSE archived \ {x}
  /\ UNCHANGED <<standing, doors, tables, bin, deletes>>

(* deleteTeam and deletePermissionGroup: kept first, then deleted.          *)
Delete(kind, x) ==
  /\ IsThere(kind, x)
  /\ deletes < MostDeletes
  /\ deletes' = deletes + 1
  /\ bin' = bin \union
       {[kind |-> kind, id |-> x, date |-> deletes, rows |-> Gathered(tables, kind, x)]}
  /\ tables' = Without(tables, kind, x)
  /\ UNCHANGED <<standing, doors, archived>>

Restore(e) ==
  /\ e \in bin
  /\ bin' = bin \ {e}
  /\ tables' = Restored(tables, e.rows)
  /\ UNCHANGED <<standing, doors, archived, deletes>>

(* By hand, or by purgeExpired once it is past its date.                    *)
Purge(e) ==
  /\ e \in bin
  /\ bin' = bin \ {e}
  /\ UNCHANGED <<standing, doors, tables, archived, deletes>>

-----------------------------------------------------------------------------
(* authoriseAdmin of manage-users.ts, some time ago, and of agents.ts.      *)
ManageUsers(by) ==
  /\ by \in asked
  /\ \E p \in Person :
       \/ \E r \in Given : CreateUser(p, r) \/ SetUserRole(by, p, r)
       \/ \E to \in {"active", "suspended"} : SetUserStatus(by, p, to)
       \/ ResetUserPassword(p)

ManageAgents(by) ==
  \/ Allowed(by, "agent.create") /\ \E p \in Person : CreateAgent(p)
  \/ Allowed(by, "agent.issueKey") /\ \E p \in Person : SetKey(p, TRUE)
  \/ Allowed(by, "agent.revokeKey") /\ \E p \in Person : SetKey(p, FALSE)

(* authoriseAdmin of team-commands.ts and permission-commands.ts.           *)
ManageTeams(by) ==
  /\ Allowed(by, "team.manage")
  /\ \/ \E m \in Team : CreateTeam(m) \/ Delete("team", m)
     \/ \E g \in Group : CreateGroup(g) \/ Delete("group", g)
     \/ \E g \in Group, a \in Ruled, f \in {"allow", "deny", "silence"} : SetPermissionRule(g, a, f)
     \/ \E held \in BOOLEAN :
          \/ \E m \in Team, g \in Group : SetTeamGroup(m, g, held)
          \/ \E p \in Person, g \in Group : SetUserGroup(p, g, held)
          \/ \E p \in Person, m \in Team : SetTeamMember(m, p, held)

(* authoriseWithinProject for who is on one.                                *)
ManageProjects(by) ==
  \/ Allowed(by, "project.create") /\ \E x \in Project : CreateProject(by, x)
  \/ Allowed(by, "project.archive") /\ \E x \in Project, to \in BOOLEAN : SetArchived(x, to)
  \/ \E x \in Project, held \in BOOLEAN :
       /\ AllowedWithin(by, IF held THEN "member.invite" ELSE "member.remove", x)
       /\ \/ \E p \in Person : SetProjectMember(x, p, held)
          \/ \E m \in Team : SetProjectTeam(x, m, held)

Recover(by) ==
  \/ Allowed(by, "recovery.restore") /\ \E e \in bin : Restore(e)
  \/ Allowed(by, "recovery.purge") /\ \E e \in bin : Purge(e)

PurgeExpired == \E e \in bin : (\A f \in bin : e.date <= f.date) /\ Purge(e)

Next ==
  \/ \E p \in Person : Check(p, "signIn") \/ Check(p, "change")
  \/ \E c \in checking : SignIn(c) \/ ChangePassword(c)
  \/ \E s \in sessions : EndSession(s)
  \/ \E by \in Installed :
       AuthoriseAdmin(by) \/ ManageUsers(by) \/ ManageAgents(by) \/ ManageTeams(by)
         \/ ManageProjects(by) \/ Recover(by)
  \/ \E d \in deciding : Written(d)
  \/ PurgeExpired

Spec == Init /\ [][Next]_vars

-----------------------------------------------------------------------------
(* Properties.                                                              *)

TypeOK ==
  /\ owner \in Person \union {Nobody}
  /\ role \in [Person -> Role \union {NoRole}]
  /\ active \subseteq Installed
  /\ asked \subseteq Person
  /\ deciding \subseteq [of : Installed, to : Role \union {"active", "suspended"}]
  /\ overlapped \in BOOLEAN
  /\ checking \subseteq [of : Person \ Agent, for : {"signIn", "change"}, stale : BOOLEAN]
  /\ sessions \subseteq [of : Person \ Agent, stale : BOOLEAN, late : BOOLEAN]
  /\ keys \subseteq Agent
  /\ tables \in Table
  /\ archived \subseteq Project
  /\ deletes \in 0 .. MostDeletes

(* "Refuses a change that would leave nobody able to administer the         *)
(* install", and "a group cannot narrow" an owner: whatever is demoted,     *)
(* suspended, denied, deleted or restored, somebody active may manage the   *)
(* install's people.  Only two changes under way at once, each counting the *)
(* other's owner, could leave nobody, and then only where no owner is       *)
(* written down or that one is suspended.                                   *)
SomebodyCanAdminister ==
  (overlapped /\ owner \notin active) \/ \E p \in active : MayDo(p, "user.manage", Write)

(* "A reset that leaves the old session alive protects nobody", and one     *)
(* that is suspended is not still signed in: a session goes with the        *)
(* password or the standing it was issued on.  The one that outlives them   *)
(* is a sign-in that had been checked before and was written after.         *)
SessionsEndWithTheirPassword == \A s \in sessions : s.stale => s.late

Things == {<<"team", m>> : m \in Team} \union {<<"group", g>> : g \in Group}

Oldest(S) == CHOOSE e \in S : \A f \in S : e.date <= f.date

(* Newest first: of any entries, the oldest is put back after the others.   *)
AllBack == MapThenFoldSet(LAMBDA e, t : Restored(t, e.rows), tables, LAMBDA e : e, Oldest, bin)

(* "Puts a thing back where it was": a team or a group deleted and restored *)
(* at once leaves every rule, hold, member and project as they were; and    *)
(* what the bin holds loses nothing if it is put back newest first, though  *)
(* a hold between two deleted things is kept with only one of them.         *)
RestoringUndoesDeleting ==
  /\ \A thing \in Things :
       IsThere(thing[1], thing[2]) =>
         Restored(Without(tables, thing[1], thing[2]), Gathered(tables, thing[1], thing[2])) = tables
  /\ LET back == AllBack
     IN \A e \in bin : \A k \in DOMAIN e.rows : \A r \in e.rows[k] : Stands(back, r) => r \in back[k]
=============================================================================

------------------------------ MODULE Authority ------------------------------
(***************************************************************************)
(* Who may do what, and where: the rows that say it, the question every    *)
(* handler asks of them, and what deleting a team or a permission group    *)
(* takes away and a restore gives back.  No state of its own: the rows are *)
(* a record of tables, a table is a set of rows, and a row is a record of  *)
(* what it is about.                                                       *)
(***************************************************************************)
EXTENDS Integers

CONSTANTS Person, Team, Group, Project,
          Action,        \* permittedActions
          MinimumRole,   \* minimumRoleByAction
          MinimumLevel   \* minimumLevelByAction, as a number

Role == {"owner", "lead", "member", "outsourcer", "viewer"}

Rank == [owner |-> 40, lead |-> 30, member |-> 20, viewer |-> 10]

None == 0
Read == 1
Write == 2

ASSUME AuthorityAssumption ==
  /\ MinimumRole \in [Action -> Role \ {"outsourcer"}]
  /\ MinimumLevel \in [Action -> {None, Read, Write}]

-----------------------------------------------------------------------------
(* The tables.                                                              *)

Table ==
  [teams : SUBSET [team : Team],
   groups : SUBSET [group : Group],
   projects : SUBSET [project : Project],
   rules : SUBSET [group : Group, action : Action, effect : {"allow", "deny"}],
   teamHolds : SUBSET [team : Team, group : Group],
   personHolds : SUBSET [person : Person, group : Group],
   members : SUBSET [team : Team, person : Person],
   projectTeams : SUBSET [project : Project, team : Team],
   projectMembers : SUBSET [project : Project, person : Person, as : {"owner", "member"}]]

Nothing ==
  [teams |-> {}, groups |-> {}, projects |-> {}, rules |-> {}, teamHolds |-> {},
   personHolds |-> {}, members |-> {}, projectTeams |-> {}, projectMembers |-> {}]

Is(r, kind, x) == kind \in DOMAIN r /\ r[kind] = x

(* The rows of a table about one team or one group.                         *)
About(rows, kind, x) == {r \in rows : Is(r, kind, x)}

(* The foreign keys of team and permission_group cascade.                   *)
Without(t, kind, x) == [k \in DOMAIN t |-> t[k] \ About(t[k], kind, x)]

(* Mutant: a team or group is kept without its people.                      *)
RecipeWithoutPeople(kind) ==
  IF kind = "team" THEN {"teams", "teamHolds", "projectTeams"}
                   ELSE {"groups", "rules", "teamHolds"}

(* RECIPES: the tables a thing is kept from.                                *)
Recipe(kind) ==
  IF kind = "team" THEN {"teams", "members", "teamHolds", "projectTeams"}
                   ELSE {"groups", "rules", "teamHolds", "personHolds"}

Gathered(t, kind, x) == [k \in Recipe(kind) |-> About(t[k], kind, x)]

(* What a row hangs on is there: the "needs" of its part.                   *)
Stands(t, r) ==
  /\ "team" \in DOMAIN r => [team |-> r.team] \in t.teams
  /\ "group" \in DOMAIN r => [group |-> r.group] \in t.groups

(* restoreFrom: every row kept, but for those whose other end has gone.     *)
Restored(t, rows) ==
  LET all == [k \in DOMAIN t |-> t[k] \union (IF k \in DOMAIN rows THEN rows[k] ELSE {})]
  IN [k \in DOMAIN t |-> {r \in all[k] : Stands(all, r)}]

-----------------------------------------------------------------------------
(* The question.                                                            *)

HasAtLeastRole(role, required) ==
  IF "outsourcer" \in {role, required} THEN role = required ELSE Rank[role] >= Rank[required]

(* settle: deny wins among statements of one kind, and none is silence.     *)
Settle(effects) ==
  IF effects = {} THEN "silence" ELSE IF "deny" \in effects THEN "deny" ELSE "allow"

(* RULES_REACHING_THIS_PERSON, about one action.                            *)
EffectsByName(t, p, a) ==
  {r.effect : r \in {s \in t.rules : s.action = a /\ [person |-> p, group |-> s.group] \in t.personHolds}}

EffectsThroughTeams(t, p, a) ==
  {r.effect : r \in {s \in t.rules :
     s.action = a /\ \E m \in t.members :
                       m.person = p /\ [team |-> m.team, group |-> s.group] \in t.teamHolds}}

(* decide: what is said of somebody by name is read before what is said of  *)
(* their teams.                                                             *)
Decide(t, p, a) ==
  IF EffectsByName(t, p, a) # {}
  THEN Settle(EffectsByName(t, p, a))
  ELSE Settle(EffectsThroughTeams(t, p, a))

(* Mutant: a denial applies to an owner too.                                *)
CanUnlessDenied(role, verdict, a, level) ==
  /\ role # "outsourcer"
  /\ verdict # "deny"
  /\ verdict = "allow" \/ HasAtLeastRole(role, MinimumRole[a])
  /\ level >= MinimumLevel[a]

(* can, with the level reached of the project in question, or Write where   *)
(* there is none.  An outsourcer is allowed what is shared with them, and   *)
(* no caller of the policy names a shared card.                             *)
Can(role, verdict, a, level) ==
  /\ role # "outsourcer"
  /\ verdict = "deny" => role = "owner"
  /\ verdict = "allow" \/ HasAtLeastRole(role, MinimumRole[a])
  /\ level >= MinimumLevel[a]

(* reachedLevel: the most generous of the role, a place on the project and  *)
(* a place in a team that is on it.  Nobody is put on one as a viewer.      *)
OnTheProject(t, p, x) ==
  \/ \E m \in t.projectMembers : m.project = x /\ m.person = p
  \/ \E m \in t.members : m.person = p /\ [project |-> x, team |-> m.team] \in t.projectTeams

ReachedLevel(t, role, p, x) ==
  IF HasAtLeastRole(role, "lead") \/ OnTheProject(t, p, x) THEN Write ELSE None
=============================================================================

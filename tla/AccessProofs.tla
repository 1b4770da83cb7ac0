---------------------------- MODULE AccessProofs ----------------------------
(***************************************************************************)
(* What is proved of the people of an install and their permissions: types *)
(* hold, somebody can always administer the install, a session ends with   *)
(* its password, and a restore gives back what a delete took.              *)
(***************************************************************************)
EXTENDS Access, FiniteInduction

-----------------------------------------------------------------------------
(* The tables, as a function of their names: what a table is made of, what  *)
(* of it is about a team or a group, and what a recipe finds.               *)

Kind == {"team", "group"}

TableName == {"teams", "groups", "projects", "rules", "teamHolds", "personHolds", "members",
         "projectTeams", "projectMembers"}

Column ==
  [teams |-> [team : Team],
   groups |-> [group : Group],
   projects |-> [project : Project],
   rules |-> [group : Group, action : Action, effect : {"allow", "deny"}],
   teamHolds |-> [team : Team, group : Group],
   personHolds |-> [person : Person, group : Group],
   members |-> [team : Team, person : Person],
   projectTeams |-> [project : Project, team : Team],
   projectMembers |-> [project : Project, person : Person, as : {"owner", "member"}]]

(* A table is a function of those names, each to rows of its own kind.      *)
LEMMA TableIsAFunction ==
  ASSUME NEW t
  PROVE  t \in Table <=> /\ t = [k \in TableName |-> t[k]]
                         /\ \A k \in TableName : t[k] \subseteq Column[k]
<1>1. ASSUME t \in Table PROVE t = [k \in TableName |-> t[k]]
  <2>1. DOMAIN t = TableName
    BY <1>1 DEF Table, TableName
  <2>2. t = [k \in DOMAIN t |-> t[k]]
    BY <1>1 DEF Table
  <2> QED
    BY <2>1, <2>2
<1>2. ASSUME t \in Table PROVE \A k \in TableName : t[k] \subseteq Column[k]
  <2>1. /\ t.teams \subseteq Column.teams /\ t.groups \subseteq Column.groups
        /\ t.projects \subseteq Column.projects /\ t.rules \subseteq Column.rules
        /\ t.teamHolds \subseteq Column.teamHolds /\ t.personHolds \subseteq Column.personHolds
        /\ t.members \subseteq Column.members /\ t.projectTeams \subseteq Column.projectTeams
        /\ t.projectMembers \subseteq Column.projectMembers
    BY <1>2 DEF Table, Column
  <2> QED
    BY <2>1 DEF TableName
<1>3. ASSUME t = [k \in TableName |-> t[k]], \A k \in TableName : t[k] \subseteq Column[k]
      PROVE  t \in Table
  <2>1. t = [teams |-> t.teams, groups |-> t.groups, projects |-> t.projects, rules |-> t.rules,
             teamHolds |-> t.teamHolds, personHolds |-> t.personHolds, members |-> t.members,
             projectTeams |-> t.projectTeams, projectMembers |-> t.projectMembers]
    BY <1>3 DEF TableName
  <2>2. /\ t.teams \subseteq Column.teams /\ t.groups \subseteq Column.groups
        /\ t.projects \subseteq Column.projects /\ t.rules \subseteq Column.rules
        /\ t.teamHolds \subseteq Column.teamHolds /\ t.personHolds \subseteq Column.personHolds
        /\ t.members \subseteq Column.members /\ t.projectTeams \subseteq Column.projectTeams
        /\ t.projectMembers \subseteq Column.projectMembers
    BY <1>3 DEF TableName
  <2> QED
    BY <2>1, <2>2 DEF Table, Column
<1> QED
  BY <1>1, <1>2, <1>3

(* A row has a team, or a group, in exactly the tables the recipe for one   *)
(* gathers from.                                                            *)
LEMMA ColumnRow ==
  ASSUME NEW k \in TableName, NEW r \in Column[k], NEW kind \in Kind
  PROVE  /\ kind \in DOMAIN r <=> k \in Recipe(kind)
         /\ "team" \in DOMAIN r => r.team \in Team
         /\ "group" \in DOMAIN r => r.group \in Group
<1>1. CASE k = "teams"
  BY <1>1 DEF Column, Kind, Recipe
<1>2. CASE k = "groups"
  BY <1>2 DEF Column, Kind, Recipe
<1>3. CASE k = "projects"
  BY <1>3 DEF Column, Kind, Recipe
<1>4. CASE k = "rules"
  BY <1>4 DEF Column, Kind, Recipe
<1>5. CASE k = "teamHolds"
  BY <1>5 DEF Column, Kind, Recipe
<1>6. CASE k = "personHolds"
  BY <1>6 DEF Column, Kind, Recipe
<1>7. CASE k = "members"
  BY <1>7 DEF Column, Kind, Recipe
<1>8. CASE k = "projectTeams"
  BY <1>8 DEF Column, Kind, Recipe
<1>9. CASE k = "projectMembers"
  BY <1>9 DEF Column, Kind, Recipe
<1> QED
  BY <1>1, <1>2, <1>3, <1>4, <1>5, <1>6, <1>7, <1>8, <1>9 DEF TableName

LEMMA RecipeInName ==
  ASSUME NEW kind \in Kind
  PROVE  Recipe(kind) \subseteq TableName
  BY DEF Kind, Recipe, TableName

(* How a function is shown to be one.                                       *)
LEMMA ATable ==
  ASSUME NEW f, NEW t, t = [k \in TableName |-> f[k]], \A k \in TableName : f[k] \subseteq Column[k]
  PROVE  t \in Table /\ \A k \in TableName : t[k] = f[k]
<1>1. t = [k \in TableName |-> t[k]] /\ \A k \in TableName : t[k] = f[k]
  OBVIOUS
<1> QED
  BY <1>1, TableIsAFunction

-----------------------------------------------------------------------------
(* Every foreign key of every row leads somewhere.                          *)
RowsStand(t) == \A k \in TableName : \A r \in t[k] : Stands(t, r)

(* IsThere, of any tables.                                                  *)
There(t, kind, x) == IF kind = "team" THEN [team |-> x] \in t.teams ELSE [group |-> x] \in t.groups

(* What a delete has kept of a team or a group.                             *)
Kept(rows, kind, x) ==
  /\ DOMAIN rows = Recipe(kind)
  /\ \A k \in Recipe(kind) : rows[k] \subseteq Column[k] /\ \A r \in rows[k] : Is(r, kind, x)

(* What a delete leaves: nothing that hung on what it took.                 *)
LEMMA WithoutLeaves ==
  ASSUME NEW t \in Table, NEW kind \in Kind, NEW x
  PROVE  /\ Without(t, kind, x) \in Table
         /\ \A k \in TableName : Without(t, kind, x)[k] = t[k] \ About(t[k], kind, x)
         /\ RowsStand(t) => RowsStand(Without(t, kind, x))
         /\ ~There(Without(t, kind, x), kind, x)
         /\ \A of \in Kind : \A y : There(Without(t, kind, x), of, y) => There(t, of, y)
<1> DEFINE W == Without(t, kind, x)
<1>1. DOMAIN t = TableName /\ \A k \in TableName : t[k] \subseteq Column[k]
  BY TableIsAFunction
<1>2. /\ W \in Table
      /\ \A k \in TableName : W[k] = t[k] \ About(t[k], kind, x)
  <2> DEFINE f == [k \in TableName |-> t[k] \ About(t[k], kind, x)]
  <2>1. W = [k \in TableName |-> f[k]]
    BY <1>1 DEF Without
  <2>2. \A k \in TableName : f[k] \subseteq Column[k]
    BY <1>1
  <2> HIDE DEF W
  <2>3. W \in Table /\ \A k \in TableName : W[k] = f[k]
    <3> HIDE DEF f
    <3> QED
      BY <2>1, <2>2, ATable
  <2> QED
    BY <2>3
<1> HIDE DEF W
<1>3. ASSUME RowsStand(t) PROVE RowsStand(W)
  <2> SUFFICES ASSUME NEW k \in TableName, NEW r \in W[k] PROVE Stands(W, r)
    BY DEF RowsStand
  <2>1. r \in t[k] /\ ~Is(r, kind, x) /\ Stands(t, r)
    BY <1>2, <1>3 DEF RowsStand, About
  <2>2. W.teams = t.teams \ About(t.teams, kind, x) /\ W.groups = t.groups \ About(t.groups, kind, x)
    BY <1>2 DEF TableName
  <2>3. "team" \in DOMAIN r => [team |-> r.team] \in W.teams
    BY <2>1, <2>2 DEF Stands, About, Is, Kind
  <2>4. "group" \in DOMAIN r => [group |-> r.group] \in W.groups
    BY <2>1, <2>2 DEF Stands, About, Is, Kind
  <2> QED
    BY <2>3, <2>4 DEF Stands
<1>4. W.teams = t.teams \ About(t.teams, kind, x) /\ W.groups = t.groups \ About(t.groups, kind, x)
  BY <1>2 DEF TableName
<1>5. ~There(W, kind, x)
  BY <1>4 DEF There, About, Is, Kind
<1>6. \A of \in Kind : \A y : There(W, of, y) => There(t, of, y)
  BY <1>4 DEF There
<1> QED
  BY <1>2, <1>3, <1>5, <1>6 DEF W

(* What a delete keeps.                                                     *)
LEMMA GatheredIsKept ==
  ASSUME NEW t \in Table, NEW kind \in Kind, NEW x
  PROVE  /\ Kept(Gathered(t, kind, x), kind, x)
         /\ \A k \in Recipe(kind) : Gathered(t, kind, x)[k] = About(t[k], kind, x)
<1>1. \A k \in Recipe(kind) : t[k] \subseteq Column[k]
  BY TableIsAFunction, RecipeInName
<1> QED
  BY <1>1 DEF Kept, Gathered, About

(* What a restore gives: all there was, the thing itself, and every row     *)
(* kept whose other end is there.                                           *)
LEMMA RestoredGives ==
  ASSUME NEW t \in Table, NEW kind \in Kind, NEW x, NEW rows, Kept(rows, kind, x)
  PROVE  /\ Restored(t, rows) \in Table
         /\ RowsStand(t) => RowsStand(Restored(t, rows)) /\ \A k \in TableName : t[k] \subseteq Restored(t, rows)[k]
         /\ \A of \in Kind : \A y : There(Restored(t, rows), of, y) => There(t, of, y) \/ (of = kind /\ y = x)
         /\ \A k \in DOMAIN rows : \A r \in rows[k] :
              Stands(Restored(t, rows), r) => r \in Restored(t, rows)[k]
<1> DEFINE More(k) == IF k \in DOMAIN rows THEN rows[k] ELSE {}
           all == [k \in DOMAIN t |-> t[k] \union More(k)]
           R == Restored(t, rows)
<1>1. DOMAIN t = TableName /\ \A k \in TableName : t[k] \subseteq Column[k]
  BY TableIsAFunction
<1>2. \A k \in TableName : More(k) \subseteq Column[k] /\ \A r \in More(k) : Is(r, kind, x)
  BY DEF Kept
<1>3. DOMAIN rows \subseteq TableName /\ \A k \in DOMAIN rows : More(k) = rows[k]
  BY RecipeInName DEF Kept
<1>4. R = [k \in DOMAIN t |-> {r \in all[k] : Stands(all, r)}]
  BY DEF Restored
<1> HIDE DEF More, R
<1>5. \A k \in TableName : all[k] = t[k] \union More(k)
  BY <1>1
<1>6. DOMAIN all = TableName
  BY <1>1
<1> HIDE DEF all
<1>7. R \in Table /\ \A k \in TableName : R[k] = {r \in all[k] : Stands(all, r)}
  <2> DEFINE f == [k \in TableName |-> {r \in all[k] : Stands(all, r)}]
  <2>1. R = [k \in TableName |-> f[k]]
    BY <1>1, <1>4
  <2>2. \A k \in TableName : f[k] \subseteq Column[k]
    BY <1>1, <1>2, <1>5
  <2>3. R \in Table /\ \A k \in TableName : R[k] = f[k]
    <3> HIDE DEF f
    <3> QED
      BY <2>1, <2>2, ATable
  <2> QED
    BY <2>3
<1>8. /\ R.teams = {r \in all.teams : Stands(all, r)}
      /\ R.groups = {r \in all.groups : Stands(all, r)}
      /\ all.teams = t.teams \union More("teams")
      /\ all.groups = t.groups \union More("groups")
  BY <1>5, <1>7 DEF TableName
<1>9. \A y : /\ [team |-> y] \in all.teams => [team |-> y] \in R.teams
             /\ [group |-> y] \in all.groups => [group |-> y] \in R.groups
  BY <1>8 DEF Stands
<1>10. ASSUME NEW k \in TableName, NEW r \in R[k] PROVE Stands(R, r)
  <2>1. Stands(all, r)
    BY <1>7, <1>10
  <2> QED
    BY <2>1, <1>9 DEF Stands
<1>11. ASSUME RowsStand(t), NEW k \in TableName, NEW r \in t[k] PROVE r \in R[k]
  <2>1. Stands(t, r)
    BY <1>11 DEF RowsStand
  <2>2. Stands(all, r)
    BY <2>1, <1>8 DEF Stands
  <2> QED
    BY <2>2, <1>5, <1>7
<1>12. ASSUME NEW of \in Kind, NEW y, There(R, of, y) PROVE There(t, of, y) \/ (of = kind /\ y = x)
  <2>1. CASE of = "team"
    <3>1. [team |-> y] \in t.teams \union More("teams")
      BY <2>1, <1>8, <1>12 DEF There
    <3>2. [team |-> y] \in More("teams") => Is([team |-> y], kind, x)
      BY <1>2 DEF TableName
    <3>3. Is([team |-> y], kind, x) => kind = "team" /\ y = x
      BY DEF Is
    <3> QED
      BY <2>1, <3>1, <3>2, <3>3 DEF There
  <2>2. CASE of = "group"
    <3>1. [group |-> y] \in t.groups \union More("groups")
      BY <2>2, <1>8, <1>12 DEF There
    <3>2. [group |-> y] \in More("groups") => Is([group |-> y], kind, x)
      BY <1>2 DEF TableName
    <3>3. Is([group |-> y], kind, x) => kind = "group" /\ y = x
      BY DEF Is
    <3> QED
      BY <2>2, <3>1, <3>2, <3>3 DEF There
  <2> QED
    BY <2>1, <2>2 DEF Kind
<1>13. ASSUME NEW k \in DOMAIN rows, NEW r \in rows[k], Stands(R, r) PROVE r \in R[k]
  <2>1. Stands(all, r)
    BY <1>8, <1>13 DEF Stands
  <2>2. r \in all[k] /\ k \in TableName
    BY <1>3, <1>5, <1>13
  <2> QED
    BY <2>1, <2>2, <1>7
<1> QED
  BY <1>7, <1>10, <1>11, <1>12, <1>13 DEF RowsStand, R

(* Nothing else having happened, a restore undoes a delete.                 *)
LEMMA ADeleteIsUndone ==
  ASSUME NEW t \in Table, RowsStand(t), NEW kind \in Kind, NEW x
  PROVE  Restored(Without(t, kind, x), Gathered(t, kind, x)) = t
<1> DEFINE W == Without(t, kind, x)
           G == Gathered(t, kind, x)
           all == [k \in DOMAIN W |-> W[k] \union (IF k \in DOMAIN G THEN G[k] ELSE {})]
<1>1. t = [k \in TableName |-> t[k]] /\ \A k \in TableName : t[k] \subseteq Column[k]
  BY TableIsAFunction
<1>2. W \in Table /\ \A k \in TableName : W[k] = t[k] \ About(t[k], kind, x)
  BY WithoutLeaves
<1>3. DOMAIN W = TableName
  <2> HIDE DEF W
  <2> QED
    BY <1>2, TableIsAFunction
<1>4. DOMAIN G = Recipe(kind) /\ \A k \in Recipe(kind) : G[k] = About(t[k], kind, x)
  BY DEF Gathered
<1>5. ASSUME NEW k \in TableName, k \notin Recipe(kind) PROVE About(t[k], kind, x) = {}
  BY <1>1, <1>5, ColumnRow DEF About, Is
<1> HIDE DEF W, G
<1>6. ASSUME NEW k \in TableName PROVE W[k] \union (IF k \in DOMAIN G THEN G[k] ELSE {}) = t[k]
  BY <1>2, <1>4, <1>5 DEF About
<1>7. all = t
  BY <1>1, <1>3, <1>6
<1>8. Restored(W, G) = [k \in DOMAIN W |-> {r \in all[k] : Stands(all, r)}]
  BY DEF Restored
<1> HIDE DEF all
<1>9. \A k \in TableName : {r \in t[k] : Stands(t, r)} = t[k]
  BY DEF RowsStand
<1> QED
  BY <1>1, <1>3, <1>7, <1>8, <1>9 DEF W, G

(* The tables whose rows others hang on.                                    *)
HoldsThings(c) == c \in {"teams", "groups"}

(* One table written, with rows that stand and without losing what others   *)
(* hang on.                                                                 *)
LEMMA AColumnWritten ==
  ASSUME NEW t \in Table, NEW c \in TableName, NEW S \in SUBSET Column[c],
         HoldsThings(c) => t[c] \subseteq S,
         \A r \in S : HoldsThings(c) \/ r \in t[c] \/ Stands(t, r),
         NEW u, u = [t EXCEPT ![c] = S]
  PROVE  /\ u \in Table
         /\ RowsStand(t) => RowsStand(u)
         /\ \A of \in Kind : \A y : There(u, of, y) =>
              \/ There(t, of, y)
              \/ c = "teams" /\ of = "team" /\ [team |-> y] \in S
              \/ c = "groups" /\ of = "group" /\ [group |-> y] \in S
<1>1. t = [k \in TableName |-> t[k]] /\ \A k \in TableName : t[k] \subseteq Column[k]
  BY TableIsAFunction
<1>2. u \in Table /\ \A k \in TableName : u[k] = IF k = c THEN S ELSE t[k]
  <2> DEFINE f == [k \in TableName |-> IF k = c THEN S ELSE t[k]]
  <2>1. u = [k \in TableName |-> f[k]]
    BY <1>1
  <2>2. \A k \in TableName : f[k] \subseteq Column[k]
    BY <1>1
  <2>3. u \in Table /\ \A k \in TableName : u[k] = f[k]
    <3> HIDE DEF f
    <3> QED
      BY <2>1, <2>2, ATable
  <2> QED
    BY <2>3
<1>3. /\ u.teams = IF c = "teams" THEN S ELSE t.teams
      /\ u.groups = IF c = "groups" THEN S ELSE t.groups
      /\ t.teams \subseteq u.teams /\ t.groups \subseteq u.groups
  BY <1>2 DEF TableName, HoldsThings
<1>4. ASSUME RowsStand(t), NEW k \in TableName, NEW r \in u[k] PROVE Stands(u, r)
  <2>1. CASE Stands(t, r)
    BY <2>1, <1>3 DEF Stands
  <2>2. CASE r \in t[k]
    BY <2>1, <2>2, <1>4 DEF RowsStand
  <2>3. CASE k = c /\ c = "teams"
    <3>1. r \in [team : Team] /\ r \in u.teams
      BY <1>2, <1>4, <2>3 DEF Column
    <3> QED
      BY <3>1 DEF Stands
  <2>4. CASE k = c /\ c = "groups"
    <3>1. r \in [group : Group] /\ r \in u.groups
      BY <1>2, <1>4, <2>4 DEF Column
    <3> QED
      BY <3>1 DEF Stands
  <2> QED
    BY <1>2, <1>4, <2>1, <2>2, <2>3, <2>4 DEF HoldsThings
<1>5. \A of \in Kind : \A y : There(u, of, y) =>
        \/ There(t, of, y)
        \/ c = "teams" /\ of = "team" /\ [team |-> y] \in S
        \/ c = "groups" /\ of = "group" /\ [group |-> y] \in S
  BY <1>3 DEF There, Kind
<1>6. RowsStand(t) => RowsStand(u)
  BY <1>4 DEF RowsStand
<1> QED
  BY <1>2, <1>5, <1>6

-----------------------------------------------------------------------------
(* What a command may make of the tables: nothing that is in the bin.       *)
MayBecome(t) ==
  /\ t \in Table
  /\ RowsStand(tables) => RowsStand(t)
  /\ \A of \in Kind : \A y : There(t, of, y) => There(tables, of, y) \/ ~InTheBin(of, y)

(* It may become what it is with a table written that nothing hangs on.     *)
LEMMA ATableOfOthersWritten ==
  ASSUME tables \in Table, NEW c \in TableName, ~HoldsThings(c), NEW S \in SUBSET Column[c],
         \A r \in S : r \in tables[c] \/ Stands(tables, r),
         NEW u, u = [tables EXCEPT ![c] = S]
  PROVE  MayBecome(u)
<1>1. /\ u \in Table /\ (RowsStand(tables) => RowsStand(u))
      /\ \A of \in Kind : \A y : There(u, of, y) => There(tables, of, y)
  BY AColumnWritten DEF HoldsThings
<1> QED
  BY <1>1 DEF MayBecome

(* Every command about teams and groups that is not a delete does.          *)
LEMMA TeamsWritten ==
  ASSUME tables \in Table, NEW by, ManageTeams(by)
  PROVE  \/ \E t : Change(t) /\ MayBecome(t)
         \/ \E kind \in Kind : \E x : Delete(kind, x)
<1> USE AccessAssumption
<1> DEFINE Done == \E t : Change(t) /\ MayBecome(t)
<1> SUFFICES ASSUME ~\E kind \in Kind : \E x : Delete(kind, x)
             PROVE  Done
  OBVIOUS
<1>1. \A r, rows, held : Switch(rows, r, held) \subseteq rows \union {r}
  BY DEF Switch
<1>2. ASSUME NEW m \in Team, CreateTeam(m) PROVE Done
  <2> DEFINE S == tables.teams \union {[team |-> m]}
             t == [tables EXCEPT !.teams = S]
  <2>1. S \in SUBSET Column["teams"]
    BY TableIsAFunction DEF Column, TableName
  <2>2. Change(t) /\ ~InTheBin("team", m)
    BY <1>2 DEF CreateTeam
  <2>3. t \in Table /\ (RowsStand(tables) => RowsStand(t)) /\ \A of \in Kind : \A y : There(t, of, y) =>
          There(tables, of, y) \/ (of = "team" /\ [team |-> y] \in S)
    <3>1. "teams" \in TableName /\ HoldsThings("teams") /\ tables["teams"] \subseteq S
      BY DEF TableName, HoldsThings
    <3> HIDE DEF S
    <3> QED
      BY <2>1, <3>1, AColumnWritten
  <2>4. ASSUME NEW y, [team |-> y] \in S PROVE There(tables, "team", y) \/ y = m
    BY <2>4 DEF There
  <2>5. MayBecome(t)
    <3> HIDE DEF S, t
    <3> QED
      BY <2>2, <2>3, <2>4 DEF MayBecome
  <2> QED
    BY <2>2, <2>5
<1>3. ASSUME NEW g \in Group, CreateGroup(g) PROVE Done
  <2> DEFINE S == tables.groups \union {[group |-> g]}
             t == [tables EXCEPT !.groups = S]
  <2>1. S \in SUBSET Column["groups"]
    BY TableIsAFunction DEF Column, TableName
  <2>2. Change(t) /\ ~InTheBin("group", g)
    BY <1>3 DEF CreateGroup
  <2>3. t \in Table /\ (RowsStand(tables) => RowsStand(t)) /\ \A of \in Kind : \A y : There(t, of, y) =>
          There(tables, of, y) \/ (of = "group" /\ [group |-> y] \in S)
    <3>1. "groups" \in TableName /\ HoldsThings("groups") /\ tables["groups"] \subseteq S
      BY DEF TableName, HoldsThings
    <3> HIDE DEF S
    <3> QED
      BY <2>1, <3>1, AColumnWritten
  <2>4. ASSUME NEW y, [group |-> y] \in S PROVE There(tables, "group", y) \/ y = g
    BY <2>4 DEF There
  <2>5. MayBecome(t)
    <3> HIDE DEF S, t
    <3> QED
      BY <2>2, <2>3, <2>4 DEF MayBecome
  <2> QED
    BY <2>2, <2>5
<1>4. ASSUME NEW g \in Group, NEW a \in Ruled, NEW effect \in {"allow", "deny", "silence"},
             SetPermissionRule(g, a, effect)
      PROVE  Done
  <2> DEFINE others == {r \in tables.rules : r.group # g \/ r.action # a}
             rule == [group |-> g, action |-> a, effect |-> effect]
             S == IF effect = "silence" THEN others ELSE others \union {rule}
             t == [tables EXCEPT !.rules = S]
  <2>1. S \in SUBSET Column["rules"]
    BY TableIsAFunction DEF Column, TableName
  <2>2. Change(t) /\ IsThere("group", g)
    BY <1>4 DEF SetPermissionRule
  <2>3. \A r \in S : r \in tables.rules \/ Stands(tables, r)
    BY <2>2 DEF Stands, IsThere
  <2>4. MayBecome(t)
    <3>1. "rules" \in TableName /\ ~HoldsThings("rules")
      BY DEF TableName, HoldsThings
    <3> HIDE DEF S
    <3> QED
      BY <2>1, <2>3, <3>1, ATableOfOthersWritten
  <2> QED
    BY <2>2, <2>4
<1>5. ASSUME NEW m \in Team, NEW g \in Group, NEW held \in BOOLEAN, SetTeamGroup(m, g, held)
      PROVE  Done
  <2> DEFINE S == Switch(tables.teamHolds, [team |-> m, group |-> g], held)
             t == [tables EXCEPT !.teamHolds = S]
  <2>1. S \in SUBSET Column["teamHolds"]
    BY <1>1, TableIsAFunction DEF Column, TableName
  <2>2. Change(t) /\ IsThere("team", m) /\ IsThere("group", g)
    BY <1>5 DEF SetTeamGroup
  <2>3. \A r \in S : r \in tables.teamHolds \/ Stands(tables, r)
    BY <1>1, <2>2 DEF Stands, IsThere
  <2>4. MayBecome(t)
    <3>1. "teamHolds" \in TableName /\ ~HoldsThings("teamHolds")
      BY DEF TableName, HoldsThings
    <3> HIDE DEF S
    <3> QED
      BY <2>1, <2>3, <3>1, ATableOfOthersWritten
  <2> QED
    BY <2>2, <2>4
<1>6. ASSUME NEW p \in Person, NEW g \in Group, NEW held \in BOOLEAN, SetUserGroup(p, g, held)
      PROVE  Done
  <2> DEFINE S == Switch(tables.personHolds, [person |-> p, group |-> g], held)
             t == [tables EXCEPT !.personHolds = S]
  <2>1. S \in SUBSET Column["personHolds"]
    BY <1>1, TableIsAFunction DEF Column, TableName
  <2>2. Change(t) /\ IsThere("group", g)
    BY <1>6 DEF SetUserGroup
  <2>3. \A r \in S : r \in tables.personHolds \/ Stands(tables, r)
    BY <1>1, <2>2 DEF Stands, IsThere
  <2>4. MayBecome(t)
    <3>1. "personHolds" \in TableName /\ ~HoldsThings("personHolds")
      BY DEF TableName, HoldsThings
    <3> HIDE DEF S
    <3> QED
      BY <2>1, <2>3, <3>1, ATableOfOthersWritten
  <2> QED
    BY <2>2, <2>4
<1>7. ASSUME NEW p \in Person, NEW m \in Team, NEW held \in BOOLEAN, SetTeamMember(m, p, held)
      PROVE  Done
  <2> DEFINE S == Switch(tables.members, [team |-> m, person |-> p], held)
             t == [tables EXCEPT !.members = S]
  <2>1. S \in SUBSET Column["members"]
    BY <1>1, TableIsAFunction DEF Column, TableName
  <2>2. Change(t) /\ IsThere("team", m)
    BY <1>7 DEF SetTeamMember
  <2>3. \A r \in S : r \in tables.members \/ Stands(tables, r)
    BY <1>1, <2>2 DEF Stands, IsThere
  <2>4. MayBecome(t)
    <3>1. "members" \in TableName /\ ~HoldsThings("members")
      BY DEF TableName, HoldsThings
    <3> HIDE DEF S
    <3> QED
      BY <2>1, <2>3, <3>1, ATableOfOthersWritten
  <2> QED
    BY <2>2, <2>4
<1> HIDE DEF Done
<1> QED
  BY <1>2, <1>3, <1>4, <1>5, <1>6, <1>7 DEF ManageTeams, Kind

(* And every command about projects.                                        *)
LEMMA ProjectsWritten ==
  ASSUME tables \in Table, NEW by \in Person, ManageProjects(by)
  PROVE  \/ \E t : Change(t) /\ MayBecome(t)
         \/ \E x \in Project, to \in BOOLEAN : SetArchived(x, to)
<1> DEFINE Done == \E t : Change(t) /\ MayBecome(t)
<1> SUFFICES ASSUME ~\E x \in Project, to \in BOOLEAN : SetArchived(x, to)
             PROVE  Done
  OBVIOUS
<1>1. \A r, rows, held : Switch(rows, r, held) \subseteq rows \union {r}
  BY DEF Switch
<1>2. ASSUME NEW x \in Project, CreateProject(by, x) PROVE Done
  <2> DEFINE S1 == tables.projects \union {[project |-> x]}
             S2 == tables.projectMembers \union {[project |-> x, person |-> by, as |-> "owner"]}
             s == [tables EXCEPT !.projects = S1]
             t == [s EXCEPT !.projectMembers = S2]
  <2>1. S1 \in SUBSET Column["projects"] /\ S2 \in SUBSET Column["projectMembers"]
    BY TableIsAFunction DEF Column, TableName
  <2>2. Change(t)
    BY <1>2 DEF CreateProject
  <2>3. s \in Table /\ (RowsStand(tables) => RowsStand(s))
          /\ \A of \in Kind : \A y : There(s, of, y) => There(tables, of, y)
    <3>1. "projects" \in TableName /\ ~HoldsThings("projects")
            /\ \A r \in S1 : r \in tables["projects"] \/ Stands(tables, r)
      BY DEF TableName, HoldsThings, Stands
    <3> HIDE DEF S1
    <3> QED
      BY <2>1, <3>1, AColumnWritten
  <2>4. s.projectMembers = tables.projectMembers
    BY TableIsAFunction DEF TableName
  <2>5. t \in Table /\ (RowsStand(s) => RowsStand(t))
          /\ \A of \in Kind : \A y : There(t, of, y) => There(s, of, y)
    <3>1. "projectMembers" \in TableName /\ ~HoldsThings("projectMembers")
            /\ \A r \in S2 : r \in s["projectMembers"] \/ Stands(s, r)
      BY <2>4 DEF TableName, HoldsThings, Stands
    <3> HIDE DEF S2, s
    <3> QED
      BY <2>1, <2>3, <3>1, AColumnWritten
  <2> HIDE DEF s, t
  <2> QED
    BY <2>2, <2>3, <2>5 DEF MayBecome
<1>3. ASSUME NEW x \in Project, NEW p \in Person, NEW held \in BOOLEAN, SetProjectMember(x, p, held)
      PROVE  Done
  <2> DEFINE there == {r \in tables.projectMembers : r.project = x /\ r.person = p}
             added == [project |-> x, person |-> p, as |-> "member"]
             S == IF ~held THEN tables.projectMembers \ there
                  ELSE IF there # {} THEN tables.projectMembers ELSE tables.projectMembers \union {added}
             t == [tables EXCEPT !.projectMembers = S]
  <2>1. S \in SUBSET Column["projectMembers"]
    BY TableIsAFunction DEF Column, TableName
  <2>2. Change(t)
    BY <1>3 DEF SetProjectMember
  <2>3. \A r \in S : r \in tables.projectMembers \/ Stands(tables, r)
    BY DEF Stands
  <2>4. MayBecome(t)
    <3>1. "projectMembers" \in TableName /\ ~HoldsThings("projectMembers")
      BY DEF TableName, HoldsThings
    <3> HIDE DEF S
    <3> QED
      BY <2>1, <2>3, <3>1, ATableOfOthersWritten
  <2> QED
    BY <2>2, <2>4
<1>4. ASSUME NEW x \in Project, NEW m \in Team, NEW held \in BOOLEAN, SetProjectTeam(x, m, held)
      PROVE  Done
  <2> DEFINE S == Switch(tables.projectTeams, [project |-> x, team |-> m], held)
             t == [tables EXCEPT !.projectTeams = S]
  <2>1. S \in SUBSET Column["projectTeams"]
    BY <1>1, TableIsAFunction DEF Column, TableName
  <2>2. Change(t) /\ IsThere("team", m)
    BY <1>4 DEF SetProjectTeam
  <2>3. \A r \in S : r \in tables.projectTeams \/ Stands(tables, r)
    BY <1>1, <2>2 DEF Stands, IsThere
  <2>4. MayBecome(t)
    <3>1. "projectTeams" \in TableName /\ ~HoldsThings("projectTeams")
      BY DEF TableName, HoldsThings
    <3> HIDE DEF S
    <3> QED
      BY <2>1, <2>3, <3>1, ATableOfOthersWritten
  <2> QED
    BY <2>2, <2>4
<1> HIDE DEF Done
<1> QED
  BY <1>2, <1>3, <1>4 DEF ManageProjects

-----------------------------------------------------------------------------
(* What the bin holds is not there, is held once, and has no row of what    *)
(* was deleted before it.                                                   *)
BinIsApart ==
  /\ IsFiniteSet(bin)
  /\ \A e \in bin :
       /\ e.kind \in Kind /\ e.date \in 0 .. deletes - 1 /\ Kept(e.rows, e.kind, e.id)
       /\ ~There(tables, e.kind, e.id)
  /\ \A e, f \in bin : e.date = f.date \/ (e.kind = f.kind /\ e.id = f.id) => e = f
  /\ \A e, f \in bin : f.date < e.date =>
       \A k \in DOMAIN e.rows : \A r \in e.rows[k] : ~Is(r, f.kind, f.id)

RowsAndBin ==
  /\ tables \in Table
  /\ deletes \in Nat
  /\ RowsStand(tables)
  /\ BinIsApart

(* Of any entries one is the oldest: no two were deleted at once.           *)
LEMMA OldestIs ==
  ASSUME BinIsApart, deletes \in Nat, NEW X \in SUBSET bin, X # {}
  PROVE  Oldest(X) \in X /\ \A f \in X : f # Oldest(X) => Oldest(X).date < f.date
<1> DEFINE D == {e.date : e \in X}
<1>1. D \in SUBSET Nat /\ D # {}
  BY DEF BinIsApart
<1>2. PICK n \in D : \A m \in D : n <= m
  BY <1>1, LeastNumber
<1>3. \E e \in X : \A f \in X : e.date <= f.date
  BY <1>2
<1>4. Oldest(X) \in X /\ \A f \in X : Oldest(X).date <= f.date
  BY <1>3 DEF Oldest
<1>5. \A e, f \in X : e # f => e.date # f.date /\ e.date \in Int /\ f.date \in Int
  BY DEF BinIsApart
<1> HIDE DEF D
<1> QED
  BY <1>4, <1>5

(* AllBack as a function of what has been put back so far.                  *)
LEMMA PuttingBack ==
  ASSUME RowsAndBin
  PROVE  \E g \in [SUBSET bin -> Table] :
           /\ AllBack = g[bin]
           /\ g[{}] = tables
           /\ \A X \in SUBSET bin :
                X # {} => g[X] = Restored(g[X \ {Oldest(X)}], Oldest(X).rows)
<1> DEFINE pick == [X \in SUBSET bin |-> Oldest(X)]
           op == [p \in bin \X Table |-> Restored(p[2], p[1].rows)]
           Step(g, X) == IF X = {} THEN tables ELSE Restored(g[X \ {Oldest(X)}], Oldest(X).rows)
           IsBack(g) == g = [X \in SUBSET bin |-> Step(g, X)]
<1>1. IsFiniteSet(bin) /\ tables \in Table /\ Picks(pick, bin)
  BY OldestIs DEF RowsAndBin, BinIsApart, Picks
<1>2. op \in [bin \X Table -> Table]
  BY RestoredGives DEF RowsAndBin, BinIsApart
<1>3. \A X \in SUBSET bin, t \in Table : X # {} =>
        pick[X] = Oldest(X) /\ pick[X] \in bin /\ op[<<pick[X], t>>] = Restored(t, pick[X].rows)
  BY <1>1 DEF Picks
<1> HIDE DEF pick, op
<1>4. PICK g : IsFold(g, bin, Table, tables, pick, op)
  BY <1>1, <1>2, AFoldExists
<1>5. /\ g \in [SUBSET bin -> Table]
      /\ \A X \in SUBSET bin : g[X] = Step(g, X)
  BY <1>3, <1>4 DEF IsFold
<1>6. IsBack(g)
  <2> HIDE DEF Step
  <2> QED
    BY <1>5
<1>7. ASSUME NEW h, IsBack(h) PROVE h = g
  <2>0. h = [X \in SUBSET bin |-> h[X]]
    BY <1>7
  <2>1. \A X \in SUBSET bin : h[X] = Step(h, X)
    BY <1>7
  <2>2. h[{}] = tables
    BY <2>1
  <2>3. \A X \in SUBSET bin : X # {} /\ h[X \ {pick[X]}] \in Table =>
          h[X] = op[<<pick[X], h[X \ {pick[X]}]>>]
    BY <1>3, <2>1
  <2>4. Unfolds(h, bin, Table, tables, pick, op)
    BY <2>0, <2>2, <2>3 DEF Unfolds
  <2> HIDE DEF Step, IsBack
  <2> QED
    BY <1>1, <1>4, <2>4, AFoldIsTheOnlyOne
<1>8. AllBack = (CHOOSE h : IsBack(h))[bin]
  BY DEF AllBack, MapThenFoldSet
<1>9. (CHOOSE h : IsBack(h)) = g
  <2> HIDE DEF IsBack
  <2> QED
    BY <1>6, <1>7
<1> HIDE DEF IsBack
<1> QED
  BY <1>5, <1>8, <1>9

(* Newest first, nothing kept is lost: of any entries put back, the oldest  *)
(* adds a thing that no row kept with the others was about.                 *)
LEMMA NothingIsLost ==
  ASSUME RowsAndBin
  PROVE  \A e \in bin : \A k \in DOMAIN e.rows : \A r \in e.rows[k] :
           Stands(AllBack, r) => r \in AllBack[k]
<1>1. PICK g \in [SUBSET bin -> Table] :
        /\ AllBack = g[bin]
        /\ g[{}] = tables
        /\ \A X \in SUBSET bin : X # {} => g[X] = Restored(g[X \ {Oldest(X)}], Oldest(X).rows)
  BY PuttingBack
<1> DEFINE Back(X) ==
      /\ RowsStand(g[X])
      /\ \A e \in X : \A k \in DOMAIN e.rows : \A r \in e.rows[k] : Stands(g[X], r) => r \in g[X][k]
    T == {X \in SUBSET bin : Back(X)}
    pick == [X \in SUBSET bin |-> Oldest(X)]
<1>2. ASSUME NEW X \in SUBSET bin, X # {}, Back(X \ {Oldest(X)}) PROVE Back(X)
  <2> DEFINE o == Oldest(X)
             Y == X \ {o}
  <2>1. /\ o \in bin /\ o \in X /\ \A e \in Y : o.date < e.date
        /\ o.kind \in Kind /\ Kept(o.rows, o.kind, o.id)
    BY <1>2, OldestIs DEF RowsAndBin, BinIsApart
  <2>2. g[X] = Restored(g[Y], o.rows) /\ g[Y] \in Table
    BY <1>1, <1>2
  <2> HIDE DEF o
  <2>3. /\ RowsStand(g[X]) /\ \A k \in TableName : g[Y][k] \subseteq g[X][k]
        /\ \A of \in Kind : \A y : There(g[X], of, y) => There(g[Y], of, y) \/ (of = o.kind /\ y = o.id)
        /\ \A k \in DOMAIN o.rows : \A r \in o.rows[k] : Stands(g[X], r) => r \in g[X][k]
    <3>1. RowsStand(g[Y])
      BY <1>2 DEF o
    <3> HIDE DEF Y
    <3> QED
      BY <2>1, <2>2, <3>1, RestoredGives
  <2>4. ASSUME NEW e \in Y, NEW k \in DOMAIN e.rows, NEW r \in e.rows[k], Stands(g[X], r)
        PROVE  r \in g[X][k]
    <3>1. e \in bin /\ k \in TableName /\ ~Is(r, o.kind, o.id)
      BY <2>1, <2>4, RecipeInName DEF RowsAndBin, BinIsApart, Kept
    <3>2. "team" \in DOMAIN r => There(g[Y], "team", r.team)
      <4>1. "team" \in DOMAIN r => There(g[X], "team", r.team)
        BY <2>4 DEF Stands, There
      <4>2. "team" \in DOMAIN r => ~(o.kind = "team" /\ r.team = o.id)
        BY <3>1 DEF Is
      <4>3. "team" \in Kind
        BY DEF Kind
      <4> HIDE DEF Y
      <4> QED
        BY <2>3, <4>1, <4>2, <4>3
    <3>3. "group" \in DOMAIN r => There(g[Y], "group", r.group)
      <4>1. "group" \in DOMAIN r => There(g[X], "group", r.group)
        BY <2>4 DEF Stands, There
      <4>2. "group" \in DOMAIN r => ~(o.kind = "group" /\ r.group = o.id)
        BY <3>1 DEF Is
      <4>3. "group" \in Kind
        BY DEF Kind
      <4> HIDE DEF Y
      <4> QED
        BY <2>3, <4>1, <4>2, <4>3
    <3>4. Stands(g[Y], r)
      BY <3>2, <3>3 DEF Stands, There
    <3>5. r \in g[Y][k]
      BY <1>2, <2>4, <3>4 DEF o
    <3> QED
      BY <2>3, <3>1, <3>5
  <2> HIDE DEF Y
  <2>5. X \subseteq Y \union {o}
    BY DEF Y
  <2> QED
    BY <2>3, <2>4, <2>5
<1>3. Back({})
  BY <1>1 DEF RowsAndBin
<1>4. T = SUBSET bin
  <2>1. IsFiniteSet(bin) /\ Picks(pick, bin)
    BY OldestIs DEF RowsAndBin, BinIsApart, Picks
  <2> HIDE DEF Back
  <2>2. \A X \in SUBSET bin : X # {} /\ X \ {pick[X]} \in T => X \in T
    BY <1>2
  <2>3. T \in SUBSET SUBSET bin /\ {} \in T
    BY <1>3
  <2> HIDE DEF T, pick
  <2> QED
    BY <2>1, <2>2, <2>3, OneElementAtATime
<1>5. Back(bin)
  <2> HIDE DEF Back
  <2> QED
    BY <1>4
<1> QED
  BY <1>1, <1>5

LEMMA RestoringIsUndoing ==
  ASSUME RowsAndBin
  PROVE  RestoringUndoesDeleting
<1>1. ASSUME NEW thing \in Things, IsThere(thing[1], thing[2])
      PROVE  Restored(Without(tables, thing[1], thing[2]), Gathered(tables, thing[1], thing[2])) = tables
  <2>1. thing[1] \in Kind
    BY DEF Things, Kind
  <2> QED
    BY <2>1, ADeleteIsUndone DEF RowsAndBin
<1> QED
  BY <1>1, NothingIsLost DEF RestoringUndoesDeleting

-----------------------------------------------------------------------------
(* The invariant: the types, by who writes them, and what stands beside.    *)
PeopleOK ==
  /\ owner \in Person \union {Nobody}
  /\ role \in [Person -> Role \union {NoRole}]
  /\ active \subseteq Installed
  /\ asked \subseteq Person
  /\ deciding \subseteq [of : Installed, to : Role \union {"active", "suspended"}]
  /\ overlapped \in BOOLEAN

DoorsOK ==
  /\ checking \subseteq [of : Person \ Agent, for : {"signIn", "change"}, stale : BOOLEAN]
  /\ sessions \subseteq [of : Person \ Agent, stale : BOOLEAN, late : BOOLEAN]
  /\ keys \subseteq Agent

PlacesOK ==
  /\ archived \subseteq Project
  /\ deletes \in 0 .. MostDeletes
  /\ RowsAndBin

(* What stands about who administers the install.                           *)
AdminsKept ==
  /\ owner \in Person => role[owner] = "owner"
  /\ \A d \in deciding : d.to # "active" => d.of # owner
  /\ ~overlapped =>
       /\ Admins # {}
       /\ \A d, e \in deciding : d = e
       /\ \A d \in deciding : d.to # "active" => Admins \ {d.of} # {}

IInv == PeopleOK /\ AdminsKept /\ DoorsOK /\ SessionsEndWithTheirPassword /\ PlacesOK

LEMMA InitInv ==
  ASSUME Init
  PROVE  IInv
<1> USE AccessAssumption
<1>1. Nothing \in Table /\ RowsStand(Nothing) /\ deletes \in 0 .. MostDeletes /\ deletes \in Nat
  <2>1. Nothing = [k \in TableName |-> Nothing[k]] /\ \A k \in TableName : Nothing[k] = {}
    BY DEF Nothing, TableName
  <2> QED
    BY <2>1, TableIsAFunction DEF RowsStand, Init
<1>2. BinIsApart
  BY FS_EmptySet DEF Init, BinIsApart
<1>3. PeopleOK /\ AdminsKept
  <2>1. CASE /\ role = [p \in Person |-> IF p = First THEN "owner" ELSE NoRole]
             /\ active = {First} /\ owner = First
    BY <2>1 DEF Init, PeopleOK, AdminsKept, Installed, Admins, Role
  <2>2. CASE /\ role = [p \in Person |-> IF p \in {First, Second} THEN "owner" ELSE NoRole]
             /\ active \in {{Second}, {First, Second}} /\ owner \in {First, Nobody}
    <3>1. Second \in Admins
      BY <2>2 DEF Admins
    <3> QED
      BY <2>2, <3>1 DEF Init, PeopleOK, AdminsKept, Installed, Role
  <2> QED
    BY <2>1, <2>2 DEF Init
<1>4. DoorsOK /\ SessionsEndWithTheirPassword
  BY DEF Init, DoorsOK, SessionsEndWithTheirPassword
<1> QED
  BY <1>1, <1>2, <1>3, <1>4 DEF Init, IInv, PlacesOK, RowsAndBin

-----------------------------------------------------------------------------
(* What a step does to who stands where.                                    *)
LEMMA PeopleStep ==
  ASSUME PeopleOK, AdminsKept, [Next]_vars
  PROVE  PeopleOK' /\ AdminsKept'
<1> USE AccessAssumption DEF PeopleOK, AdminsKept, Installed, Admins
<1>1. CASE UNCHANGED standing
  BY <1>1 DEF standing
<1>2. ASSUME NEW by \in Installed, AuthoriseAdmin(by) PROVE PeopleOK' /\ AdminsKept'
  BY <1>2 DEF AuthoriseAdmin
<1>3. ASSUME NEW p \in Person, NEW r \in Given \union {"viewer"},
             CreateUser(p, r) \/ CreateAgent(p)
      PROVE  PeopleOK' /\ AdminsKept'
  <2>0. PICK q \in Role : /\ p \notin Installed
                          /\ role' = [role EXCEPT ![p] = q] /\ active' = active \union {p}
                          /\ UNCHANGED <<owner, asked, deciding, overlapped>>
    BY <1>3 DEF CreateUser, CreateAgent, Role
  <2>1. Installed' = Installed \union {p}
    BY <2>0
  <2>2. Admins \subseteq Admins'
    BY <2>0
  <2>3. PeopleOK'
    BY <2>0, <2>1
  <2>4. owner # p \/ owner = Nobody
    BY <2>0 DEF Role
  <2>5. \A d \in deciding : Admins \ {d.of} \subseteq Admins' \ {d.of}
    BY <2>2
  <2>6. AdminsKept'
    <3> HIDE DEF Admins
    <3>1. owner' \in Person => role'[owner'] = "owner"
      BY <2>0, <2>4
    <3> QED
      BY <2>0, <2>2, <2>5, <3>1
  <2> QED
    BY <2>3, <2>6
<1>4. ASSUME NEW by, NEW p \in Person, NEW to \in Role \union {"active", "suspended"}, Decided(by, p, to)
      PROVE  PeopleOK' /\ AdminsKept'
  <2>1. PeopleOK'
    BY <1>4 DEF Decided
  <2>2. ASSUME ~overlapped', to # "active" PROVE Admins \ {p} # {}
    BY <1>4, <2>2 DEF Decided, TakesAway, AnAdminRemains
  <2>3. /\ UNCHANGED <<owner, role, active>>
        /\ deciding' = deciding \union {[of |-> p, to |-> to]}
        /\ ~overlapped' => ~overlapped /\ deciding = {}
        /\ to # "active" => p # owner
    BY <1>4 DEF Decided
  <2>4. Admins' = Admins
    BY <2>3
  <2>5. AdminsKept'
    <3>1. \A e \in deciding' : e.to # "active" => e.of # owner'
      BY <2>3
    <3>2. ~overlapped' => \A d, e \in deciding' : d = e
      BY <2>3
    <3>3. ASSUME ~overlapped', NEW d \in deciding', d.to # "active" PROVE Admins' \ {d.of} # {}
      <4>1. d = [of |-> p, to |-> to]
        BY <2>3, <3>3
      <4>2. to # "active" /\ d.of = p
        BY <3>3, <4>1
      <4> HIDE DEF Admins
      <4> QED
        BY <2>2, <2>4, <3>3, <4>2
    <3> HIDE DEF Admins, PeopleOK
    <3> QED
      BY <2>3, <2>4, <3>1, <3>2, <3>3
  <2> QED
    BY <2>1, <2>5
<1>5. ASSUME NEW d \in deciding, Written(d) PROVE PeopleOK' /\ AdminsKept'
  <2>1. /\ UNCHANGED <<owner, asked, overlapped>> /\ deciding' = deciding \ {d}
        /\ role' = IF d.to \in Role THEN [role EXCEPT ![d.of] = d.to] ELSE role
        /\ active' = IF d.to = "active" THEN active \union {d.of}
                     ELSE IF d.to = "suspended" THEN active \ {d.of} ELSE active
    BY <1>5 DEF Written
  <2>2. d.of \in Installed /\ d.to \in Role \union {"active", "suspended"}
    OBVIOUS
  <2>3. Installed' = Installed
    BY <2>1, <2>2
  <2>4. PeopleOK'
    BY <2>1, <2>2, <2>3
  <2>5. owner' \in Person => role'[owner'] = "owner"
    BY <2>1, <2>2 DEF Role
  <2>6. ASSUME d.to # "active" PROVE Admins \ {d.of} \subseteq Admins'
    BY <2>1, <2>2, <2>6
  <2>7. ASSUME d.to = "active" PROVE Admins \subseteq Admins'
    BY <2>1, <2>2, <2>7 DEF Role
  <2>8. ~overlapped => deciding' = {} /\ Admins' # {}
    <3> HIDE DEF Admins, PeopleOK
    <3> QED
      BY <2>1, <2>6, <2>7
  <2>9. AdminsKept'
    <3>1. \A e \in deciding' : e.to # "active" => e.of # owner'
      BY <2>1
    <3>2. ~overlapped' => deciding' = {} /\ Admins' # {}
      BY <2>1, <2>8
    <3> HIDE DEF Admins, PeopleOK
    <3> QED
      BY <2>5, <3>1, <3>2
  <2> QED
    BY <2>4, <2>9
<1> HIDE DEF PeopleOK, AdminsKept, Admins
<1>6. ASSUME NEW by \in Installed, ManageUsers(by) PROVE PeopleOK' /\ AdminsKept'
  <2>1. ASSUME NEW p \in Person, ResetUserPassword(p) PROVE UNCHANGED standing
    BY <2>1 DEF ResetUserPassword
  <2> QED
    BY <1>1, <1>3, <1>4, <1>6, <2>1 DEF ManageUsers, SetUserRole, SetUserStatus
<1>7. ASSUME NEW by \in Installed, ManageAgents(by) PROVE PeopleOK' /\ AdminsKept'
  <2>1. ASSUME NEW p \in Person, NEW held \in BOOLEAN, SetKey(p, held) PROVE UNCHANGED standing
    BY <2>1 DEF SetKey
  <2> QED
    BY <1>1, <1>3, <1>7, <2>1 DEF ManageAgents
<1>8. ASSUME NEW by \in Installed, ManageTeams(by) \/ ManageProjects(by) PROVE UNCHANGED standing
  BY <1>8 DEF ManageTeams, ManageProjects, CreateTeam, CreateGroup, SetPermissionRule, SetTeamGroup,
     SetUserGroup, SetTeamMember, Delete, CreateProject, SetArchived, SetProjectMember, SetProjectTeam, Change
<1>9. ASSUME (\E by : Recover(by)) \/ PurgeExpired PROVE UNCHANGED standing
  BY <1>9 DEF Recover, PurgeExpired, Restore, Purge
<1>10. ASSUME \/ \E p : Check(p, "signIn") \/ Check(p, "change")
              \/ \E c \in checking : SignIn(c) \/ ChangePassword(c)
              \/ \E s \in sessions : EndSession(s)
       PROVE  UNCHANGED standing
  BY <1>10 DEF Check, SignIn, ChangePassword, EndSession
<1>11. CASE UNCHANGED vars
  BY <1>1, <1>11 DEF vars, standing
<1> QED
  BY <1>1, <1>2, <1>5, <1>6, <1>7, <1>8, <1>9, <1>10, <1>11 DEF Next

(* Whatever is denied them, an owner may manage people.                     *)
LEMMA AnAdminMay ==
  ASSUME NEW p \in Person, role[p] = "owner"
  PROVE  MayDo(p, "user.manage", Write)
<1>1. MinimumLevel["user.manage"] = None /\ MinimumRole["user.manage"] \in Role \ {"outsourcer"}
  BY AccessAssumption, AuthorityAssumption
<1>2. HasAtLeastRole("owner", MinimumRole["user.manage"])
  BY <1>1 DEF HasAtLeastRole, Rank, Role
<1> QED
  BY <1>1, <1>2 DEF MayDo, Can, None, Write

(* The last one to go is never the only one: there is an owner who is       *)
(* active, or the one who owns the install is.                              *)
LEMMA SomebodyCan ==
  ASSUME PeopleOK, AdminsKept
  PROVE  SomebodyCanAdminister
<1>1. ASSUME NEW p \in Admins PROVE p \in active /\ MayDo(p, "user.manage", Write)
  BY <1>1, AnAdminMay DEF Admins, PeopleOK, Installed
<1>2. CASE overlapped
  <2>1. ASSUME owner \in active PROVE owner \in Admins
    BY <2>1 DEF PeopleOK, AdminsKept, Admins, Installed
  <2> QED
    BY <1>1, <1>2, <2>1 DEF SomebodyCanAdminister
<1>3. CASE ~overlapped
  BY <1>1, <1>3 DEF AdminsKept, SomebodyCanAdminister
<1> QED
  BY <1>2, <1>3 DEF PeopleOK

(* What a step does to sign-ins and sessions.                               *)
LEMMA DoorsStep ==
  ASSUME PeopleOK, DoorsOK, SessionsEndWithTheirPassword, [Next]_vars
  PROVE  DoorsOK' /\ SessionsEndWithTheirPassword'
<1> USE DEF DoorsOK, SessionsEndWithTheirPassword, Issued, Superseded
<1>1. CASE UNCHANGED doors
  BY <1>1 DEF doors
<1>2. ASSUME NEW p \in Person, NEW for \in {"signIn", "change"}, Check(p, for)
      PROVE  DoorsOK' /\ SessionsEndWithTheirPassword'
  <2>1. [of |-> p, for |-> for, stale |-> FALSE]
          \in [of : Person \ Agent, for : {"signIn", "change"}, stale : BOOLEAN]
    BY <1>2 DEF Check
  <2>2. /\ checking' = checking \union {[of |-> p, for |-> for, stale |-> FALSE]}
        /\ UNCHANGED <<sessions, keys>>
    BY <1>2 DEF Check
  <2> QED
    BY <2>1, <2>2
<1>3. ASSUME NEW c \in checking, SignIn(c) PROVE DoorsOK' /\ SessionsEndWithTheirPassword'
  BY <1>3 DEF SignIn
<1>4. ASSUME NEW c \in checking, ChangePassword(c) PROVE DoorsOK' /\ SessionsEndWithTheirPassword'
  <2>1. checking' \subseteq [of : Person \ Agent, for : {"signIn", "change"}, stale : BOOLEAN]
    BY <1>4 DEF ChangePassword
  <2>2. sessions' \subseteq [of : Person \ Agent, stale : BOOLEAN, late : BOOLEAN]
    BY <1>4 DEF ChangePassword
  <2> QED
    BY <1>4, <2>1, <2>2 DEF ChangePassword
<1>5. ASSUME NEW s \in sessions, EndSession(s) PROVE DoorsOK' /\ SessionsEndWithTheirPassword'
  BY <1>5 DEF EndSession
<1>6. ASSUME NEW p \in Person, ResetUserPassword(p)
      PROVE  DoorsOK' /\ SessionsEndWithTheirPassword'
  BY <1>6 DEF ResetUserPassword
<1>7. ASSUME NEW d \in deciding, Written(d) PROVE DoorsOK' /\ SessionsEndWithTheirPassword'
  BY <1>7 DEF Written
<1>8. ASSUME NEW p, NEW held \in BOOLEAN, SetKey(p, held)
      PROVE  DoorsOK' /\ SessionsEndWithTheirPassword'
  BY <1>8 DEF SetKey
<1> HIDE DEF DoorsOK, SessionsEndWithTheirPassword
<1>9. ASSUME NEW by, ManageUsers(by) PROVE DoorsOK' /\ SessionsEndWithTheirPassword'
  <2>1. ASSUME NEW p, NEW to, CreateUser(p, to) \/ SetUserRole(by, p, to) \/ SetUserStatus(by, p, to)
        PROVE  UNCHANGED doors
    BY <2>1 DEF CreateUser, SetUserRole, SetUserStatus, Decided
  <2> QED
    BY <1>1, <1>6, <1>9, <2>1 DEF ManageUsers
<1>10. ASSUME NEW by, ManageAgents(by) PROVE DoorsOK' /\ SessionsEndWithTheirPassword'
  BY <1>1, <1>8, <1>10 DEF ManageAgents, CreateAgent
<1>11. ASSUME NEW by \in Installed, ManageTeams(by) \/ ManageProjects(by) PROVE UNCHANGED doors
  BY <1>11 DEF ManageTeams, ManageProjects, CreateTeam, CreateGroup, SetPermissionRule, SetTeamGroup,
     SetUserGroup, SetTeamMember, Delete, CreateProject, SetArchived, SetProjectMember, SetProjectTeam, Change
<1>12. ASSUME (\E by : Recover(by) \/ AuthoriseAdmin(by)) \/ PurgeExpired PROVE UNCHANGED doors
  BY <1>12 DEF Recover, PurgeExpired, Restore, Purge, AuthoriseAdmin
<1>13. CASE UNCHANGED vars
  BY <1>1, <1>13 DEF vars, doors
<1> QED
  BY <1>1, <1>2, <1>3, <1>4, <1>5, <1>7, <1>9, <1>10, <1>11, <1>12, <1>13 DEF Next

(* What a step does to the tables and the bin.                              *)
LEMMA PlacesStep ==
  ASSUME PeopleOK, PlacesOK, [Next]_vars
  PROVE  PlacesOK'
<1>1. tables \in Table /\ deletes \in Nat /\ RowsStand(tables) /\ BinIsApart /\ archived \subseteq Project
        /\ deletes \in 0 .. MostDeletes
  BY DEF PlacesOK, RowsAndBin
<1>2. CASE UNCHANGED places
  BY <1>1, <1>2 DEF places, PlacesOK, RowsAndBin, BinIsApart
<1>3. ASSUME NEW t, Change(t), MayBecome(t) PROVE PlacesOK'
  <2>1. tables' = t /\ UNCHANGED <<archived, bin, deletes>>
    BY <1>3 DEF Change
  <2>2. t \in Table /\ RowsStand(t)
    BY <1>1, <1>3 DEF MayBecome
  <2>3. \A e \in bin : ~There(t, e.kind, e.id)
    BY <1>1, <1>3 DEF MayBecome, InTheBin, BinIsApart
  <2>4. BinIsApart'
    BY <1>1, <2>1, <2>3 DEF BinIsApart
  <2> QED
    BY <1>1, <2>1, <2>2, <2>4 DEF PlacesOK, RowsAndBin
<1>4. ASSUME NEW x \in Project, NEW to \in BOOLEAN, SetArchived(x, to) PROVE PlacesOK'
  BY <1>1, <1>4 DEF SetArchived, PlacesOK, RowsAndBin, BinIsApart
<1>5. ASSUME NEW kind \in Kind, NEW x, Delete(kind, x) PROVE PlacesOK'
  <2> DEFINE e == [kind |-> kind, id |-> x, date |-> deletes, rows |-> Gathered(tables, kind, x)]
             W == Without(tables, kind, x)
  <2>1. /\ There(tables, kind, x) /\ deletes < MostDeletes /\ deletes' = deletes + 1
        /\ bin' = bin \union {e} /\ tables' = W /\ archived' = archived
    BY <1>5 DEF Delete, IsThere, There
  <2>2. /\ W \in Table /\ RowsStand(W) /\ ~There(W, kind, x)
        /\ \A of \in Kind : \A y : There(W, of, y) => There(tables, of, y)
    BY <1>1, WithoutLeaves
  <2>3. Kept(Gathered(tables, kind, x), kind, x)
    BY <1>1, GatheredIsKept
  <2>4. e.kind = kind /\ e.id = x /\ e.date = deletes /\ e.rows = Gathered(tables, kind, x)
    OBVIOUS
  <2> HIDE DEF e, W
  <2>5. \A f \in bin : f # e /\ f.date < deletes /\ ~(f.kind = kind /\ f.id = x) /\ f.kind \in Kind
          /\ f.date \in Nat
    BY <1>1, <2>1, <2>4 DEF BinIsApart
  <2>6. ASSUME NEW f \in bin, NEW k \in DOMAIN e.rows, NEW r \in e.rows[k]
        PROVE  ~Is(r, f.kind, f.id)
    <3>1. k \in TableName /\ r \in tables[k]
      BY <1>1, <2>4, <2>6, GatheredIsKept, RecipeInName DEF Kept, About
    <3>2. Stands(tables, r) /\ ~There(tables, f.kind, f.id) /\ f.kind \in Kind
      BY <1>1, <3>1 DEF RowsStand, BinIsApart
    <3> QED
      BY <3>2 DEF Stands, There, Is, Kind
  <2>7. IsFiniteSet(bin')
    BY <1>1, <2>1, FS_AddElement DEF BinIsApart
  <2>8. \A f \in bin' :
          /\ f.kind \in Kind /\ f.date \in 0 .. deletes' - 1 /\ Kept(f.rows, f.kind, f.id)
          /\ ~There(tables', f.kind, f.id)
    BY <1>1, <2>1, <2>2, <2>3, <2>4 DEF BinIsApart
  <2>9. \A f, h \in bin' : f.date = h.date \/ (f.kind = h.kind /\ f.id = h.id) => f = h
    BY <1>1, <2>1, <2>4, <2>5 DEF BinIsApart
  <2>10. \A f, h \in bin' : h.date < f.date =>
           \A k \in DOMAIN f.rows : \A r \in f.rows[k] : ~Is(r, h.kind, h.id)
    <3> SUFFICES ASSUME NEW f \in bin', NEW h \in bin', h.date < f.date,
                        NEW k \in DOMAIN f.rows, NEW r \in f.rows[k]
                 PROVE  ~Is(r, h.kind, h.id)
      OBVIOUS
    <3>1. CASE f \in bin
      <4>1. h \in bin
        BY <1>1, <2>1, <2>4, <2>5, <3>1
      <4> QED
        BY <1>1, <3>1, <4>1 DEF BinIsApart
    <3>2. CASE f = e
      <4>1. h \in bin
        BY <1>1, <2>1, <2>4, <3>2
      <4> QED
        BY <2>6, <3>2, <4>1
    <3> QED
      BY <2>1, <3>1, <3>2
  <2>11. BinIsApart'
    BY <2>7, <2>8, <2>9, <2>10 DEF BinIsApart
  <2> QED
    BY <1>1, <2>1, <2>2, <2>11, AccessAssumption DEF PlacesOK, RowsAndBin
<1>6. ASSUME NEW e \in bin, Restore(e) PROVE PlacesOK'
  <2>1. /\ bin' = bin \ {e} /\ tables' = Restored(tables, e.rows) /\ UNCHANGED <<archived, deletes>>
    BY <1>6 DEF Restore
  <2>2. e.kind \in Kind /\ Kept(e.rows, e.kind, e.id)
    BY <1>1 DEF BinIsApart
  <2>3. /\ tables' \in Table /\ RowsStand(tables')
        /\ \A of \in Kind : \A y : There(tables', of, y) => There(tables, of, y) \/ (of = e.kind /\ y = e.id)
    BY <1>1, <2>1, <2>2, RestoredGives
  <2>4. \A f \in bin' : ~There(tables', f.kind, f.id)
    BY <1>1, <2>1, <2>3 DEF BinIsApart
  <2>5. IsFiniteSet(bin')
    BY <1>1, <2>1, FS_Subset DEF BinIsApart
  <2>6. BinIsApart'
    BY <1>1, <2>1, <2>4, <2>5 DEF BinIsApart
  <2> QED
    BY <1>1, <2>1, <2>3, <2>6 DEF PlacesOK, RowsAndBin
<1>7. ASSUME NEW e \in bin, Purge(e) PROVE PlacesOK'
  <2>1. bin' = bin \ {e} /\ UNCHANGED <<tables, archived, deletes>>
    BY <1>7 DEF Purge
  <2>2. IsFiniteSet(bin')
    BY <1>1, <2>1, FS_Subset DEF BinIsApart
  <2>3. BinIsApart'
    BY <1>1, <2>1, <2>2 DEF BinIsApart
  <2> QED
    BY <1>1, <2>1, <2>3 DEF PlacesOK, RowsAndBin
<1>8. ASSUME NEW by \in Installed, ManageTeams(by) PROVE PlacesOK'
  BY <1>1, <1>3, <1>5, <1>8, TeamsWritten
<1>9. ASSUME NEW by \in Installed, ManageProjects(by) PROVE PlacesOK'
  <2>1. by \in Person
    BY DEF Installed
  <2> QED
    BY <1>1, <1>3, <1>4, <1>9, <2>1, ProjectsWritten
<1>10. ASSUME NEW by, Recover(by) \/ PurgeExpired PROVE PlacesOK'
  BY <1>6, <1>7, <1>10 DEF Recover, PurgeExpired
<1>11. ASSUME NEW by, ManageUsers(by) PROVE UNCHANGED places
  <2>1. ASSUME NEW p, NEW to, CreateUser(p, to) \/ SetUserRole(by, p, to) \/ SetUserStatus(by, p, to)
                              \/ ResetUserPassword(p)
        PROVE  UNCHANGED places
    BY <2>1 DEF CreateUser, SetUserRole, SetUserStatus, Decided, ResetUserPassword
  <2> QED
    BY <1>11, <2>1 DEF ManageUsers
<1>12. ASSUME NEW by, ManageAgents(by) PROVE UNCHANGED places
  BY <1>12 DEF ManageAgents, CreateAgent, SetKey
<1>13. ASSUME \/ \E p : Check(p, "signIn") \/ Check(p, "change") \/ AuthoriseAdmin(p)
              \/ \E c \in checking : SignIn(c) \/ ChangePassword(c)
              \/ \E s \in sessions : EndSession(s)
              \/ \E d \in deciding : Written(d)
       PROVE  UNCHANGED places
  BY <1>13 DEF Check, SignIn, ChangePassword, EndSession, AuthoriseAdmin, Written
<1>14. CASE UNCHANGED vars
  BY <1>2, <1>14 DEF vars, places
<1> QED
  BY <1>2, <1>8, <1>9, <1>10, <1>11, <1>12, <1>13, <1>14 DEF Next

-----------------------------------------------------------------------------
(* The invariant holds of every state of every install.                     *)
THEOREM InstallInvariant == Spec => []IInv
<1>1. Init => IInv
  BY InitInv
<1>2. IInv /\ [Next]_vars => IInv'
  BY PeopleStep, DoorsStep, PlacesStep DEF IInv
<1> QED
  BY <1>1, <1>2, PTL DEF Spec

(* Every variable keeps its type, whatever commands, restores and sign-ins  *)
(* come in whatever order.                                                  *)
THEOREM TypesHold == Spec => []TypeOK
<1>1. IInv => TypeOK
  BY DEF IInv, PeopleOK, DoorsOK, PlacesOK, RowsAndBin, TypeOK
<1> QED
  BY <1>1, InstallInvariant, PTL

(* manage-users.ts: unless two changes of standing were once under way      *)
(* together and nobody active owns the install, somebody can administer it. *)
THEOREM SomebodyAlwaysAdministers == Spec => []SomebodyCanAdminister
<1>1. IInv => SomebodyCanAdminister
  BY SomebodyCan DEF IInv
<1> QED
  BY <1>1, InstallInvariant, PTL

(* A session outlives its password, or its holder's suspension, only where   *)
(* the sign-in had been checked before.                                     *)
THEOREM SessionsEnd == Spec => []SessionsEndWithTheirPassword
<1>1. IInv => SessionsEndWithTheirPassword
  BY DEF IInv
<1> QED
  BY <1>1, InstallInvariant, PTL

(* bin.ts: for any people, teams, groups and rules, a restore at once gives *)
(* the tables back, and the bin emptied newest first loses nothing.         *)
THEOREM ARestoreUndoesADelete == Spec => []RestoringUndoesDeleting
<1>1. IInv => RestoringUndoesDeleting
  BY RestoringIsUndoing DEF IInv, PlacesOK
<1> QED
  BY <1>1, InstallInvariant, PTL
=============================================================================

------------------------------ MODULE MCAccess ------------------------------
(* Two people, of whom one may have owned the install before the other, and  *)
(* an agent; a team, two groups, a project.                                  *)
EXTENDS Access

CONSTANTS MostStirred,  \* how far people may be from where they began
          MostRows      \* rows in the tables and the bin

MCMinimumRole ==
  [a \in Action |-> IF a \in {"member.invite", "project.create"} THEN "lead" ELSE "owner"]

MCMinimumLevel ==
  [a \in Action |-> IF a \in {"member.invite", "member.remove", "project.archive"} THEN Write ELSE None]

Moved == {p \in Installed : role[p] # "owner" \/ p \notin active}

Stirred ==
  Cardinality(asked) + Cardinality(deciding) + Cardinality(checking) + Cardinality(keys)
    + Cardinality(Moved) + Cardinality({s \in sessions : s.of # First \/ s.stale})

Rows == FoldFunction(LAMBDA rows, n : Cardinality(rows) + n, 0, tables) + Cardinality(bin)
          + Cardinality(archived)

(* The further people have moved, the fewer rows, and the other way round.  *)
NearTheStart == Stirred * MostRows + Rows * MostStirred <= MostRows * MostStirred

AccessSymmetry == Permutations(Group)
=============================================================================

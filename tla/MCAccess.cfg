SPECIFICATION Spec
CONSTANTS
  Person = {first, second, robot}
  Agent = {robot}
  First = first
  Second = second
  Team = {team}
  Group = {g1, g2}
  Project = {project}
  Action = {"user.manage", "team.manage", "agent.create", "agent.issueKey", "agent.revokeKey", "member.invite", "member.remove", "project.create", "project.archive", "recovery.restore", "recovery.purge"}
  MinimumRole <- MCMinimumRole
  MinimumLevel <- MCMinimumLevel
  Given = {"owner", "member"}
  Ruled = {"user.manage", "member.invite"}
  NoRole = NoRole
  Nobody = Nobody
  MostDeletes = 2
  MostStirred = 3
  MostRows = 4
CONSTRAINT NearTheStart
SYMMETRY AccessSymmetry
INVARIANTS
  SomebodyCanAdminister
  SessionsEndWithTheirPassword
  RestoringUndoesDeleting
CHECK_DEADLOCK FALSE

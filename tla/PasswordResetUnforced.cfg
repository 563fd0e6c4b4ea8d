SPECIFICATION Spec
CONSTANTS
  Clients = {"console"}
  Role <- MCRole
  Names = {"admin", "manager", "engineer", "name"}
  Existing <- MCExisting
  Fresh = {3}
  SkillNames = {"python", "tla", "sql", "java"}
  Catalogue = {"python", "tla", "sql"}
  Levels = {"BEGINNER", "ADVANCED"}
  Assigned <- MCAssigned
  TokenHours = 2
  Slots = {1, 2}
  MaxWrites = 2
  MaxHours = 2
  Null = Null
INVARIANT
  TemporaryIsForced

CONSTANTS
  Default <- MCDefault
  Lists <- MCLists
  NewIds = {"new"}
  Templates = {"send_alert"}
  NodeIds <- MCNodeIds
  MaxNodes = 3
  MaxEdges = 2
  MaxEdits = 2
  MaxLength = 2
  MaxDeletes = 1
SPECIFICATION EditorSpec
INVARIANTS NothingDrawnIsLost DialectsCoverTheSame

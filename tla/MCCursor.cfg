SPECIFICATION CursorSpec
CONSTANTS
  Screen <- MCScreen
  Local = 1
  Placeholder <- MCPlaceholder
  Unit = 2
  Layouts <- MCLayouts
  Delta <- MCDelta
  Entry <- MCEntry
INVARIANTS CursorTypeOK WaysLeadOut
PROPERTIES CursorStaysOnTheMap

CONSTANTS
  Builds = {"update"}
  MaxValues = 6
  MaxClauses = 4
  WhereUpdates = TRUE
  Unset = Unset
SPECIFICATION BuilderSpec
INVARIANT PlaceholdersBound

CONSTANTS
  Roots = {"R"}
  First = "R"
  Folders = {"A"}
  Files = {"x"}
  Pages = 2
  PageOf <- OnPage
  Modes = {"incremental","snapshot"}
  Lookups = {n1}
  Listings = {l1}
  MaxChanges = 1
  MaxRevision = 6
SPECIFICATION Spec
INVARIANTS TypeOK FeedCovers
PROPERTIES NeverUndoesFeed ReplyShown Announced
CHECK_DEADLOCK FALSE

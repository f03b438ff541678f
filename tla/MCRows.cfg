\* Two venues with two dishes each and two requests at once; three requests come
\* to a menu of two categories and two items, two at once.
CONSTANTS
  Venues = {v1, v2}
  Dishes = {d1, d2}
  NoVenue = none
  Requests = {r1, r2}
  Categories = {"c1", "c2"}
  MenuItems = {"i1", "i2"}
  Uploads <- MCUploads
  MenuRequests = {r1, r2}
  Stories = {"cart", "menu"}
  MaxBegun = 3
SPECIFICATION FairMCSpec
CHECK_DEADLOCK FALSE
INVARIANTS
  MCTypeOK
  CartKnowsItsVenue
  MenuIsTheLastUpload
  UploadsTellTheTruth
PROPERTIES
  NothingIsSwallowed
  NobodyWaitsForEver

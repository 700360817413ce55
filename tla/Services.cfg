CONSTANTS
  x = x
  y = y
  o1 = o1
  o2 = o2
  h1 = h1
  h2 = h2
  t1 = t1
  t2 = t2
  t3 = t3
  t4 = t4
  u1 = u1
  u2 = u2
  u3 = u3
  Listing = {x, y}
  Offer = {o1, o2}
  First <- MCFirst
  Second <- MCSecond
  Clerk = {h1, h2}
  Worker = {h1, h2}
  MaxCopies = 2
  Deal = {t1}
  Visitor = {u1}
  Server = {h1, h2}
  MaxReplies = 2
  MaxMishaps = 1
  Dispute = {t1, t2}
  Desk = {h1, h2}
  MaxFailures = 1
  Verified = {t1, t2, t3, t4}
  Runner = {h1, h2}
  MaxTrees = 2
  MaxAnchors = 2
  MaxNumber = 6
  MaxFaults = 1
  Participant = {u1, u2}
  Call = {h1, h2}
  MaxMessages = 2
  User = {u1, u2}
  Outsider = {u3}
  PairTrade = {t1, t2, t3}
  PartyA <- MCPartyA
  Assessor = {h1, h2}
  MaxCrashes = 1
  MaxAddresses = 3
  UserTrade = {t1, t2}
  UserWorker = {h1, h2}
  MaxHitches = 1
  Report = {"r1", "r2"}
  SellerOf <- MCSellerOf
  Moderator = {"m1", "m2"}
  MaxErrors = 1
  Picture = {"p1", "p2", "p3"}
  Plain = {"p3"}
  Country = {"tr", "de"}
  MaxShown = 3
  MaxEdits = 1
  Browser = {"b1", "b2"}
  Tab = {"a", "b", "c"}
  BrowserOf <- MCBrowserOf
  MaxTokens = 7
SPECIFICATION ServicesSpec
INVARIANTS
  TradeMatchesOffer
  LocksExclude
  ListingFollowsTrades
  ReplyCountRight
  MessageOpensOne
  AnnouncedStands
  AppealIsHeard
  ProofsVerify
  AnchorsAreReal
  IssuedInPairs
  ButtonsWork
  UnreadCountRight
  ReputationFollows
  UserDataRight
  PicturesAsShown
  PlaceAsChosen
  ModerationRight
  SessionKept
SYMMETRY Symmetry
CHECK_DEADLOCK FALSE

SPECIFICATION CommunitySpec
CONSTANTS
  ua = ua
  ub = ub
  ud = ud
  k1 = k1
  k2 = k2
  t1 = t1
  t2 = t2
  u1 = u1
  u2 = u2
  m3 = m3
  ChatUsers = {ua, ub, ud}
  ChatSockets = {k1, k2}
  SocketUser <- Sockets
  Convs = {conv}
  Msgs = {msg1}
  GroupMin = 2
  GroupMax = 3
  MaxFrames = 5
  DisputeIds = {d1}
  Buyer = ua
  Seller = ub
  Moderators = {ud}
  Desks = {t1, t2}
  Payouts = {p1, p2}
  Clerks = {t1, t2}
  Sales = {u1, u2}
  TicketPrice = 10
  Commission = 5
  MaxDeskCalls = 9
  Readers = {u1, u2}
  PostComments = {c1, c2, c3}
  MaxLikes = 3
  PostThreads = {t1, t2}
  MaxPostCalls = 4
  Members = {u1, u2, m3}
  MaxEdges = 3
  FollowThreads = {t1, t2}
  MaxFollowCalls = 5
  Viewers = {u1, u2}
  MaxDisplayLikes = 3
  MaxDisplayComments = 1
  DisplayThreads = {t1, t2}
  MaxDisplayCalls = 5
  Files = {u1, u2}
  MaxRuns = 2
  MediaThreads = {t1, t2}
  MaxMediaCalls = 2
  MaxMediaLosses = 1
  Places = {u1, u2}
  CellOf <- Cells
  MaxRetries = 1
  MaxGeoLosses = 1
  Screens = {k1, k2}
  FeedThreads = {t1, t2}
  VoteRateLimit = 2
  MaxFeedCalls = 3
  Watchers = {u1, u2}
  Anonymous = anonymous
  ViewThreads = {t1, t2}
  MaxViewCalls = 4
SYMMETRY ServerSymmetry
CHECK_DEADLOCK FALSE
INVARIANTS DisputeInv OrdinaryMembersListen DeskInv PostInv FollowInv DisplayInv MediaInv GeoInv  ViewInv
PROPERTIES ChatPastKept

SPECIFICATION Spec
CONSTANTS
  Parts = {"ticker", "lifecycle", "fullQueue", "queue", "gossip", "reader", "server", "retry", "mux", "feed", "resubscribe"}
  Nil = Nil
  c1 = c1
  c2 = c2
  updater = updater
  t1 = t1
  p1 = p1
  p2 = p2
  sub1 = sub1
  sub2 = sub2
  g1 = g1
  g2 = g2
  stopper = stopper
CHECK_DEADLOCK FALSE
INVARIANTS WithinBounds ChannelsCloseSafely OnceInOrder CatchUpKeepsVotes
PROPERTIES LastIsDelivered  MinerStarts StoredIsHandled BroadcastsEnd StuckIsServed

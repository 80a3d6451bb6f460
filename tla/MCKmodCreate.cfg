SPECIFICATION KmodSpec
CONSTANTS
  Caller = {c1, c2}
  Page = {p1, p2, p3, p4, p5, p6}
  RingPages = 2
INVARIANT
  NothingLeaked

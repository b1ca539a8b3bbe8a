SPECIFICATION FairSpec
CONSTANTS
  MaxCandle = 3
  OpenAt <- EvenOpenAt
  YearOf <- NewYear
  Interval = 1
  FeedLimit = 2
  FeedRuns = {f1}
  HistoryRuns = {p1}
  BackfillRuns = {p1}
  Readers = {r1}
  MaxTime = 4
  MaxPosts = 1
  MaxFailures = 1
INVARIANT TypeOK
INVARIANT FinalUnlessForming
INVARIANT ReadsNoHole
PROPERTY AppendOnly
PROPERTY Settles

CONSTANTS
  s1 = s1  s2 = s2  s3 = s3  d1 = d1  d2 = d2  d3 = d3
  Subscribers = {s1, s2, s3}
  Registered = {s1, s2}
  Deliveries = {d1, d2, d3}
  SubscriberOf <- SubscriberOfSmall
  Limit = 2
  MAX_CONCURRENT = 1
  MAX_ATTEMPTS = 2
  MaxFaults = 1
SPECIFICATION FairSpec
INVARIANTS DuplicatesAccounted
PROPERTIES AlertsSettle
\* Alerts end with the instance.
CHECK_DEADLOCK FALSE

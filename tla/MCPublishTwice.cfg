SPECIFICATION PubSpec
CONSTANTS
  Desk = {t1}
  Site = {here, there}
  Home = here
  Document = {d1, d2}
  First = d1
  MaxPublish = 3
  MaxStops = 1
INVARIANT PublishedResolves
CHECK_DEADLOCK FALSE

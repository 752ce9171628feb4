CONSTANTS
  Events = {"fed", "seoul"}
  Foreign = {"kalshi:fed"}
  Contents <- MCContents
  Initial = {"seoul"}
  Callers = {"a", "b"}
  Unparsable = Unparsable
  NoName = NoName
  Traded <- MCTraded
  MaxRestarts = 1
SPECIFICATION MCSpec
INVARIANTS
  DiscoveryTypeOK
  AnswersWereTrue
  NothingMissedAtStart
  NamesAreTrue
PROPERTIES
  GoesBackOnlyWhenOvertaken
  CatalogueReachesStore
  TradedMarketsGetNames

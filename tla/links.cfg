SPECIFICATION Spec
CONSTANTS
  t1 = t1
  t2 = t2
  Tasks = {t1, t2}
  KindOf <- TwoPlatforms
  Types = {"IAA", "2.9"}
  IAA = "IAA"
  Urls = {url, bad}
  BadUrls = {bad}
  NoUrl = NoUrl
  AssetIds = {a1}
  NoId = NoId
  NoTask = NoTask
  MaxOps = 2
INVARIANTS
  ReadyIsBuilt
  RecordedConfigsExist
  

  
CHECK_DEADLOCK FALSE

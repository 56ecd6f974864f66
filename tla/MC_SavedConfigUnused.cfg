CONSTANTS
  t1 = t1  t2 = t2  boot = boot
  Tasks = {t1}
  Boot = boot
  Urls = {"a", "b"}
  Keys = {"k", "h"}
  Files <- TwoFiles
  Jobs <- OneSave
  NoConfig = NoConfig
  MaxSaves = 1
SPECIFICATION Spec
INVARIANTS SavedIsUsed

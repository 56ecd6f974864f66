CONSTANTS
  t1 = t1  t2 = t2  boot = boot
  Tasks = {t1, t2}
  Boot = boot
  Urls = {"a", "b"}
  Keys = {"k", "h"}
  Files <- TwoFiles
  Jobs <- SomeJobs
  NoConfig = NoConfig
  MaxSaves = 3
SPECIFICATION Spec
INVARIANTS SettledRegistryMatches BootRunsFile
PROPERTIES MaskedKeyKept SeedingOverwritesNothing
SYMMETRY Symmetry

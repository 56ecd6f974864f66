CONSTANTS
  Unset = Unset
  Urls = {"https://api.openai.com/v1", "http://emb", "http://llm"}
  Ports = {"18080", "9090"}
  Dims = {"384", "768"}
  Catalog <- TwoModels
  DefaultModel = "minilm"
  Typed <- Texts
  Strong = {"Strong1"}
  ExistingFiles <- Files
  Environments <- OneVariable
  MaxEdits = 2
SPECIFICATION WizardSpec
INVARIANTS EveryStepAsked LocalRunsHere RestartFindsSetup RerunStartsFromAnswers
CHECK_DEADLOCK FALSE

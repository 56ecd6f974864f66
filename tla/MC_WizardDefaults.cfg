CONSTANTS
  Unset = Unset
  Urls = {"https://api.openai.com/v1", "http://emb", "http://llm"}
  Ports = {"18080", "9090"}
  Dims = {"384", "768"}
  Catalog <- TwoModels
  DefaultModel = "minilm"
  Typed <- Texts
  Strong = {"Strong1"}
  ExistingFiles <- Files
  Environments <- OneVariable
  MaxEdits = 0
SPECIFICATION WizardSpec
INVARIANT DefaultsArePresented
CHECK_DEADLOCK FALSE

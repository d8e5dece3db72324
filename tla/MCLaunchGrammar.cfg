SPECIFICATION LaunchSpec
CONSTANTS
  Settings <- MCSettings
  Policies = {"file", "strict"}
  Inherited <- MCInherited
  ByHand <- MCByHand
  Files = {"v2", "v3", "gliner2", "image", "redactor"}
  MaxChanges = 1
  Nothing = Nothing
INVARIANT GrammarIsCaptured

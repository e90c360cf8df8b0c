SPECIFICATION CallSpec
CONSTANTS
  Fields = {"a", "b"}
  Texts = {"x", "y"}
  MaxItems = 1
  Depth = 2
  ToolNames = {"search", "other", "reasoning.think"}
  Reserved = {"reasoning.think"}
  AgentSteps = 2
  Lists <- MCLists
  Schemas <- MCSchemas
  Typical <- MCTypical
  Inputs <- MCInputs
  Outputs <- MCOutputs
  Values <- MCValues
  Nesting <- MCNesting
  PartValid <- MCValid
  PartJSONLike <- MCJSONLike
  PartErrors <- MCErrors
  PartJSON <- MCJSON
  PartMeaning <- MCMeaning
INVARIANTS
  OnlyPermitted
  ToolContract
  DefinitionsSettled

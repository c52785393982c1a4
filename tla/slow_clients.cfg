SPECIFICATION FairSpec

CONSTANTS
  c1 = c1
  c2 = c2
  p1 = p1
  p2 = p2
  Client = {c1, c2}
  Prompt = {c1}
  Pane = {p1}
  Capacity = 2
  MaxPublished = 3

INVARIANTS
  PassesCatchUp
  OnlySubscribedPanes

PROPERTIES
  ClientsStream
  PromptClientsCatchUp

SPECIFICATION FairSpec
CONSTANTS
  small = small
  app = app
  game = game
  Proc = {small, app, game}
  Level = {200, 900}
  MinScore = {0, 201}
  Size <- MCSize
  Preferred = {game}
  KillHeaviest = FALSE
  UseHooks = TRUE
  UserdebugBuild = TRUE
  NULL = NULL
INVARIANTS
  MostExpendableFirst
  PreferredSpared
PROPERTY SearchEnds

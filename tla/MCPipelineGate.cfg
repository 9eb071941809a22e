CONSTANTS
  build = build  canary = canary  green = green  blue = blue
  Stage = {build, canary, green, blue}
  Gate = canary
  Protected = {green, blue}
  Order <- MCOrder
  Requisites <- MCRequisites
  NotAList = NotAList
SPECIFICATION FairSpec
INVARIANTS TypeOK CyclesFound GateHolds NeverStuck
PROPERTY AcceptedRuns
CHECK_DEADLOCK FALSE

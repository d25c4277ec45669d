\* Two handles and two cards under fair scheduling.
CONSTANTS
  CardId = {"c1", "c2"}
  Actor = {alice}
  Nobody = Nobody
  CustomStatus = {"review"}
  CustomType = {}
  Label = {}
  Reasons = {FALSE}
  UpdateInput <- MCUpdateInput
  Keep = Keep
  MaxRevision = 2
  Proc = {p1, p2}
  Calls <- TwoCardCalls
  NoProc = NoProc
  NoCall = NoCall
  MaxAttempts = 2
SPECIFICATION FairTxSpec
INVARIANTS Answers
PROPERTIES AtomicCalls CallsReturn

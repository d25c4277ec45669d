\* One card with every built-in status, one custom status and type.
CONSTANTS
  CardId = {c1}
  Actor = {alice, bob}
  Nobody = Nobody
  CustomStatus = {"qa"}
  CustomType = {"spike"}
  Label = {}
  Reasons = {TRUE, FALSE}
  UpdateInput <- MCUpdateInput
  Keep = Keep
  MaxRevision = 5
SPECIFICATION Spec
INVARIANTS TypeOK ClosedOnlyWhenDone
PROPERTIES LeaveDoneOnlyByReopen HolderKeepsClaim ConfigKeepsCategories RevisionPinsContent

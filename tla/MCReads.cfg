\* One reader, two cards.
CONSTANTS
  CardId = {c1, c2}
  Actor = {alice}
  Nobody = Nobody
  CustomStatus = {"review"}
  CustomType = {}
  Label = {}
  Reasons = {FALSE}
  UpdateInput <- MCUpdateInput
  Keep = Keep
  MaxRevision = 2
  PageOptions <- MCPageOptions
  NoRow = NoRow
SYMMETRY Symmetry
VIEW WithoutTrail
SPECIFICATION ReadSpec
INVARIANTS ShownWithRevision VerdictWithRevision

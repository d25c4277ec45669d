\* Three cards, two revisions each, every edge combination.
CONSTANTS
  CardId = {c1, c2, c3}
  Actor = {}
  Nobody = Nobody
  CustomStatus = {}
  CustomType = {}
  Label = {}
  Reasons = {FALSE}
  UpdateInput <- MCUpdateInput
  Keep = Keep
  MaxRevision = 2
SPECIFICATION Spec
INVARIANTS BlockingGraphAcyclic ReferentialIntegrity AuditCurrent
SYMMETRY CardSymmetry

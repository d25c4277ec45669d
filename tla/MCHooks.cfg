\* Two shells, one card.
CONSTANTS
  CardId = {c1}
  Actor = {alice}
  Nobody = Nobody
  CustomStatus = {}
  CustomType = {"spike"}
  Label = {"merge"}
  Reasons = {FALSE}
  UpdateInput <- MCUpdateInput
  Keep = Keep
  MaxRevision = 3
  Proc = {p1, p2}
  Commands <- MCCommands
  HandlerCommands <- MCHandlerCommands
  HookFiles <- MCHookFiles
  NoView = NoView
  NoCommand = NoCommand
SPECIFICATION FairHooksSpec
INVARIANTS EventsAreOwnChanges SynchronousDelivery WakeSignal
PROPERTIES CommandsReturn

SPECIFICATION FairSpec
CONSTANTS
  Threads = {gui, loader, dialog}
  Main = Main
  Nobody = Nobody
INVARIANTS NoCallAfterDestroy NoCallThroughTornDown
PROPERTIES DestroyReturns ImplementsBarrier

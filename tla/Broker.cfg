SPECIFICATION FairSpec
CONSTANTS
    Discovery = Discovery
    App = App
    Extra = Extra
    Terminate = Terminate
    Pause = Pause
    Published = Published
    Chat = Chat
    TerminateAll = Terminate
    None = None
    Components = {Discovery, App, Extra}
    Events = {Terminate, Pause, Published, Chat}
    DataEvents = {Published, Chat}
    DirectEvents = {Chat}
    Subscribable <- MainSubscriptions
    Callbacks <- MainCallbacks
    NumIds = 2
    MaxSent = 3
CHECK_DEADLOCK FALSE
INVARIANTS IdsAreUnique AttachFailsOnlyWhenFull SubscriptionsAreExact DeliveredExactlyInOrder NoAbort
PROPERTY TerminateEndsEveryThread

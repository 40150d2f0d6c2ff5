SPECIFICATION FlagsSpec
CONSTANT MaxDuty = 2
INVARIANTS
    LostOnlyInWindow
PROPERTIES
    DutyServedInOrder
    CommandIsRead
    KeepsMailbox

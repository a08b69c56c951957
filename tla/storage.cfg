\* Two users; the programming PIN and two PINs; year day schedules of 8 bytes in
\* slots of 12; power is lost at any moment and any write may fail.
SPECIFICATION Spec
CONSTANTS
    MaxUsers = 2
    NumberOfUsers = 2
    MaxCredentials = 1
    Names = {"a", "bc", "ghij"}
    NameSize <- MCNameSize
    MaxNameSize = 3
    CredentialIds = {"c1"}
    NumTypes = 2
    MaxIndex = 2
    Data = {"1111", "2222"}
    DataSize <- MCDataSize
    Empty = "empty"
    Rows = 2
    Columns = 2
    UsedRows = 2
    UsedColumns = 2
    SlotSize = 12
    ItemSize = 8
    Schedules = {"s1", "s2"}
INVARIANTS
    UsersTypeOK
    CredentialsTypeOK
    SchedulesTypeOK
    AcceptsCurrentPins
PROPERTIES
    KeepsUsers
    KeepsCredentials
    KeepsWholeSlots

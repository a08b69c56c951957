\* Weekday schedules of 5 bytes in slots of 6.
SPECIFICATION Spec
CONSTANTS
    MaxUsers = 2
    NumberOfUsers = 2
    MaxCredentials = 1
    Names = {"a", "ghij"}
    NameSize <- MCNameSize
    MaxNameSize = 3
    CredentialIds = {"c1"}
    NumTypes = 2
    MaxIndex = 1
    Data = {"1111", "2222"}
    DataSize <- MCDataSize
    Empty = "empty"
    Rows = 2
    Columns = 2
    UsedRows = 2
    UsedColumns = 2
    SlotSize = 6
    ItemSize = 5
    Schedules = {"s1", "s2"}
PROPERTY
    KeepsSchedules

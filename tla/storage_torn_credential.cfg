\* Power is lost between the two keys of a credential.
SPECIFICATION Spec
CONSTANTS
    MaxUsers = 2
    NumberOfUsers = 2
    MaxCredentials = 1
    Names = {"a", "ghij"}
    NameSize <- MCNameSize
    MaxNameSize = 3
    CredentialIds = {"c1"}
    NumTypes = 2
    MaxIndex = 1
    Data = {"1111", "2222"}
    DataSize <- MCDataSize
    Empty = "empty"
    Rows = 2
    Columns = 2
    UsedRows = 2
    UsedColumns = 2
    SlotSize = 12
    ItemSize = 8
    Schedules = {"s1", "s2"}
PROPERTY
    SetIsAllOrNothing

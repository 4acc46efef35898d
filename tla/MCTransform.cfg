SPECIFICATION Spec
CONSTANTS
  PathName <- MCPathName
  FormsOf <- MCFormsOf
  ColumnsOf <- MCColumnsOf
  IdOfRow <- MCIdOfRow
  OwnerSet <- MCOwner
  ItemSet <- MCItem
  MaxEntities = 2
  MaxReports = 2
INVARIANTS RowPerEntity ReadingsKept LatestReadings

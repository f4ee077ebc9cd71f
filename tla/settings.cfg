SPECIFICATION Spec
CONSTANTS
  None = None
  Torn = Torn
  Removal = Removal
  New = New
  Other = Other
  Views <- MCViews
  Uploads <- MCUploads
  MaxRequests = 3
  MaxFaults = 1
INVARIANTS SavedAtStop AcceptedIsUsed
PROPERTY Settles
CHECK_DEADLOCK FALSE

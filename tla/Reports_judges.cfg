SPECIFICATION ReportsSpec
CONSTANTS
  d1 = d1
  d2 = d2
  d3 = d3
  v1 = v1
  v2 = v2
  Spellings = {"plain", "dashed"}
  NotFinite = NotFinite
  SettingsSet <- UsualSettings
  Raws <- SampleRaws
  Kept <- KeptRaws
  Devices = {d1, d2, d3}
  VendorOf <- Vendors
  FieldNames = {1, 2}
  Instants = {1, 3, 4}
  StaleAfter = 2
SYMMETRY DeviceSymmetry
INVARIANTS
  TypeOK
  AcceptedIsSound
  ClearIsInRange
  FieldsAccounted
  TrendFollowsReadings
  WindowsTile
  CompleteCoversAll
  FreshnessAgrees
  HealthyIsReviewed
  WorstFirst

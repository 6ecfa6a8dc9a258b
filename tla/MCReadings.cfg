SPECIFICATION ReadingsSpec
CONSTANTS
    rainAmountCollectionTime = 2
    MaxRain = 3
    MaxTime = 6
    MaxResets = 1
    Measurements <- MCMeasurements
INVARIANTS GaugeTypeOK NeverTooMuch NothingLeftOut WindowsKeepTime RecordsMeasurement
CHECK_DEADLOCK FALSE

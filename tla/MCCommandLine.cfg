SPECIFICATION Spec
CONSTANTS
  Words <- MCWords
  WordLen <- MCWordLen
  LineMax = 5
  MaxTokens = 2
  Interval = 3
  MaxIteration = 2
  Wrap = 5
  MaxUnits = 5
INVARIANT TypeOK
PROPERTIES LineReadAsTyped TelemetrySpaced TelemetryComes

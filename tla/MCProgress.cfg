CONSTANTS
  None = None
  Parts = {"events", "startup", "control", "provider", "calls", "server", "transport",
           "credentials"}
SPECIFICATION ProgressSpec
PROPERTIES RequestsAreAnswered CallsEnd
CHECK_DEADLOCK FALSE

CONSTANT
  Parts = {"provider", "registry", "calls", "client", "stream", "server", "host",
           "transport", "cleanup", "credentials", "dispatch"}
SPECIFICATION ServicesSpec
INVARIANTS McpIsOrderly ProcessesEndClean DispatchIsRecorded
PROPERTIES ProvidersAreBounded SessionsAreReleased
CHECK_DEADLOCK FALSE

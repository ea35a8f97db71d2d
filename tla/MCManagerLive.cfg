\* With these requests, two calls create at most one more miner.
CONSTANTS
  Handlers = {h1, h2}
  Main = main
  Nobody = nobody
  Off = off
  Configs = {c1}
  Requests = {"start", "stop", "status"}
  MaxMiners = 2
  MaxCalls = 2
SPECIFICATION FairSpec
PROPERTIES
  RequestsReturn
  StopEndsSession
  StopEndsWorkers
  Reconnects

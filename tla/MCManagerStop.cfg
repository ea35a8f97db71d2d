CONSTANTS
  Handlers = {h1}
  Main = main
  Nobody = nobody
  Off = off
  Configs = {c1}
  Requests = {"stop"}
  MaxMiners = 1
  MaxCalls = 1
SPECIFICATION FairSelectSpec
PROPERTIES
  StopEndsRun

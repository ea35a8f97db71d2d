\* Two requests in flight at a time, two in all: with the start of main()
\* they can create up to three miners.
CONSTANTS
  Handlers = {h1, h2}
  Main = main
  Nobody = nobody
  Off = off
  Configs = {c1, c2}
  Requests = {"start", "stop", "restart", "update", "status"}
  MaxMiners = 3
  MaxCalls = 2
SYMMETRY Symmetry
SPECIFICATION Spec
INVARIANTS
  TypeOK
  QuitMatchesRunning
  RunningConfigCurrent
  NoConnLeak
PROPERTY
  SwitchSpec

\* sqld: every command line and environment failure, and a user who keeps
\* pressing CTRL-C.  bottomless-cli: every command line, environment and
\* failing call.
CONSTANTS
  d1 = d1
  d2 = d2
  f1 = f1
  f2 = f2
  Unreadable = Unreadable
  Digests = {d1, d2}
  Files = {f1, f2}
  MaxLines = 3
SPECIFICATION ProgramsSpec
INVARIANT StartupFailsOnlyOnEnvironment
INVARIANT ExtensionListChecked
INVARIANT ReplicatorSeesDetectedTarget
INVARIANT PanicsOnlyOnNamespace
PROPERTY SqldShutsDownEventually

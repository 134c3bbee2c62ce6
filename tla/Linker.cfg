\* Processes end: the linker after it wrote the file, the start of the machine
\* when the program is loaded or rejected.
CHECK_DEADLOCK FALSE
CONSTANTS
  COMMON_PREDICATES = 2
  REGISTER_OFFSET = 2
  Inputs <- MCInputs
  Main = "m"
  Data = "d"
  md_file <- MCDefinitions
  DummyPath = "dummy"
  Garbage = {0, 3}
  Unset = Unset
SPECIFICATION Spec
INVARIANTS
  OutputReadsBack
  ReferencesKept
  NothingElse
  DataMeansSame

SPECIFICATION Spec
CONSTANTS
  Sources = {"page", "own", "stub", "lib", "attr"}
  SourceOf <- MCSourceOf
  Names = {"main", "part"}
  Registrations <- MCRegistrations
  ValidNames = {"f", "x", "py", "_html_template_htmlescaper"}
  Extensions <- MCExtensions
  PythonFunctions <- MCPythonFunctions
  Policies <- MCPolicies
  NoSandbox = NoSandbox
  MaxExtensions = 2
  MaxSources = 2
  HardDepth = 3
INVARIANTS
  NamespaceIsLatest
  RendersAgree
  NothingUnresolved
  SandboxKept
  ExtensionsIntact
CHECK_DEADLOCK FALSE

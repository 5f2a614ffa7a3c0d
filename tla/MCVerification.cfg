SPECIFICATION Spec
CONSTANTS
  Names <- MCNames
  Interfaces <- MCInterfaces
  Exemptions <- MCExemptions
  Exports = {"a", "b"}
  ImportKinds = {"function", "instance"}
  ExportKinds = {"function", "resource", "type"}
  MaxImports = 2
INVARIANTS TypeOK NamesEveryFunction
CHECK_DEADLOCK FALSE

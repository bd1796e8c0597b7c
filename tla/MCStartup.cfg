\* Options, sections and certificates in all the ways the code tells apart.
CONSTANTS
  Settings <- SomeSettings
  Forms <- SomeForms
  Values <- SomeValues
  None = None
  Bad = Bad
  Broken = Broken
SPECIFICATION Spec
INVARIANTS SectionsServed AliasIsItsParameters

\* Requests with parameters of every kind.
CONSTANTS
  Settings <- SomeSettings
  Forms <- SomeForms
  Values <- SomeValues
  None = None
  Bad = Bad
  Broken = Broken
SPECIFICATION Spec
INVARIANT ScrapesAskTheBroker

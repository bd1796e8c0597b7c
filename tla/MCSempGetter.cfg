\* Every getter against every listing of up to three items in up to three pages.
CONSTANTS
  Items <- ThreeItems
  Odd <- OddItem
  PageLists <- ThreePages
SPECIFICATION Spec
INVARIANTS TypeOK BodiesClosed OneConnection ReturnIsTruthful NoItemSentTwice
PROPERTIES EveryGetterEnds

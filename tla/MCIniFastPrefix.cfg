CONSTANTS
  Chars = {"a", "A", "b"}
  Rank <- MCRank
  Names <- MCNames
  Queries <- MCQueries
  Null = Null
  MaxSections = 4
  MaxSame = 2
SPECIFICATION Spec
INVARIANT PrefixListsAll

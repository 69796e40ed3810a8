CONSTANTS
  r1 = r1
  r2 = r2
  r3 = r3
  None = None
  NoKey = NoKey
  NoHash = NoHash
  EmptyHash = EmptyHash
  NoInput = NoInput
  NoPost = NoPost
  Titles = {"lamp", "mug", "chair"}
  Seeded <- MCSeeded
  NewListings <- MCNewListings
  Patches <- MCPatches
  Feeds <- MCFeeds
  Limits = {1, 2}
  MaxEvents = 4
  Calls = {r1, r2, r3}
  Posts <- MCPosts
  Items <- MCItems
  Accounts <- MCAccounts
  Alias <- MCAlias
  Numeral <- MCNumeral
  Products = {1, 2}
  Matches <- MCMatches
  SameName <- MCMatches
  ProductSeller <- MCProductSeller
  Active = {1, 2}
  Price <- MCPrice
  InitialStock <- MCStock
  InitialBalance <- MCBalance
  Statuses = {"shipped"}
SPECIFICATION Spec
SYMMETRY Symm
CHECK_DEADLOCK FALSE
INVARIANTS
  TypeOK
  CacheAgreesWithKeys
  SameKeySameOrder
  PaidByCaller
  WalkMissesNothing
  WalkRepeatsNothing

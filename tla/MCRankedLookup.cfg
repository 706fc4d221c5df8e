\* A session and a hot reload at any moment.
CONSTANTS
  Sessions = {s1}
  s1 = s1
  Star = "*"
  KanjiChars <- MCKanjiChars
  LowerOf <- MCLowerOf
  KanaKey <- MCKanaKey
  Kana <- MCKana
  ShortSuffixes <- MCShort
  LongSuffixes <- MCLong
  LongestSuffixes <- MCLongest
  DictSuffixes <- MCDictSuffixes
  NounEndings <- MCNounEndings
  StemEndings <- MCStemEndings
  Words <- MCWords
  OkuriWords <- MCOkuriWords
  Midashi <- MCMidashi
  Dictionary <- MCDictionary
  Contexts <- MCContexts
  Primary <- MCPrimary
  Fallback <- MCFallback
  Presets <- MCPresets
  UserDicts <- MCUserDicts
  Seeds <- MCSeeds
SPECIFICATION Spec
INVARIANTS
  TypeOK
  RankedByOneTable
  NothingLost
  ScoresFromSeed
  ExpansionIsStable
  SpellingsAgree
  ImportIsIdempotent
  UserOrderServed
PROPERTY ShownIsPending
CHECK_DEADLOCK TRUE

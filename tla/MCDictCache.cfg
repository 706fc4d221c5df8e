\* Two tasks judge candidates over a small cache.
CONSTANTS
  t1 = t1
  t2 = t2
  Tasks = {t1, t2}
  MaxEntries = 3
  Judged <- MCJudged
  Star = "*"
  KanjiChars <- MCKanjiChars
  LowerOf <- MCLowerOf
  KanaKey <- MCKanaKey
  Kana <- MCKana
  ShortSuffixes <- MCShort
  LongSuffixes <- MCLong
  LongestSuffixes <- MCLongest
  DictSuffixes <- MCDictSuffixes
  NounEndings <- MCNounEndings
  StemEndings <- MCStemEndings
  Words <- MCWords
  Midashi <- MCMidashi
  Dictionary <- MCDictionary
  Presets <- MCPresets
SPECIFICATION Spec
SYMMETRY Symmetry
INVARIANTS
  TypeOK
  CacheBounded
  VerdictIsDictionary

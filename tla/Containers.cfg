SPECIFICATION MCSpec
CONSTANT Kinds = {"crypt", "tree", "solaris", "libavl", "list", "hlist", "bits", "clear", "comb", "array",
                  "lines", "open1", "open2", "dups", "uniq", "shared", "private", "kiss"}
CONSTANTS
  Algs = {"aes", "rc4", "md5", "sha1", "sha256"}
  Cases <- AesCases
  Rc4Size = 16
  Rc4Key <- ShortKey
  Rc4Text <- ShortText
  WordBits = 9
  MaxLen = 580
  Pieces = {0, 1, 7, 55, 56, 63, 64, 65, 130, 500}
INVARIANT StreamsSurvivePieces
INVARIANT TreesRepresent
INVARIANT SequencesRepresent
INVARIANT BitmapsRepresent
INVARIANT TablesRepresent
INVARIANT SharedMapIsAsCalled
INVARIANT NoUnitTwice
CHECK_DEADLOCK FALSE

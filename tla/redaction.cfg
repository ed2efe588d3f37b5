SPECIFICATION RedactionSpec
CONSTANTS
  Literal <- MCLiteral
  Word <- MCWord
  Rule <- MCRule
  Format = {"'CSV'"}
  Compression = {"'gzip'"}
  Azure = {"'AccountKey=k'"}
  Shape <- MCShape
  Trees <- MCTrees
  Texts <- MCTexts
  Yamls <- MCYamls
  Files <- MCFiles
INVARIANTS
  SqlAsParsed
  YamlByNearestKey
  NothingSensitiveShipped
  OnlyUnparsedLeaveTags
CHECK_DEADLOCK FALSE

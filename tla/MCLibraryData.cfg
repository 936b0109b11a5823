SPECIFICATION LibrarySpec
CONSTANTS
  ClassLists <- MCClassLists
  Texts <- MCTexts
  ProtoLists <- MCProtoLists
  LangLists <- MCLangLists
  Ids <- MCIds
  ProfileLists <- MCProfileLists
  FeatureLists <- MCFeatureLists
  FirstHandle = 65541
  MaxEdits = 2
INVARIANTS
  ClientsReadWhatWasSet
  PdusFit
  SearchFindsRecord
  CopyServesTheSame
  NamesFitAndRead
CHECK_DEADLOCK FALSE

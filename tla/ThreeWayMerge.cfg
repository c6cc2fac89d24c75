SPECIFICATION Spec
CONSTANTS
  Users = {u1, u2}
  Names = {"d", "f"}
  Contents = {"x", "y"}
  MaxDepth = 2
  MaxEdits = 2
INVARIANT TypeOK
PROPERTIES MergeKeepsEveryonesWork HeadKeepsItsPaths MergeKeepsDirectories MergeIsFair

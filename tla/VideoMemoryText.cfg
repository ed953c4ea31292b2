SPECIFICATION VideoSpec
CONSTANT
    Groups = {"paging", "mode"}
INVARIANT TextScreenCurrent

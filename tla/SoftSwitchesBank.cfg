SPECIFICATION SwitchSpec
CONSTANT
    Groups = {"card"}
INVARIANT WritesGoToSelectedBank

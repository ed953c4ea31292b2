SPECIFICATION SwitchSpec
CONSTANT
    Groups = {"card", "state", "torn"}
INVARIANT SaveAssertion

\* The language card and the slots, with saves and loads, also torn ones.
SPECIFICATION SwitchSpec
CONSTANT
    Groups = {"card", "slots", "state", "torn"}
INVARIANTS
    CardPointers RoundTrip

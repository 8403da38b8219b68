SPECIFICATION ReleaseSpec
CONSTANTS
    Classes <- MCClasses
    Leaves <- MCLeaves
    Policy <- MCPolicy
    TestLeaf <- MCTestLeaf
    Uplinks = 2
    Target = 6
    Floor = 6
    Batch = 6
    Lineages = {"v2", "v3"}
    Leftovers = {"healthy_control", "impaired_link"}
    MaxSetbacks = 2
    MaxRows = 10
INVARIANTS
    VerdictStands
    EmittedWithoutLeakage
    ManifestBindsCorpus

SPECIFICATION FairSpec
CONSTANTS
    Classes <- MCClasses
    Leaves <- MCLeaves
    Uplinks = 2
    Target = 9
    Batch = 3
    Lineages = {"v2"}
    Leftovers = {"admin_shutdown", "carrier_loss", "intermittent_link", "rate_limited_uplink", "impaired_link", "healthy_control"}
    MaxSetbacks = 2
    MaxRows = 24
INVARIANTS
    NotOverfilled
    LabelsAreTrue
PROPERTIES
    CorpusCompletes

SPECIFICATION Spec
CONSTANTS
    None = None
    RuntimeProfile = "docker-dev"
    GraphMemoryBackend = "neo4j"
    Generations <- MCGenerations
    WorkedCases = {1, 4}
    WorkedEdges = {4, 27}
    WorkedVehicles = {3, 13}
    MaxWork = 3
PROPERTIES
    SetupIsIdempotent
    SetupKeepsWork

CONSTANTS
    Node <- CountyNode
    Edge <- CountyEdge
    Road <- CountyRoad
    Queries <- CountyQueries
SPECIFICATION Spec
INVARIANTS
    AnswerIsCertified
    FindsCheapest

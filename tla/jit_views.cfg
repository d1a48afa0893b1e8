SPECIFICATION Spec
CONSTANTS
    STTree <- MCSTTree
    STConfigs <- MCSTConfigs
    TMTree <- MCTMTree
    TMConfigs <- MCTMConfigs
    Charts <- MCCharts
    ExtrasConfigs <- MCExtrasConfigs
    MotionConfigs <- MCMotionConfigs
    Graphs <- MCGraphs
    Root = "a"
    Budget = 3
    Trees <- MCTrees
    Treemaps <- MCTreemaps
    NodeShapes <- MCNodeShapes
    EdgeShapes <- MCEdgeShapes
    PointerPlaces <- MCPoints
INVARIANTS
    
    LayoutsRight
    
    
    MotionRight
    LabelsRight
PROPERTIES
    StepsKeepPlace
CHECK_DEADLOCK FALSE

SPECIFICATION RenderSpec
CONSTANTS
    cap_vtx = 2048
    cap_idx = 8096
    size = 8
    width = 4
    height = 3
    CoordHalf = 16
    App <- MC_App
CHECK_DEADLOCK FALSE
INVARIANTS MeshFits SurfaceClosed FrameShown
PROPERTY FrameEnds

SPECIFICATION DisplaySpec
CONSTANTS
    THD = 8
    TVD = 6
    THB = 3
    THFP = 2
    THPW = 2
    TVB = 2
    TVFP = 2
    TVPW = 2
    HRANGE = 16
    VRANGE = 16
    PITCH = 4
INVARIANTS DisplayType PanelInStep PixelShown LinearAddress
PROPERTY FramesGoOn

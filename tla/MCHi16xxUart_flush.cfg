CONSTANTS
    Depth = 2
    Clks = {200000000}
    Bauds = {115200, 9600}

SPECIFICATION FairSpec

PROPERTY FlushDrains

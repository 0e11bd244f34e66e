SPECIFICATION FairSpec
CONSTANTS
    NumButtons = 3
    DEBOUNCE_TIME = 2
    HELD_TIME = 5
    START_TIME = 7
    Gaps = {1, 2, 3}
    Clocks = {0, 7, 15}
PROPERTIES
    ClicksArePresses
    HoldIsReported

CONSTANTS
    Bad = Bad
    Timing <- MCTiming
    Candidates <- MCCandidates
    Answers <- MCAnswers
    Start <- MCStart
    Horizon <- MCHorizon
SPECIFICATION Spec
CHECK_DEADLOCK FALSE
INVARIANTS
    BootAdviceSeen
    StopBounded
PROPERTIES
    DwellStable
    AdviceSettled

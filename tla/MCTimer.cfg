SPECIFICATION FairSpec
CONSTANTS
    t1 = t1
    t2 = t2
    t3 = t3
    Timer = {t1, t2, t3}
    NULL = NULL
    First <- ThreeFirst
    Round <- ThreeRound
    NewTimes <- NewTimesSet
    MsgNum = 1
    MaxLag = 0
INVARIANTS
    TypeOK
    ListedMeansActive
    

    

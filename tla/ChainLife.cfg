CONSTANTS
    Requests = {r1, r2}
SPECIFICATION FairSpec
INVARIANTS TypeOK AnsweredOnce EffectsEarned
PROPERTIES AnsweredInTime

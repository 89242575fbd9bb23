CONSTANTS
    Jobs <- AllJobs
    MaxTime = 60
SPECIFICATION Spec
INVARIANTS TypeOK QueuesAgree Complete SimulatedInTime
PROPERTIES EarliestFirst AbstractSpec

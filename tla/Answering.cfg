CONSTANTS
    Requests = {r1, r2}
    Configurations <- SomeConfigurations
    Inquiries <- SomeInquiries
    Findings <- SomeFindings
    MinPassages = 1
    MaxStarts = 2
SPECIFICATION Spec
INVARIANTS
    AnswersItsSources
    NothingInVain
    VerdictExplained
CHECK_DEADLOCK FALSE

SPECIFICATION FairIntakeSpec
CONSTANTS
    Wizards = {t1}
    Clients = {script}
    Ideas = {ideaA, ideaB}
    TooShort = TooShort
    MaxRequests = 3
    MaxPages = 2
    MaxDeletes = 1
INVARIANTS
    PressingAgainIsOneCampaign
    ProgressIsOfTheIdeaShown
PROPERTY PressIsAnswered
CHECK_DEADLOCK FALSE

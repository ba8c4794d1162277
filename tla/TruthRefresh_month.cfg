CONSTANTS
    close = close
    cron28 = cron28
    Job = {close, cron28}
    None = None
    Mixed = Mixed
    Returns = FALSE
    MaxWanted = 2
SPECIFICATION Spec
INVARIANT TypeOK
PROPERTIES OkMeansLive RefreshedFromVerified

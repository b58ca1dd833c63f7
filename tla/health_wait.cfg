SPECIFICATION FairSpec
CONSTANT Services = {postgres, redis, s3}
CHECK_DEADLOCK FALSE
PROPERTY WaitEnds

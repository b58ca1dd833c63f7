SPECIFICATION FairSpec
CONSTANT Services = {postgres, redis, s3}
CHECK_DEADLOCK FALSE
INVARIANTS TypeOK BodyAccurate
PROPERTY Returns

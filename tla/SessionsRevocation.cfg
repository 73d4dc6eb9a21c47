\* One access token, and the first revocation of the deployment.
SPECIFICATION SessionsSpec
CHECK_DEADLOCK FALSE
CONSTANTS
  NLogins = 1  NRefreshes = 0  NRevocations = 1  NChecks = 1
INVARIANT RevokedAtOnce

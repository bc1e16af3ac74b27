SPECIFICATION AnimSpec
CONSTANTS
  AnimationPlans <- MCAnimationPlans
  Motions <- MCMotions
  Defaults <- MCDefaults
  Hashes <- MCHashes
INVARIANT GroupPolicySharesOneChoice
CHECK_DEADLOCK FALSE

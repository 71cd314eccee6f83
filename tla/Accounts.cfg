\* One account in every situation and any three calls that touch it at a time.
CONSTANTS
  u1 = u1
  s1 = s1
  s2 = s2
  c1 = c1
  c2 = c2
  c3 = c3
  None = None
  User = {u1}
  Subject = {s1, s2}
  Email <- Addresses
  Call = {c1, c2, c3}
  SeatLimit = 1
  Operation = {"createUser", "resendInvite", "revokeInvite", "updateUser", "requestPasswordReset", "requestVerification", "signIn", "bootstrapOwner", "completeInvite", "resetPassword", "verifyEmail", "expire", "googleInvite", "googleSignIn", "googleSignUp", "linkGoogle", "linkPending", "unlinkGoogle"}
  Beginning = {"nobody", "invited", "unverified", "verified", "disabled"}
SPECIFICATION GoogleSpec
SYMMETRY CallSymmetry
INVARIANTS
  VerifiedByProof
  SessionsMatchPassword
  MembershipFollowsUser
  NobodyIsLockedOut
  AcceptedOnce
PROPERTIES
  VerificationIsLostOnlyToAStaleRead
  ReopenedOnlyByAdmin
CHECK_DEADLOCK FALSE

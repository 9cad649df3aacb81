\* Verifications one after another under either profile.
SPECIFICATION Spec
CONSTANTS
  Manifest <- PackagedAnchors
  Addresses = {1, 2}
  MaxFlaws = 1
  None = None
INVARIANTS
  EntryIsOwn
  VerifiedIsSound
  GenuineIsVerified
  ProductionIsProduction

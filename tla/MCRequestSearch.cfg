\* Every row, document, sharing and membership of two users and two groups.
SPECIFICATION Spec
CONSTANTS
  alice = alice
  bob = bob
  staff = staff
  community = community
  Users <- MCUsers
  Groups <- MCGroups
  Communities <- MCCommunities
  Creators <- MCCreators
  Receivers <- MCReceivers
  Reviewable <- MCReviewable
  Sharable <- MCSharable
  Joiners <- MCJoiners
INVARIANTS
  TypeOK
  FoundIfReadable
  ListedOnce
  OffersHold

CONSTANTS
  None = None
  Forged = Forged
  r1 = r1
  r2 = r2
  alice = alice
  bob = bob
  Requests <- MCRequests
  Users <- MCUsers
  Entitled <- MCEntitled
  MaxCrashes = 1
SPECIFICATION Spec
INVARIANTS TypeOK AuditedOnce AuditIsTrue NoStrangerUpstream
PROPERTIES OnlyCallsTakeDown Accountable

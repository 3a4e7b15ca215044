SPECIFICATION MCSpec
CONSTANTS
  Users = {u1, u2}  Tokens = {t1}  Callers = {c1, c2}  Nobody = Nobody
  a1 = a1  a2 = a2  None = None
  Codes = {a1, a2}  Signups <- MCSignups
  CodeOf <- MCCodeOf  SlotOf <- MCSlotOf  UserOf <- MCUserOf
  Tabs = {tab1, tab2}  MaxTokens = 3
SYMMETRY Alike
INVARIANTS RetryOfAPairedDevice AdminTokensHaveAdmins
PROPERTIES AnAdminRemains IdentityPersists
CHECK_DEADLOCK FALSE

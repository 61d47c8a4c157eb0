\* Staff accounts: logins, sessions, two-step login and the Staff page.
CONSTANTS
  boss = boss
  bar = bar
  d1 = d1
  s1 = s1
  s2 = s2
  NoUser = NoUser
  Users <- MCUsers
  Admins <- MCAdmins
  Seeded <- MCSeeded
  SetUp <- MCSetUp
  Devices <- MCDevices
  Slots <- MCSlots
  Departments <- MCDepartments
  PageChoices <- MCPageChoices
  MaxCodeAttempts = 1
  MaxLogins = 1
  MaxSecrets = 2
  MaxStep = 1
  MaxStaffOps = 2
  MaxFaults = 1
  MaxOverlaps = 1
SYMMETRY Symmetric
CHECK_DEADLOCK FALSE
SPECIFICATION Spec
INVARIANTS
  TypeOK
  
  CodesRise
  FewGuesses
  RedirectsEnd
  AdminModeOpens

SPECIFICATION MCSpec
CONSTANTS
  Rollcalls = 2
  Cap = 2
  Admins <- MCAdmins
  Mishaps = 1
  Horizon = 1
  Once <- MCOnce
  Hours = 1
INVARIANTS ClockOK ListIsTheActiveRows CountedOnce
PROPERTIES ActsAsDecided RegistrySpec AutoCloses

SPECIFICATION MCSpec
CONSTANTS
  a1 = a1
  a2 = a2
  a3 = a3
  Accounts = {a1, a2, a3}
  Shared <- MCShared
  MinFailed = 2
  Jobs = {j1, j2}
INVARIANTS PagesAgree BookIsTold
PROPERTIES BannerIsOwn AlertIsTold
CHECK_DEADLOCK FALSE

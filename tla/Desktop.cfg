SPECIFICATION Spec
CONSTANTS
  Users = {u1, u2}
  Groups = {g1}
  MaxMessages = 2
  MaxWindows = 2
  MaxSends = 1
  Nobody = Nobody
INVARIANTS SlotKeepsNotices WindowShowsAll HistoryComplete
PROPERTY NoticeShown
CHECK_DEADLOCK FALSE

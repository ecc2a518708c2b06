CONSTANTS
  Sends = {m1, m2}
  Rooms = {c1, c2}
  MaxVisits = 2
  MaxLosses = 1
  Handle = "b"
  MaxAnswers = 2
  MaxForwards = 1
  First = "a"
  Newest = 4
  Mirrored = 3
  ReadTo = 1
  Mine = {3}
  Tall = {3}
  PageSize = 2
  Width = 1
  Lines = {1, 2, 4, 9}
  MaxHands = 3
  MaxNews = 1
  Fetched = 1
  Around = 0
  MaxGestures = 2
  MaxChanges = 1
  Starts = {{1, 3}, {}}
  MaxCalls = 2
  Chats = {"a", "b"}
  NoChat = "none"
  HistoryMax = 2
  MaxTexts = 3
  MaxPresses = 4
SPECIFICATION MCSpec
CHECK_DEADLOCK FALSE
SYMMETRY Symmetry
INVARIANTS WordsAtHome SendsShownOnce OneChatOnScreen  MarksStayPut
PROPERTIES ScreenIsTheUsers

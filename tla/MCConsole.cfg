SPECIFICATION Spec
CONSTANTS
  cols = 3
  rows = 2
  Word = 256
  max_size = 5
  Prompt <- MCPrompt
  Keys <- MCKeys
  Messages <- MCMessages
  Replies <- MCReplies
  MaxKeys = 6
  MaxReplies = 2
INVARIANTS TextOnScreen LineOnScreen 
CHECK_DEADLOCK FALSE

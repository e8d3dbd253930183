SPECIFICATION FairSpec
CONSTANTS
  bot = bot
  http = http
  Caller <- Two
  Loop = loop
  Reaper = reaper
  Guardian = guardian
  Nobody = nobody
  Attempts = 2
  MaxLate = 1
INVARIANTS
  TypeOK
  DirectSticks
PROPERTIES
  Answered
  Promoted

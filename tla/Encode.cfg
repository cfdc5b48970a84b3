SPECIFICATION MCSpec
CONSTANTS
  InitText = 4128
  Autosize = 24
PROPERTIES CodeMeans FollowsRight

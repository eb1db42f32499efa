CONSTANTS
  MaxId = 1
SPECIFICATION RecordsFairSpec
INVARIANTS
  RecordingIsKept
  TaskIsLeftAlone
  MenuIsAboutIt
  DownloadIsWhole
PROPERTIES
  ViewComesBack
  RecordsStay

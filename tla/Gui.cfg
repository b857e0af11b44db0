SPECIFICATION Spec
CONSTANTS
  Folders <- MCFolders
  NoFolder = NoFolder
  Groups <- MCGroups
  MaxTicks = 3
INVARIANTS
  LastTextIsOfTheEnd
  DatabaseOfEarliestFile
  ReadsWhatWasTicked
  RunsAsShown
  FinishedMeansDone
PROPERTIES
  OneRunOnly
  ListsStayWhileReading
  ExecuteIsAnswered

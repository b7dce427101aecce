SPECIFICATION FrontEndSpec
CONSTANTS
  MaxFiles = 2
  MaxEdits = 2
  MaxText = 3
  Fields = {f1, f2}
  MaxTyped = 2
  Users = {"a", "b", "c", "d"}
  Strangers = {"x"}
  MaxOwners = 3
  Rows = {"a", "b", "c"}
  MaxLinks = 2
  Pictures = {"a", "b", "big"}
  BigPictures = {"big"}
  Texts = {"blank", "t"}
  LinkTexts = {"t"}
  Attachments = {"f", "big"}
  BigAttachments = {"big"}
  AllProjects = {1, 2}
  MyProjects = {1}
  MaxDepth = 2
  TabNames <- TwoTabs
  Hashes = {"following", "featured", "elsewhere", "no hash"}
  Featured = "featured"
  NewsPosts = {"n1", "n2"}
  MaxChanges = 2
  Widths <- FivePictures
  Screens = {2, 3, 5}
  Routes = {"r", "q"}
  Durations = {1, 2}
  MaxData = 2
  MaxRecent = 2
  MaxEnd = 3
  MaxBlocks = 3
  Units = {65, 233, 8364, 55357}
  ShortNames = 3
  LongNames = {19, 20, 57, 58}
  ScannedPictures <- AllPictures
INVARIANTS OwnersSound FormsSendWhatTheyShow PagesShow ScanFindsText CorrectionSound
PROPERTIES EditorKeepsText PreviewCatchesUp
CHECK_DEADLOCK FALSE

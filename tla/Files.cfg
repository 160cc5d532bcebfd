CONSTANTS
  u1 = u1  u2 = u2  d1 = d1  d2 = d2
  None = None
  Uploads <- TwoUploads
  Downloads <- TwoDownloads
  Size <- Sizes
  MaxFileSize = 2
SPECIFICATION FairSpec
INVARIANT TypeOK UploadedIsKept ServedAsDescribed
PROPERTY StorageReclaimed

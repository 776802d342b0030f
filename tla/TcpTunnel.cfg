SPECIFICATION Spec
CONSTANTS
    u1 = u1
    u2 = u2
    Users = {u1, u2}
    Sends <- SmallSends
    Answers <- SmallAnswers
    MaxEvents = 1
    None = None
INVARIANTS
    UploadKept
    DownloadContiguous
    EndedIsGone
    HolderWaits
CHECK_DEADLOCK FALSE

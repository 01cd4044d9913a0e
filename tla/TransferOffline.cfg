\* The recipient loses the server mid-transfer.
SPECIFICATION FairSpec
CONSTANTS
  Strangers = {}
  MayVanish = FALSE
PROPERTY
  OfflineTold

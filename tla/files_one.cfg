SPECIFICATION FairSpec
CONSTANTS
  u1 = u1
  u2 = u2
  r1 = r1
  owner1 = owner1
  t1 = t1
  volume = volume
  Uploads = {u1, u2}
  Recordings = {r1}
  Texts = {t1}
  Devices = {volume}
  DbDevice = volume
  VoiceDevice = volume
  MinFree = 1
  Allowance = 1
  TextBytes = 3
  VoiceBytes = 2
  VoiceLimit = 2
  WriteLimit = 1
  WriteWindow = 1
  HandoffTime = 1
  Owner <- OneOwner
  MaxStreams = 1
  Grace = 1
  Limit = 1
  Disk <- SmallDisk
  NoRecording = NoRecording
INVARIANTS
  TypeOK SegmentHasFile NoFileForgotten CapacityBalances DiskKeepsReserve
PROPERTIES
  UnusedFilesGo

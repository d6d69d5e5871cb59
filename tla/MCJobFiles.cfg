SPECIFICATION Spec
CONSTANTS
  u1 = u1
  u2 = u2
  r1 = r1
  r2 = r2
  f1 = f1
  f2 = f2
  NoFile = NoFile
  NoOne = NoOne
  Uploads <- MCUploads
  Requests <- MCRequests
  Finalizers <- MCFinalizers
  Forms <- MCForms
  MaxJob = 2
  MaxLoad = 4
  MaxDeaths = 1
SYMMETRY Symmetry
CHECK_DEADLOCK FALSE
INVARIANTS TypeOK WhatWasUploaded SynthesisFitsReport HeadlineWasReported ReportIsReadable

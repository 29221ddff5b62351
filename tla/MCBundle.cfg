CONSTANTS
  CertFiles = {"certificates/1.json", "certificates/2.json"}
  MaxBundleBytes = 11
  MaxFileBytes = 2
  MaxFiles = 9
  ClockSkew = 1
  NoDigest <- MCNoDigest
  NoPath = NoPath
  NoRoot = "no root"
  Bundles <- MCBundles
  Options <- MCOptions
  Runs <- MCRuns
  BindingV1Cutover = 6
  CleaningCounterStart = 3
SPECIFICATION FairCommandSpec
INVARIANTS
  ValidIsEarned
  ValidIsIntact
  AnchorsAreDistinct
  BoundMeansBound
  ValidAnchors
  ValidHasNoHole
  DowngradeIsNotValid
  CleaningStepsStayCounted
  WhatTheLabelLeavesOutHolds
PROPERTY Exits
CHECK_DEADLOCK FALSE

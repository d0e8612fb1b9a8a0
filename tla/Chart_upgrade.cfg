SPECIFICATION FairSpec
CONSTANTS
  Trees <- TwoFiles
  MaxKills = 1
INVARIANT TypeOK
PROPERTIES MountsKept ImagesKept SizeRequired ServicesRouted UpgradesSettle

SPECIFICATION CmdDumpMetadataSpec
CONSTANTS
  Dumps <- MCDumps
  MetadataTypes = {"merkle_tree", "descriptor", "signature"}
  MetadataSizes = {0, 1, 2, 5}
  DefaultLength = 2
  SizeMax = 8
INVARIANTS
  DumpInOrder
  DumpComplete
PROPERTIES
  DumpTermination

SPECIFICATION ListSpec
CONSTANT Files <- ShortFiles
INVARIANTS Reassembles Unambiguous UnpackedAsGenerated

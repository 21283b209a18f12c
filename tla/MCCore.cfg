SPECIFICATION MCSpec
CONSTANTS
  Parts = {"writer", "dispenser", "reader", "ring", "pool", "switch", "queue", "ipc", "registry", "scalar", "codec", "json", "carrier", "args"}
  Syncers = {s1}
  Flusher = Flusher
  Unheld = Unheld
  Sizes = {0, 1, 2}
  Buffers = {2, 3}
  MaxWrites = 3
  Writers = {w1, w2}
  Flushers = {f1}
  Pieces = {1, 2}
  MaxGranted = 3
  MaxOutputs = 2
  Callers = {c1, c2}
  Length = 2
  MaxRead = 2
  MaxReads = 3
  MaxCalls = 3
  Values = {a, b, c}
  Zero = zero
  Capacity = 3
  Lockers = {l1, l2, l3}
  Items = {x, y, z}
  Wants = {{x, y}, {y, z}, {z, x}}
  MaxCap = 2
  MaxTasks = 4
  TypeNames = {1, 2, 3, 4, 5, 6, 7}
  Primitives = {1}
  Prototypes <- MCPrototypes
  Blueprints <- MCBlueprints
  Registrants = {g1, g2}
  Radix = 16
  Word = 3
  BadChar = 15
  KeyLength = 2
  ValidKeys <- MCKeys
  SizeBits = 5
  HashBits = 4
  DigitBits = 3
  Types <- MCTypes
  MaxDepth = 5
  MaxFrames = 12
  MaxBytes = 40
  MaxNodes = 4
  Programs <- MCPrograms
  Samples <- MCSamples
  CarrierProgram <- MCCarrierProgram
  CarrierTypes <- MCCarrierTypes
  GoValues <- MCGoValues
  GoObjects <- MCGoObjects
  GoKeys <- MCGoKeys
  MaxElems = 2
  Structs <- MCStructs
  StructArgs <- MCStructArgs
  MapArgs <- MCMapArgs
  RawArgs <- MCRawArgs
  Flags <- MCFlags
  MaxNamed = 2
  Subscribers = {s1, s2}
  Entries = {a, b}
  MaxPushes = 2
  Processes = {p1, p2}
  MaxBinds = 4
  MaxCrashes = 2
INVARIANTS WriterCorrect DispenserCorrect ReaderCorrect RingCorrect PoolCorrect SwitchCorrect QueueCorrect IpcCorrect RegistryCorrect
INVARIANTS ScalarCorrect CodecCorrect JSONCorrect CarrierCorrect ArgsCorrect
PROPERTIES ImplementsLog NameKeepsMeaning StreamsProgress SigProgress

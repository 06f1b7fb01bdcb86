\* The kernel, the idle task and a driver at boot, and two tasks spawned.
CONSTANTS
  PageSize = 2
  Entries = 4
  Tables = 24
  KernelEnd = 2
  ModuleSizes = {0, 1}
  BitmapSize = 3
  HeapObject = 1
  FrameCount = 99
  WordBits = 4
  HeapStart = 28
  HeapEnd = 74
  TaskKernelStack = 2
  DeviceFrame = 99
  MaxTasks = 5
  MaxOthers = 1
  MaxCores = 1
  KernelStack <- MCKernelStack
  TaskStack <- MCTaskStack
  TaskHeap <- MCTaskHeap
  BootPrograms <- MCBootPrograms
  Programs <- MCPrograms
  DevicePages <- MCDevicePages
SPECIFICATION MemorySpec
INVARIANT AddressSpacesWork
INVARIANT FramesAreOwn
INVARIANT ImagesAreLoaded
INVARIANT BuffersAreContiguous
PROPERTY CoresAreComplete

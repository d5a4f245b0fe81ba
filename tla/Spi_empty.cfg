SPECIFICATION SpiSpec
CONSTANT MaxBytes = 8
INVARIANT StoresInArray
CHECK_DEADLOCK TRUE

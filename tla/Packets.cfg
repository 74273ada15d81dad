SPECIFICATION Spec
CONSTANTS
    ConfLen = 10
    Field = 2
    PathLen = 6
    MaxArgs = 3
    NameBytes = 4
    Word = 16
    Chars <- MCChars
    Texts <- MCTexts
    Argvs <- MCArgvs
    Argcs <- MCArgcs
    ModuleLists <- MCModuleLists
    Epcs <- MCEpcs
    Names <- MCNames
    SendLists <- MCSendLists
INVARIANTS ConfigParsed ArgsSplit IopArgsSplit ModuleFound NameEnds NameArrives
CHECK_DEADLOCK FALSE

SPECIFICATION FairSpec
CONSTANTS
    Name <- MCName
    Macro <- MCMacro
    NolintCategory <- MCNolintCategory
    NamespaceLimit = 2
    NormalTrigger = 1
    TestTrigger = 2
    SmallClass = 1
    CopyrightLines = 1
    Path <- MCPath
    CppHeader <- MCCppHeader
    PublicDir <- MCPublicDir
    Provides <- MCProvides
    SameModule <- MCSameModule
    HeaderText <- MCHeaderText
    Extension <- MCExtension
    CppVar <- MCCppVar
    TestFile = {}
    Corpora <- MCCorpora
INVARIANTS
    TypeOK
    Told
    NestedAsFirstBranches
    OrderedIncludes
    LongFunctions
PROPERTIES
    Finishes

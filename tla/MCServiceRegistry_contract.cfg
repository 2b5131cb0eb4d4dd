CONSTANTS
    ServiceNames <- Services
    ResourceNames <- SomeNames
    UrlSafe <- SafeNames
    Declarations <- Conventional
    Digest <- Hash
    Lower <- LowerCase
    PlainIds <- SomeIds
    MaxRegistries = 2
    MaxResources = 2
    MaxRouters = 2
SPECIFICATION Spec
INVARIANTS TypeOK NamesAreUnique EtagNamesManifest CallReachesOwnAction

\* Two servers open one file of any release; one open is cut short.
SPECIFICATION Spec
CONSTANTS
    Openers = {o1, o2}
    NoOne = NoOne
    Releases <- SomeReleases
    MaxKills = 1
INVARIANTS RecordedIsPresent ServingIsComplete
PROPERTIES OpensSucceed

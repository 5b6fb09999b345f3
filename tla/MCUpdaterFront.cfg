\* Two requests of any kind, one reset and one restart, a publisher that goes on.
CONSTANTS
    planet = planet
    country = country
    Requests = {r1, r2}
    Names = {planet, country}
    DefaultName = planet
    NoName = NoName
    Releases <- MCReleases
    Blank = Blank
    Off = Off
    MaxResets = 1
    MaxRestarts = 1
SPECIFICATION Spec
SYMMETRY Symmetry
INVARIANTS
    TypeOK
    UnforcedDownloadsWhatIsAsked
    NoRepeatedDownload
    RefusalNeedsDate
CHECK_DEADLOCK FALSE

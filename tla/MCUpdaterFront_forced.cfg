\* One download, forced, of an archive that is not the default.
CONSTANTS
    planet = planet
    country = country
    Requests = {r1}
    Names = {planet, country}
    DefaultName = planet
    NoName = NoName
    Releases <- MCReleases
    Blank = Blank
    Off = Off
    MaxResets = 1
    MaxRestarts = 0
SPECIFICATION Spec
INVARIANT
    DownloadsWhatIsAsked
CHECK_DEADLOCK FALSE

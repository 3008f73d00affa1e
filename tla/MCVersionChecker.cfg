SPECIFICATION FairSpec
CONSTANTS
    Versions <- MCVersions
    Installs <- MCInstalls
    Grace = 1
    MaxTime = 3
    MaxRestarts = 1
INVARIANTS
    TypeOK
    AnnouncedIsDue
PROPERTIES
    StableSeesNoPreRelease
    ReleaseNotifiedOnce
    UpdateIsAnnounced

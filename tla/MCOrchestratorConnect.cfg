SPECIFICATION Spec
CONSTANTS
    a1 = a1
    d1 = d1
    d2 = d2
    Appliances = {a1}
    Main = Main
    Discoveries = {d1}
    Grace = 2
    haBirthRepublish = TRUE
    MaxChains = 3
    MaxDisturbances = 2
    None = None
PROPERTIES
    AnnouncedOnConnect

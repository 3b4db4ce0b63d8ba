SPECIFICATION PartSpec
CONSTANTS
    Parts = {"invoices"}
    h1 = h1
    h2 = h2
    h3 = h3
    i1 = i1
    i2 = i2
    hours = hours
    exempt = exempt
    taxed = taxed
    none = none
    o1 = o1
    o2 = o2
    o3 = o3
    ada = ada
    bob = bob
    sam = sam
    zoe = zoe
    d1 = d1
    d2 = d2
    Invoices <- TwoInvoices
    Handlers <- ThreeHandlers
    Years <- TwoYears
    MaxRank = 1
    Lines = {hours}
    Terms <- TwoTerms
    None = none
    Orgs <- ThreeOrgs
    Emails <- FourEmails
    Desks <- TwoDesks
    Scenarios <- PairsAndStories
    AskedRoles <- OwnerAdmin
    Start <- OwnersAndTeam
    MaxRequests <- Bounds
    MaxUsers = 4
    MaxInvitations = 2
    MaxSessions = 5
PROPERTY IssuedNeverDeleted
SYMMETRY Sym
\* Every handler may have ended.
CHECK_DEADLOCK FALSE

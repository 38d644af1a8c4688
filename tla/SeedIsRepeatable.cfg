CONSTANTS
    Scope = {"vault"}
    Platforms <- MCPlatforms
    Ids = {m1, m2}
    Tokens = {t1, t2}
    c1 = c1
    c2 = c2
    Commands = {c1, c2}
    SmKeys = {"user", "pass", "inv", "stray", "foreign"}
    SmValues = {"v1", "v2"}
    Programs <- MCPrograms
    Stocks <- MCStocks
    AllowedKeys = {"user", "pass", "inv", "stray"}
    BindingKeys = {"user", "pass"}
    InventoryKeys = {"inv", "user"}
    MaxMade = 3
    MaxLate = 1
    Protos = {"browser", "ssh", "ftp"}
    Calls = {s1, s2}
    Requests = {r1, r2}
    Offers <- MCOffers
    Cookies <- MCCookies
    ShortCookies <- MCShortCookies
    MaxSessions = 1
    MaxCookies = 1
    Clients = {k1, k2}
    MaxClients = 1
    HttpRequests = {h1}
    MaxBody = 2
    Forms <- MCForms
SPECIFICATION SeedSpec
INVARIANTS
    SeedIsRepeatable
CHECK_DEADLOCK FALSE

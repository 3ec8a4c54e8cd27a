SPECIFICATION FairSpec
CONSTANTS
    c1 = c1
    c2 = c2
    c3 = c3
    None = None
    Connections <- ThreeConnections
INVARIANTS
    TypeOK
    LoginIsLive
    SendsAreLoggedIn
    TimeTells
    PanelShows
PROPERTIES
    ProfileIsAsked
    SessionEnds

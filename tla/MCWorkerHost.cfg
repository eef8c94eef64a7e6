SPECIFICATION Spec
CONSTANTS
    s1 = s1
    s2 = s2
    zip = zip
    pdf = pdf
    Worker = {w1, w2}
    Session = {s1, s2}
    Proxied = {s1}
    Ext = {zip, pdf}
    Asked <- MCAsked
    MaxCrashes = 1
CHECK_DEADLOCK FALSE
INVARIANTS
    TypeOK
    ProxyIsOwn
    NoForeignState
    PublishedIsOwn
PROPERTIES
    OwnDownloadWins

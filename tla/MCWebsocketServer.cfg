\* One backend process, one browser; every tree over four places exists at some time.
SPECIFICATION Spec
VIEW WithoutFrames
CONSTANTS
    backend = backend
    browser = browser
    Client = {backend, browser}
    Backend = {backend}
    Resource <- MCResource
    Root = "/"
    Parent <- MCParent
    Version = {"/item/v0"}
    Forbidden = {"/principals"}
INVARIANTS
    TypeOK
    TablesAgree
    NoSilentUnsubscribe
PROPERTY
    ImplementsSubscriptions

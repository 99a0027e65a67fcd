SPECIFICATION Spec
CONSTANTS
    p1 = p1
    p2 = p2
    onePin = onePin
    otherPin = otherPin
    t1 = t1
    t2 = t2
    MaxVisits = 2
    Pins = {onePin, otherPin}
    NoPin = NoPin
    Toggles = {"pinEnabled"}
    HistoryMax = 3
    People = {shop}
    Nobody = Nobody
    Contacts = {shop}
    Amounts = {0, 1}
    Balance = 1
    Payments = {p1, p2}
    MaxEntries = 2
    Submits = {t1, t2}
    MaxAsking = 2
    Friends = {ann, ben}
    ann = ann
    ben = ben
    Me = Me
    Totals = {115}
    RoundedUp = {}
    Typed = {58}
    MaxSplits = 1
SYMMETRY Symmetry
CONSTRAINT BiometricAlone
INVARIANTS
    TypeOK
    AuthorisedByPin
    HistoryTellsPayments
PROPERTIES
    PinWasConfirmed
    SharesAddUp
CHECK_DEADLOCK FALSE

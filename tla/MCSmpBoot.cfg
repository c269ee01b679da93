\* Four processors; the MADT also lists one that is disabled.
SPECIFICATION Spec
CONSTANTS
    b = b
    a1 = a1
    a2 = a2
    a3 = a3
    disabled = disabled
    Boot = b
    Listed <- Madt
    Enabled = {b, a1, a2, a3}
    Lapic = TRUE
    None = None
INVARIANTS OwnIdentity HandshakeCovers NoThreadWiped TickReady
PROPERTY AllRun

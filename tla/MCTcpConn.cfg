CONSTANTS
    Socks = {s1, s2}
    Tasks = {t1, t2}
    NoMeta = NoMeta
    MaxEntries = 1
    RingSize = 1
    MaxConnects = 3
SPECIFICATION Spec
SYMMETRY Symmetry
INVARIANT EventsAttributed
INVARIANT EstablishedReported

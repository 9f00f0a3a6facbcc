CONSTANTS
    Thread = {t1, t2}
    Name = {"a"}
    MaxListeners = 2
    MaxEvents = 3
    MaxDepth = 2
SYMMETRY Symmetry
SPECIFICATION LogSpec
INVARIANTS
    OnceAtMostOnce
    EveryoneHears
    NoForgottenEar

CONSTANTS
    m1 = m1
    m2 = m2
    m3 = m3
    Runs = {m1, m2, m3}
    Accuracy <- MCAccuracy
    Trainers = {t1}
    Loaders = {l1}
    Promoters = {p1}
    Nil = Nil
    MaxBreaks = 1
SYMMETRY Symmetry
SPECIFICATION LifecycleSpec
PROPERTY PromotionImproves

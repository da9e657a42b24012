SPECIFICATION OperatorSpec
CONSTANTS
    r1 = r1
    r2 = r2
    Resources <- Names
    KindOf <- Kind
    Specs <- SomeSpecs
    Replicas = {r1, r2}
    Inputs <- SomeInputs
INVARIANTS SidecarOnce
PROPERTIES VerdictOfItsSpec StatusSettles
CHECK_DEADLOCK FALSE

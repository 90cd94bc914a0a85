\* Versions whose components fit into eight bits, around the minimum.
CONSTANTS
    Components = {0, 3, 40, 255}
SPECIFICATION Spec
INVARIANTS TypeOK MinimumIsExact CompatibleButForMicro

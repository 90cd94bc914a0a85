\* The comparison of the code beside the one its comment describes.
CONSTANTS
    Components = {0, 3, 40, 255}
SPECIFICATION Spec
INVARIANT CompatibleAsDocumented

\* A ring of four bytes, a power of two, and two byte values.
SPECIFICATION Spec
CONSTANTS
    Byte = {0, 1}
    Zero = 0
    Size = 4
INVARIANTS TypeOK CursorsAgree NonEmptyIsReadable StagedKept MaskAgrees
PROPERTIES FifoSpec

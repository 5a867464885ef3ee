\* Buffers of up to four bytes in allocations of up to five: every order of the
\* three ends and room to grow, in place and by moving.
SPECIFICATION Spec
CONSTANTS
    MaxSize = 4
    MaxCap = 5
    Prefix = 1
INVARIANTS TypeOK EndsOrdered ReachableIsOwn

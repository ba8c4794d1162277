\* Two runs, one after another or at once, killed at any step; a list of three keys.
SPECIFICATION Spec
CONSTANTS
    h1 = h1
    h2 = h2
    i1 = i1
    i2 = i2
    i3 = i3
    i4 = i4
    Helper = {h1, h2}
    Message = {9, 10, 11}
    Earlier = {8}
    Keep = 2
    Inode = {i1, i2, i3, i4}
    NoInode = NoInode
INVARIANTS TypeOK StateReadable RememberedOnDisk
 
SYMMETRY Symmetric

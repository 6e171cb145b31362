\* Blocks of 8 bytes: messages of none to eight blocks that end at every place of a block.
SPECIFICATION Spec
CONSTANTS
    Block = 8
    WordLen = 2
    Word = 512
    MaxLen = 63
INVARIANTS
    TypeOK
    DigestIsRFC

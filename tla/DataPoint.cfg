SPECIFICATION FairSpec
CONSTANTS
    off = off  on = on  s1 = s1  s2 = s2  None = None
    Values = {off, on}
    Zero = off
    First = off
    Senders = {s1}
    MaxWrites = 2
    MaxUpsets = 1
INVARIANTS NoInventedState
PROPERTIES DisplaySettles WritersReturn

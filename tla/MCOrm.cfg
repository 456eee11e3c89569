SPECIFICATION Spec
CONSTANTS
    l1 = l1 l2 = l2 o1 = o1 o2 = o2 a1 = a1 a2 = a2
    Lines <- MCLines
    Orders <- MCOrders
    Amounts <- MCAmounts
    None = None
    MaxWork = 3
SYMMETRY Symmetry
   
PROPERTIES BehavesAsRecords

SPECIFICATION Spec
CONSTANTS
    Prices <- MCPrices
    Quantities <- MCQuantities
    MaxOrders = 4
INVARIANTS
    LiveIndexExact
    NeverCrossed
    LevelsInPriorityOrder
PROPERTY ImplementsPriceTime

CONSTANTS
    Plans <- MCPlans
SPECIFICATION PppSpec
INVARIANTS LayersAgree Expected Agreed
PROPERTY Negotiates
CHECK_DEADLOCK FALSE

SPECIFICATION RSpec
CONSTANTS
    RowBudget = 2
    Compactors = {c1}
    Topics = {1}
    MaxIds = 4
PROPERTIES
    RerunDistillsNothing

\* Two loads, two purchases and a restore; three buttons pressed by two users.
CONSTANTS
    Loads = {l1, l2}
    Restores = {r1}
    Buys = {b1, b2}
    First = l1
    None = None
    Users = {u1, u2}
    MaxPresses = 3
    Nobody = Nobody
SPECIFICATION AccountsSpec
INVARIANTS
    LoadingMeansWork ListOrError CompleteIsPaid
     DocumentsHaveAccounts AccountsHaveDocuments
PROPERTIES LoadingEnds
\* The user may stop pressing buttons, and a crash ends the process.
CHECK_DEADLOCK FALSE

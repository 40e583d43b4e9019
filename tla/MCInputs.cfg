CONSTANTS
    Instances <- AllInstances
    Default <- Root
    Segment <- AnyString
    Gid = {"g1", "g2"}
    Founded <- OnEach
    Name = {"Anna", "anna", "bob", "cy", "Cy", " Anna"}
    Fold <- Lower
    Blanks = {" Anna"}
    Residents <- AnnaBob
    Texts <- Pastes
    Rests <- Tails
    Guests <- Parties
    Edits <- UpToThree
    None = None
    MaxRequests = 2
SPECIFICATION Spec
INVARIANTS LinkLeadsBack EditAsAsked CallerStands
CHECK_DEADLOCK FALSE

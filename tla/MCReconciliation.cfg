\* Two processes of one host and one of another; nobody edits a record while one of them is at work.
CONSTANTS
    p1 = p1
    p2 = p2
    p3 = p3
    here = here
    there = there
    old = old
    new = new
    foreign = foreign
    None = None
    Missing = Missing
    Conflict = Conflict
    Ada = Ada
    Bo = Bo
    draft = draft
    ready = ready
    done = done
    r1 = r1
    r2 = r2
    Processes = {p1, p2, p3}
    HostOf <- MCHostOf
    Paths = {r1, r2}
    Bodies = {old, new, foreign}
    Document <- MCDocument
    Base <- MCBase
    Incoming <- MCIncoming
    Merge <- MCMerge
    Arrays <- MCArrays
    Documents <- MCDocuments
    EventArrays <- MCEventArrays
    MayRace = FALSE
SYMMETRY Alike
SPECIFICATION Spec
INVARIANTS OneWriter MergesRecords MergesEvents
PROPERTIES ReceiptIsTrue EditsSurvive Implements

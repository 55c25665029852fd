\* Two processes and records that change under a command's hands.
CONSTANTS
    r1 = r1
    r2 = r2
    p1 = p1
    p2 = p2
    p3 = p3
    here = here
    there = there
    old = old
    new = new
    foreign = foreign
    None = None
    Missing = Missing
    Conflict = Conflict
    Ada = Ada
    Bo = Bo
    draft = draft
    ready = ready
    done = done
    Processes = {p1, p2}
    HostOf <- MCHostOf
    Paths = {r1, r2}
    Bodies = {old, new, foreign}
    Document <- MCDocument
    Base <- MCBase
    Incoming <- MCIncoming
    Merge <- MCMerge
    Arrays <- MCArrays
    Documents <- MCDocuments
    EventArrays <- MCEventArrays
    MayRace = TRUE
SPECIFICATION Spec
PROPERTIES RestoresSpareEdits

\* Two audits of two agents and two requests: a request that detaches one audit
\* while another is created or deleted, a listing that crosses a deletion.
SPECIFICATION Spec
CONSTANTS
    Agents = {g1, g2}
    Audits = {a1, a2}
    Requests = {r1, r2}
    NoAgent = NoAgent
    File = {g1}
SYMMETRY MCSymmetry
INVARIANTS ReferencesHold ListingIsFresh RateOverrunsByNewcomers
PROPERTIES DetachedOnlyByDeletion

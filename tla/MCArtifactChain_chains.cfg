CONSTANTS
    r1 = r1
    r2 = r2
    c1 = c1
    c2 = c2
    w1 = w1
    w2 = w2
    i1 = i1
    k1 = k1
    s = s
    t = t
    Runner = {r1, r2}
    Input = {i1}
    Concept = {k1}
    Sketch = s
    Claim = {c1, c2}
    Wording = {w1, w2}
    FirstWording = w1
    Text = {t}
    MaxItems = 2
    MaxScan = 4096
    MaxGeneration = 4
SPECIFICATION Spec
SYMMETRY Symmetry
INVARIANTS
    ItemsAuditedOnce
    AcceptedIsReusable
    ClaimsAccountForTheirChain
CHECK_DEADLOCK FALSE

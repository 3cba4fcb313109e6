SPECIFICATION PnLSpec
CONSTANTS
    e1 = e1  e2 = e2
    Exec = {e1, e2}
    Deal <- MCDeal
    Fee = {0}
    Par = 10
    None = None
SYMMETRY Symmetric
INVARIANTS BookedIsCash ReportIsExact

SPECIFICATION Spec
CONSTANTS
    a = a
    b = b
    t1 = t1
    t2 = t2
    None = None
    NoRow = NoRow
    Unread = Unread
    Columns = {a, b}
    Types = {t1, t2}
    Shapes <- ThreeShapes
    NameLevel <- OneTells
    Texts = {"text"}
    Callers = {"ai", "human"}
    SourceSchema = ""
    NoSchema = ""
    Namesakes <- OneHarmless
    Faults = {"read", "lookup"}
    PageSize = 1
    MaxScans = 3
    MaxNotes = 1
    MaxReads = 1
    MaxUpstream = 1
    MaxCrashes = 1
CHECK_DEADLOCK FALSE
INVARIANTS
    TypeOK
    WrittenSurvives
    DetailIsTheDifference
    NamesAreJudged
    PagesMissNothing
    FoundMarksDecide

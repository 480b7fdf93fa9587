CONSTANT MaxEvents = 5
SPECIFICATION MCSpec
INVARIANTS TypeOK Rooted CausalOrder StackIsConfiguration NoFailure Resumes DisabledStayOut NeverTwice VisitsAll
PROPERTY PastIsFixed
CHECK_DEADLOCK FALSE

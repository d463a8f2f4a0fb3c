\* Documents with collections nested up to four deep (the fourth is refused
\* by the loader).  A parse ends, so there is no next step after it.
CONSTANT MaxDepth = 3
SPECIFICATION FairSpec
INVARIANTS StackDiscipline
PROPERTIES WellFormedEvents AlwaysConsumes
CHECK_DEADLOCK FALSE

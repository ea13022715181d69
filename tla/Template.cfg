\* Lines of seven commands; five templates, two elements at a time, in files they fit and in files they do not.
CONSTANTS
    Templates <- MCTemplates
    Elements <- MCElements
    Values <- MCValues
    Writes <- MCWrites
    MaxLoads = 2
    Commands <- MCCommands
    Lines <- MCLines
    MaxDevid = 3
SPECIFICATION MCSpec
INVARIANT FilesApart
INVARIANT SurvivesSave
INVARIANT RunsAsTyped
PROPERTY OnlyOwnBits
CHECK_DEADLOCK FALSE

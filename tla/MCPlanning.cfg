SPECIFICATION MCSpec
CONSTANTS
    None = None
    Absent = Absent
    Broken = Broken
    Files <- MCFiles
    Lines <- MCLines
    BuiltIn <- MCBuiltIn
    Limits <- MCLimits
    Keys = {"k1", "k2"}
    Bytes = {"a", "b", "*"}
    MaxPattern = 5
    MaxText = 4
    Words = {"push", "log", "-C", "-f", "-uf", "--x=log", "--x", "--"}
    Shape <- MCShape
    Separator = "--"
    Variables = {"GIT_DIR"}
    Rules <- MCRules
    Programs = {"git", "kakoi"}
    MaxRules = 2
    MaxWords = 3
    Places <- MCPlaces
    Trees <- MCTrees
    Targets <- MCTargets
    Policies <- MCPolicies
    Protected <- MCProtected
    Secrets <- MCSecrets
    ConfigDir <- C
    Workspaces <- MCWorkspaces
    CurrentDir <- MCCurrentDir
    Home <- MCHome
    LinkLimit = 3
    MaxChanges = 2
INVARIANTS LayersKept MatchesAsEverySplit 
 
CHECK_DEADLOCK FALSE
